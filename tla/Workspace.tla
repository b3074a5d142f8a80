------------------------------ MODULE Workspace ------------------------------
(***************************************************************************)
(* Workspaces (workspace.py over workbackend.py): a request opens one, page *)
(* traffic and heartbeats keep it, and a reaper that passes once a minute   *)
(* stops it when nobody is there and nothing runs, after asking first.      *)
(*                                                                         *)
(* The server is one process with one event loop.  Its memory of presence  *)
(* is a handful of dictionaries, shared by all handlers and lost when it    *)
(* restarts.  A handler gives way at its awaits, which are calls to the     *)
(* backend; one step of the model reaches from one await to the next, and   *)
(* the effect on the backend is a step of its own.                          *)
(*                                                                         *)
(* The unit of time is the reaper's minute.  Signals are kept as ages, in   *)
(* passes of the reaper, counted up to the age at which they no longer      *)
(* matter.                                                                  *)
(***************************************************************************)
EXTENDS Integers, FiniteSets

CONSTANTS
    Keys,       \* workspaces of one user, one per product
    Products,   \* what a workspace may run: does its page report real
                \* interaction, and is its instance on ECI or on docker?
    Requests,   \* requests in flight
    Cap,        \* WORK_MAX_CONCURRENT
    Grace,      \* WORK_TAB_GONE_MIN
    IdleStop,   \* WORK_IDLE_STOP_MIN
    AgentIdle,  \* WORK_AGENT_IDLE_STOP_MIN
    Window,     \* WORK_RECLAIM_ASK_SEC
    MaxLeft     \* bound: instances of a workspace that the backend fails to delete

ASSUME ProductsAssumption == Products \subseteq [reports : BOOLEAN, cloud : BOOLEAN]
ASSUME TimesAssumption ==
    /\ {Cap, Grace, IdleStop, AgentIdle, Window} \subseteq Nat \ {0}
    /\ Grace <= IdleStop /\ MaxLeft \in Nat

Absent == -1
Void   == -2
Larger(m, n)  == IF m < n THEN n ELSE m
Smaller(m, n) == IF m < n THEN m ELSE n
Old  == Larger(IdleStop, AgentIdle) + 1
Ages == {Absent} \union 0..Larger(Old, Window)

VARIABLES
    product,    \* of each workspace
    boxes,      \* instances at the backend, by state
    lastSeen, userActive, startedAt, starting, reclaimAsked,  \* the dictionaries
    agentSeen,  \* when the agent last called the gateway (devices.last_seen)
    broke,      \* is the user's debt at its limit?
    request,    \* what each request is doing
    reaper,     \* where the reaper is in its pass
    left,       \* history: instances that a request of the workspace has failed
                \* to delete and that no later one has tried again
    warned      \* history: minutes a question has stood without a sign of presence,
                \* Void when its instance has stopped running since

vars == <<product, boxes, lastSeen, userActive, startedAt, starting, reclaimAsked,
          agentSeen, broke, request, reaper, left, warned>>
dicts  == <<lastSeen, userActive, startedAt, starting, reclaimAsked>>
memory == <<dicts, warned>>
world  == <<product, agentSeen, broke>>
backend == <<boxes, left>>

Cloud   == {k \in Keys : product[k].cloud}
Reports == {k \in Keys : product[k].reports}

Box(s, b, r) == [stopped |-> s, booting |-> b, running |-> r]
Gone   == Box(0, 0, 0)
Total(b) == b.stopped + b.booting + b.running
Fewer(b) == [stopped : 0..b.stopped, booting : 0..b.booting, running : 0..b.running]
Asleep == [step |-> "sleep"]
Idle   == [step |-> "idle"]
InEnsure == {"inspect", "destroy", "list", "relist", "create", "start", "note", "probe"}

TypeOK ==
    /\ product \in [Keys -> Products]
    /\ boxes \in [Keys -> [DOMAIN Gone -> Nat]] /\ left \in [Keys -> 0..MaxLeft]
    /\ {lastSeen, userActive, startedAt, reclaimAsked} \subseteq [Keys -> Ages]
    /\ warned \in [Keys -> {Void} \union Ages]
    /\ starting \subseteq Keys
    /\ agentSeen \in Ages /\ broke \in BOOLEAN
    /\ request \in [Requests -> {Idle} \union
                      [step : InEnsure \union {"forget"}, key : Keys]]
    /\ reaper \in {Asleep, [step |-> "list"]} \union
                  [step : {"sweep", "release", "forget"}, todo : SUBSET Keys, key : Keys]

Forgotten == [k \in Keys |-> Absent]

\* Who is not in _user_active counts as long gone.
Inactive == [k \in Keys |-> Old]

Init ==
    /\ product \in [Keys -> Products]
    /\ boxes = [k \in Keys |-> Gone] /\ left = [k \in Keys |-> 0]
    /\ lastSeen = Forgotten /\ userActive = Inactive /\ startedAt = Forgotten
    /\ starting = {} /\ reclaimAsked = Forgotten /\ warned = Forgotten
    /\ agentSeen = Old /\ broke = FALSE
    /\ request = [r \in Requests |-> Idle]
    /\ reaper = Asleep

\* Between two workspaces that stay, the reaper's pass has no await.
LoopFree == reaper.step # "sweep"

Running == {k \in Keys : boxes[k].running > 0}

\* ECI deletes every instance by itself; a call that fails is logged and
\* passed over.
Left(k) == {b \in Fewer(boxes[k]) : Total(b) <= MaxLeft}

\* Mutant of Released: the container is taken to have been running.
ReleasedBlindly(k) ==
    IF k \in Cloud THEN Left(k)
    ELSE {Box(1, boxes[k].booting, boxes[k].running - 1)}

\* docker stops the container and keeps it, and nobody reads its answer.
Stopped(k)   == Box(boxes[k].stopped + boxes[k].running, boxes[k].booting, 0)
Released(k)  == IF k \in Cloud THEN Left(k) ELSE {Stopped(k), boxes[k]}
Destroyed(k) == IF k \in Cloud THEN Left(k) ELSE {Gone, Stopped(k), boxes[k]}

Becomes(k, b) ==
    /\ boxes' = [boxes EXCEPT ![k] = b]
    /\ left' = [left EXCEPT ![k] = Smaller(@, Total(b))]

\* A question that stands loses its object when nothing runs any more.
Outlived(k) ==
    warned' = [warned EXCEPT ![k] =
                  IF reclaimAsked[k] = Absent \/ boxes'[k].running > 0 THEN @ ELSE Void]


-----------------------------------------------------------------------------
(* Signs of presence: they break the silence of a question that stands.     *)

Broken(w) == IF w = Void THEN Void ELSE Absent
Spoken(k) == warned' = [warned EXCEPT ![k] = Broken(@)]
Now(f, k) == [f EXCEPT ![k] = 0]
Drop(f, k) == [f EXCEPT ![k] = Absent]

\* "Keep it" in the dialog, and the page's own beat every 45 seconds.
Here(k) ==
    /\ LoopFree
    /\ reclaimAsked' = Drop(reclaimAsked, k)
    /\ userActive' = Now(userActive, k)
    /\ lastSeen' = Now(lastSeen, k)
    /\ warned' = Drop(warned, k)
    /\ UNCHANGED <<backend, startedAt, starting, world, request, reaper>>

Keep(k)      == Here(k) /\ reclaimAsked[k] # Absent
Heartbeat(k) == Here(k)

\* A key, a pointer or a wheel was moved in the page of a reporting product.
Active(k) ==
    /\ LoopFree /\ k \in Reports
    /\ userActive' = Now(userActive, k)
    /\ Spoken(k)
    /\ UNCHANGED <<backend, lastSeen, startedAt, starting, reclaimAsked, world, request, reaper>>

\* Any asset or frame of the page, while the last one is recent.
FastRoute(k) ==
    /\ LoopFree /\ ~broke /\ lastSeen[k] = 0 /\ k \notin starting
    /\ IF k \in Reports THEN UNCHANGED warned ELSE Spoken(k)
    /\ UNCHANGED <<backend, dicts, world, request, reaper>>

\* The agent in a running workspace calls the gateway.
AgentCalls ==
    /\ LoopFree /\ Running # {}
    /\ agentSeen' = 0
    /\ warned' = [k \in Keys |-> Broken(warned[k])]
    /\ UNCHANGED <<backend, dicts, product, broke, request, reaper>>

-----------------------------------------------------------------------------
(* Opening a workspace: ensure_workspace under the lock of its key.         *)

Goto(r, k, step) == request' = [request EXCEPT ![r] = [step |-> step, key |-> k]]
Done(r) == request' = [request EXCEPT ![r] = Idle]
At(r, k, step) == request[r] = [step |-> step, key |-> k]

\* A request that waits for the lock does nothing else: it begins when it has it.
Locked(k) == \E q \in Requests : request[q] # Idle /\ request[q].key = k /\ request[q].step \in InEnsure

\* Mutant of Open: the requests of a page go ahead side by side.
OpenUnlocked(r, k) ==
    /\ LoopFree /\ request[r] = Idle /\ ~broke
    /\ Goto(r, k, "inspect")
    /\ UNCHANGED <<backend, memory, world, reaper>>

Open(r, k) ==
    /\ LoopFree /\ request[r] = Idle /\ ~broke
    /\ ~Locked(k)
    /\ Goto(r, k, "inspect")
    /\ UNCHANGED <<backend, memory, world, reaper>>

\* ECI keeps one of the instances it finds and deletes the others.  What was
\* found may have been built from a configuration or an image of the past.
Keepers(k) ==
    IF k \notin Cloud \/ boxes[k] = Gone THEN {boxes[k]}
    ELSE {[Gone EXCEPT ![s] = 1] : s \in {s \in DOMAIN Gone : boxes[k][s] > 0}}

Others(k, kept) ==
    {b \in Left(k) : \A s \in DOMAIN Gone : b[s] <= boxes[k][s] - kept[s]}

Inspect(r, k) ==
    /\ At(r, k, "inspect")
    /\ \E kept \in Keepers(k) : \E others \in Others(k, kept) :
        /\ boxes' = [boxes EXCEPT ![k] = [s \in DOMAIN Gone |-> kept[s] + others[s]]]
        /\ left' = [left EXCEPT ![k] = Total(others)]
        /\ \E step \in IF kept = Gone THEN {"list"}
                       ELSE {"destroy", IF kept.running > 0 THEN "probe" ELSE "relist"} :
              Goto(r, k, step)
    /\ Outlived(k)
    /\ UNCHANGED <<dicts, world, reaper>>

\* The instance is rebuilt, whether or not the backend has got rid of the old one.
Destroy(r, k) ==
    /\ At(r, k, "destroy")
    /\ \E b \in Destroyed(k) :
        /\ boxes' = [boxes EXCEPT ![k] = b]
        /\ left' = [left EXCEPT ![k] = IF k \in Cloud THEN Total(b) ELSE 0]
    /\ Outlived(k)
    /\ Goto(r, k, "list")
    /\ UNCHANGED <<dicts, world, reaper>>

\* docker has a start, ECI starts what it creates.
Begun(k) == IF k \in Cloud THEN "note" ELSE "start"

\* The running ones are counted, and the request is turned away at the cap;
\* whether there is anything to create was seen before.
List(r, k) ==
    /\ At(r, k, "list") \/ At(r, k, "relist")
    /\ IF Cardinality(Running) >= Cap THEN Done(r)
       ELSE Goto(r, k, IF request[r].step = "list" THEN "create" ELSE Begun(k))
    /\ UNCHANGED <<backend, memory, world, reaper>>

Create(r, k) ==
    /\ At(r, k, "create")
    /\ boxes' = [boxes EXCEPT ![k] =
                   IF k \in Cloud THEN Box(@.stopped, @.booting + 1, @.running)
                   ELSE IF @ = Gone THEN Box(1, 0, 0) ELSE @]
    /\ Goto(r, k, Begun(k))
    /\ UNCHANGED <<left, memory, world, reaper>>

\* A container that is gone cannot be started: the request fails.
StartBox(r, k) ==
    /\ At(r, k, "start")
    /\ boxes' = [boxes EXCEPT ![k] = Box(0, @.booting, @.running + @.stopped)]
    /\ IF boxes[k] = Gone THEN Done(r) ELSE Goto(r, k, "note")
    /\ UNCHANGED <<left, memory, world, reaper>>

Note(r, k) ==
    /\ LoopFree /\ At(r, k, "note")
    /\ startedAt' = Now(startedAt, k)
    /\ starting' = starting \union {k}
    /\ Spoken(k)
    /\ Done(r)
    /\ UNCHANGED <<backend, lastSeen, userActive, reclaimAsked, world, reaper>>

\* _ready asks the application itself.  work_route and work_shell then count
\* the request as traffic, work_entry does not.
Probe(r, k) ==
    /\ LoopFree /\ At(r, k, "probe")
    /\ \/ /\ boxes[k].running > 0
          /\ starting' = starting \ {k}
          /\ \/ lastSeen' = Now(lastSeen, k)
             \/ UNCHANGED lastSeen
       \/ starting' = starting \union {k} /\ UNCHANGED lastSeen
    /\ IF k \in Reports \/ lastSeen' = lastSeen THEN UNCHANGED warned ELSE Spoken(k)
    /\ Done(r)
    /\ UNCHANGED <<backend, userActive, startedAt, reclaimAsked, world, reaper>>

\* work_stop, which takes no lock.
Stop(r, k) ==
    /\ LoopFree /\ request[r] = Idle
    /\ \E b \in Released(k) : Becomes(k, b)
    /\ Outlived(k)
    /\ Goto(r, k, "forget")
    /\ UNCHANGED <<dicts, world, reaper>>

Forget(r, k) ==
    /\ LoopFree /\ At(r, k, "forget")
    /\ lastSeen' = Drop(lastSeen, k) /\ startedAt' = Drop(startedAt, k)
    /\ userActive' = [userActive EXCEPT ![k] = Old]
    /\ starting' = starting \ {k}
    /\ Done(r)
    /\ UNCHANGED <<backend, reclaimAsked, warned, world, reaper>>

Serve(r, k) ==
    \/ Inspect(r, k) \/ Destroy(r, k) \/ List(r, k) \/ Create(r, k) \/ StartBox(r, k)
    \/ Note(r, k) \/ Probe(r, k) \/ Forget(r, k)

-----------------------------------------------------------------------------
(* The reaper's pass over the workspaces that were running as it began.     *)

Older(a) == IF a \in {Absent, Void, Larger(Old, Window)} THEN a ELSE a + 1
Aged(f)  == [k \in Keys |-> Older(f[k])]

\* A minute of sleep.
Wake ==
    /\ reaper = Asleep
    /\ reaper' = [step |-> "list"]
    /\ lastSeen' = Aged(lastSeen) /\ userActive' = Aged(userActive)
    /\ startedAt' = Aged(startedAt) /\ reclaimAsked' = Aged(reclaimAsked)
    /\ warned' = Aged(warned) /\ agentSeen' = Older(agentSeen)
    /\ UNCHANGED <<product, backend, starting, broke, request>>

Survey ==
    /\ reaper.step = "list"
    /\ IF Running = {} THEN reaper' = Asleep
       ELSE \E k \in Running : reaper' = [step |-> "sweep", todo |-> Running \ {k}, key |-> k]
    /\ UNCHANGED <<backend, memory, world, request>>

GoOn ==
    IF reaper.todo = {} THEN reaper' = Asleep
    ELSE \E k \in reaper.todo :
            reaper' = [step |-> "sweep", todo |-> reaper.todo \ {k}, key |-> k]

\* What the dictionaries say of k; what they have forgotten is taken for new.
Seeded(f, k) == IF f[k] = Absent THEN 0 ELSE f[k]

ShouldStop(k) ==
    LET last    == Seeded(lastSeen, k)
        started == Seeded(startedAt, k)
        limit   == IF last > Grace THEN Grace ELSE IdleStop
        traffic == IF k \in Reports THEN Old ELSE last
        present == Smaller(Smaller(userActive[k], started), traffic)
        agent   == Smaller(Smaller(agentSeen, started), traffic)
    IN  (present > limit /\ agent > AgentIdle) \/ broke

Judge(k) ==
    /\ reaper.step = "sweep" /\ reaper.key = k
    /\ lastSeen' = [lastSeen EXCEPT ![k] = Seeded(lastSeen, k)]
    /\ startedAt' = [startedAt EXCEPT ![k] = Seeded(startedAt, k)]
    /\ UNCHANGED <<backend, userActive, starting, world, request>>

\* Mutant of Spare: the question stays up.
SpareAndKeepAsking(k) ==
    /\ Judge(k) /\ ~ShouldStop(k)
    /\ GoOn
    /\ UNCHANGED <<reclaimAsked, warned>>

Spare(k) ==
    /\ Judge(k) /\ ~ShouldStop(k)
    /\ reclaimAsked' = Drop(reclaimAsked, k) /\ warned' = Drop(warned, k)
    /\ GoOn

Ask(k) ==
    /\ Judge(k) /\ ShouldStop(k) /\ ~broke
    /\ reclaimAsked[k] = Absent
    /\ reclaimAsked' = Now(reclaimAsked, k)
    /\ warned' = [warned EXCEPT ![k] = IF k \in Running THEN 0 ELSE Void]
    /\ GoOn

\* Mutant of Wait: the window starts anew at every pass.
WaitAnew(k) ==
    /\ Judge(k) /\ ShouldStop(k) /\ ~broke
    /\ reclaimAsked[k] \in 0..Window - 1
    /\ reclaimAsked' = Now(reclaimAsked, k)
    /\ GoOn
    /\ UNCHANGED warned

Wait(k) ==
    /\ Judge(k) /\ ShouldStop(k) /\ ~broke
    /\ reclaimAsked[k] \in 0..Window - 1
    /\ GoOn
    /\ UNCHANGED <<reclaimAsked, warned>>

Condemn(k) ==
    /\ Judge(k) /\ ShouldStop(k)
    /\ broke \/ reclaimAsked[k] >= Window
    /\ reaper' = [reaper EXCEPT !.step = "release"]
    /\ UNCHANGED <<reclaimAsked, warned>>

ReaperRelease ==
    /\ reaper.step = "release"
    /\ \E b \in Released(reaper.key) : Becomes(reaper.key, b)
    /\ reaper' = [reaper EXCEPT !.step = "forget"]
    /\ UNCHANGED <<memory, world, request>>

ReaperForget ==
    /\ reaper.step = "forget"
    /\ LET k == reaper.key IN
        /\ lastSeen' = Drop(lastSeen, k) /\ startedAt' = Drop(startedAt, k)
        /\ userActive' = [userActive EXCEPT ![k] = Old] /\ reclaimAsked' = Drop(reclaimAsked, k)
        /\ warned' = Drop(warned, k)
    /\ GoOn
    /\ UNCHANGED <<backend, starting, world, request>>

Reaper ==
    \/ Wake \/ Survey \/ ReaperRelease \/ ReaperForget
    \/ \E k \in Keys : Spare(k) \/ Ask(k) \/ Wait(k) \/ Condemn(k)

-----------------------------------------------------------------------------
(* The backend on its own, the user's money, and the server's restart.      *)

Boot(k) ==
    /\ boxes[k].booting > 0
    /\ boxes' = [boxes EXCEPT ![k] = Box(@.stopped, @.booting - 1, @.running + 1)]
    /\ UNCHANGED <<left, memory, world, request, reaper>>

Die(k) ==
    /\ boxes[k].running > 0
    /\ boxes' = [boxes EXCEPT ![k] =
                   IF k \in Cloud THEN Box(@.stopped, @.booting, @.running - 1) ELSE Stopped(k)]
    /\ Outlived(k)
    /\ UNCHANGED <<dicts, left, world, request, reaper>>

Money ==
    /\ broke' = ~broke
    /\ UNCHANGED <<product, backend, memory, agentSeen, request, reaper>>

Restart ==
    /\ lastSeen' = Forgotten /\ userActive' = Inactive /\ startedAt' = Forgotten
    /\ starting' = {} /\ reclaimAsked' = Forgotten /\ warned' = Forgotten
    /\ request' = [r \in Requests |-> Idle]
    /\ reaper' = Asleep
    /\ UNCHANGED <<product, backend, agentSeen, broke>>

Next ==
    \/ \E k \in Keys : Keep(k) \/ Heartbeat(k) \/ Active(k) \/ FastRoute(k) \/ Boot(k) \/ Die(k)
    \/ \E r \in Requests, k \in Keys : Open(r, k) \/ Stop(r, k) \/ Serve(r, k)
    \/ AgentCalls \/ Reaper \/ Money \/ Restart

Spec == Init /\ [][Next]_vars

\* billing_reaper_loop never dies, and the backend answers it.  There is no
\* state in which its pass cannot go on, so that this is its weak fairness.
FairSpec == Spec /\ []<><<reaper' # reaper /\ Reaper>>_vars

-----------------------------------------------------------------------------
(* Correctness.                                                             *)

\* However many assets of a page ask at once, and whatever stops, dies or is
\* rebuilt in between, a workspace has one instance; on ECI it may have as many
\* more as the request that went on to create one had failed to delete, and the
\* next request tries those again (_ensure_lock, EciBackend._delete).
OneInstance == \A k \in Keys : Total(boxes[k]) <= 1 + left[k]

Condemned(k) == reaper.step = "sweep" /\ reaper.key = k /\ reaper'.step = "release"

\* "Put up the sign first and wait, instead of killing on the spot": an
\* instance whose user can pay is stopped by the reaper only when the question
\* put while it ran has stood for the whole window without a sign of presence.
AskedInSilence ==
    [][\A k \in Keys : Condemned(k) /\ ~broke => warned[k] \in {Void} \union Window..Larger(Old, Window)]_vars

\* workspace.py:91: as long as the question stands, any sign of presence takes
\* it down, traffic included: a workspace with traffic since is not stopped.
TrafficTakesItDown ==
    [][\A k \in Keys : Condemned(k) /\ ~broke => lastSeen[k] >= reclaimAsked[k]]_vars

\* What the server remembers of a user and of an agent; it changes with every
\* sign of them that is not the step of a request.
Presence(k) == <<lastSeen[k], userActive[k], reclaimAsked[k], warned[k], agentSeen>>

Visit(k) ==
    \/ \E r \in Requests : request'[r] # request[r]
                           /\ {request[r].step, request'[r].step} \cap {"inspect", "note", "probe"} # {}
    \/ UNCHANGED <<boxes, request, reaper>> /\ Presence(k)' # Presence(k)
    \/ Restart

StopFails(k) ==
    /\ boxes[k].running > 0 /\ boxes'[k].running > 0
    /\ \/ reaper.step = "release" /\ reaper.key = k /\ reaper'.step = "forget"
       \/ \E r \in Requests : request[r] = Idle /\ request'[r] = [step |-> "forget", key |-> k]

\* A workspace that nobody looks at and nothing works in is reclaimed, unless
\* its backend fails to stop it time and again.
AbandonedIsReclaimed ==
    \A k \in Keys : <>[][~(Visit(k) \/ StopFails(k))]_vars
                        => []<>(boxes[k].running = 0)
=============================================================================
