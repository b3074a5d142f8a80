----------------------------- MODULE ImageCache -----------------------------
(***************************************************************************)
(* server/scripts/eci_image_cache.py: the caches the cloud starts container *)
(* groups from.  "prepare" makes one for an image about to be published,    *)
(* "rebuild" one for each group of images a product needs and none covers,  *)
(* and clears away what no product knows.  A build borrows a public address *)
(* (EIP); the cloud also makes caches by itself, without one, that fail.    *)
(*                                                                         *)
(* A run of the script can be interrupted (its finally runs) or killed (it   *)
(* does not), and each call to the cloud can fail or lose its answer.       *)
(***************************************************************************)
EXTENDS FiniteSets, Naturals

CONSTANTS
    Runs,        \* runs of the script that are followed step by step
    Caches,      \* identities the cloud gives to caches
    Layouts,     \* values of .env: the image groups of the enabled products
    Images,      \* what prepare is asked for
    MaxTrouble   \* bounds failing and lost calls, interrupts and kills

VARIABLES
    enabled,     \* the layout .env has now
    cache,       \* the caches
    run,         \* of each run: where it is and what it has read
    eip,         \* the address a run has taken
    excused,     \* history: runs the cloud refused an answer or a removal
    trouble

cacheVars == <<enabled, cache, run, eip, excused, trouble>>

Idle == [pc |-> "idle", cmd |-> "none", groups |-> {}, left |-> {}, todo |-> {},
         building |-> {}, stale |-> {}, group |-> {}, id |-> {}, ready |-> FALSE]

Never == [images |-> {}, status |-> "unborn", maker |-> "none"]

Listed    == {c \in Caches : cache[c].status \in {"building", "ready", "failed"}}
With(s)   == {c \in Caches : cache[c].status = s}
Covers(c, g) == g \subseteq cache[c].images
Groups    == UNION Layouts \cup {{i} : i \in Images}

TypeOK ==
    /\ enabled \in Layouts /\ trouble \in 0 .. MaxTrouble /\ excused \subseteq Runs
    /\ eip \in [Runs -> {"none", "held", "leaked"}]
    /\ \A c \in Caches :
          cache[c] = Never \/ /\ cache[c].images \in Groups
                              /\ cache[c].status \in {"building", "ready", "failed", "gone"}
                              /\ cache[c].maker \in Runs \cup {"eci", "other"}
    /\ \A r \in Runs :
          /\ run[r].pc \in {"idle", "list", "decide", "await", "allocate", "create",
                            "wait", "finally", "release", "sweep", "done", "killed"}
          /\ run[r].groups \subseteq Groups /\ run[r].left \subseteq run[r].groups
          /\ run[r].todo \subseteq run[r].groups /\ Cardinality(run[r].id) <= 1

Init ==
    /\ enabled \in Layouts /\ trouble = 0 /\ excused = {}
    /\ cache = [c \in Caches |-> Never]
    /\ run = [r \in Runs |-> Idle] /\ eip = [r \in Runs |-> "none"]

Set(r, new)  == run' = [run EXCEPT ![r] = new]
Goes(r, pc)  == run' = [run EXCEPT ![r].pc = pc]
Trouble      == trouble < MaxTrouble /\ trouble' = trouble + 1
Excuse(r)    == excused' = excused \cup {r}
Kept         == UNCHANGED <<enabled, cache, eip, excused, trouble>>

-----------------------------------------------------------------------------
(* The cloud and the operator.                                              *)

Born(c, g, who) ==
    cache' = [cache EXCEPT ![c] = [images |-> g, status |-> "building", maker |-> who]]

\* A group started past every cache: the cloud builds one of its own.
CloudBuilds == \E g \in enabled :
    /\ ~\E c \in With("ready") : Covers(c, g)
    /\ \E c \in With("unborn") : Born(c, g, "eci")
    /\ UNCHANGED <<enabled, run, eip, excused, trouble>>

\* A build without a way out to the network does not succeed; without the
\* address it was given it does not even end.
CloudEnds == \E c \in With("building") : \E s \in {"ready", "failed"} :
    /\ cache[c].maker = "eci" => s = "failed"
    /\ cache[c].maker \in Runs => eip[cache[c].maker] = "held"
    /\ cache' = [cache EXCEPT ![c].status = s]
    /\ UNCHANGED <<enabled, run, eip, excused, trouble>>

\* A colleague's run of the script builds a cache, and may give it up.
OtherBuilds == \E g \in enabled, c \in With("unborn") :
    /\ Born(c, g, "other")
    /\ UNCHANGED <<enabled, run, eip, excused, trouble>>

OtherDrops == \E c \in With("building") :
    /\ cache[c].maker = "other"
    /\ cache' = [cache EXCEPT ![c].status = "gone"]
    /\ UNCHANGED <<enabled, run, eip, excused, trouble>>

Deploy ==
    /\ enabled' \in Layouts \ {enabled}
    /\ UNCHANGED <<cache, run, eip, excused, trouble>>

-----------------------------------------------------------------------------
(* The script: rebuild and prepare.                                         *)

Begin(r) ==
    /\ run[r].pc = "idle" /\ Kept
    /\ \/ Set(r, [Idle EXCEPT !.pc = "list", !.cmd = "rebuild", !.groups = enabled])
       \/ \E i \in Images :
             Set(r, [Idle EXCEPT !.pc = "list", !.cmd = "prepare", !.groups = {{i}}])

StaleToOne(groups) ==
    {c \in Listed : (\E g \in groups : cache[c].images \cap g = {}) \/ cache[c].status = "failed"}

\* No product knows an image of it, or it neither serves nor will.
Stale(groups) ==
    {c \in Listed : cache[c].images \cap UNION groups = {} \/ cache[c].status = "failed"}

\* One reading of the list; everything the run decides comes from it.
List(r) ==
    /\ run[r].pc = "list" /\ Kept
    /\ LET bare == {g \in run[r].groups : ~\E c \in With("ready") : Covers(c, g)}
       IN  Set(r, [run[r] EXCEPT
                !.pc = "decide", !.left = bare, !.building = With("building"),
                !.stale = IF run[r].cmd = "rebuild" THEN Stale(run[r].groups) ELSE {}])

\* rebuild decides for all groups first, prepare builds as it goes.
Missing(r, g) ==
    IF run[r].cmd = "rebuild"
    THEN [run[r] EXCEPT !.pc = "decide", !.left = @ \ {g}, !.todo = @ \cup {g}]
    ELSE [run[r] EXCEPT !.pc = "allocate", !.left = @ \ {g}, !.group = g]

Decide(r) ==
    /\ run[r].pc = "decide" /\ Kept
    /\ \E g \in run[r].left :
          LET seen == {c \in run[r].building : Covers(c, g)}
          IN  IF seen = {} THEN Set(r, Missing(r, g))
              ELSE \E c \in seen :
                      Set(r, [run[r] EXCEPT !.pc = "await", !.group = g, !.id = {c}])

Decided(r) ==
    /\ run[r].pc = "decide" /\ run[r].left = {} /\ Kept
    /\ IF run[r].todo # {}
       THEN \E g \in run[r].todo :
               Set(r, [run[r] EXCEPT !.pc = "allocate", !.group = g, !.todo = @ \ {g}])
       ELSE Goes(r, "sweep")

\* _drop: what is refused is only printed.
Drop(r, c) ==
    \/ /\ cache' = [cache EXCEPT ![c].status = "gone"]
       /\ UNCHANGED <<excused, trouble>>
    \/ cache[c].status # "gone" /\ Trouble /\ Excuse(r) /\ UNCHANGED cache

\* _await_ready: a build that is somebody else's.
AwaitGood(r) ==
    /\ run[r].pc = "await" /\ Kept
    /\ \E c \in run[r].id :
          \/ cache[c].status = "ready"
             /\ Set(r, [run[r] EXCEPT !.pc = "decide", !.left = @ \ {run[r].group}])
          \/ cache[c].status = "gone" /\ Set(r, Missing(r, run[r].group))

\* It failed, or 900 seconds went by since the first look: the last look may
\* be ten seconds old.
AwaitBad(r) ==
    /\ run[r].pc = "await" /\ UNCHANGED <<enabled, eip>>
    /\ \E c \in run[r].id :
          cache[c].status # "gone" /\ Drop(r, c) /\ Set(r, Missing(r, run[r].group))

\* _build_one.
Allocate(r) ==
    /\ run[r].pc = "allocate" /\ UNCHANGED <<enabled, cache>>
    /\ \/ /\ eip' = [eip EXCEPT ![r] = "held"] /\ UNCHANGED <<excused, trouble>>
          /\ Set(r, [run[r] EXCEPT !.pc = "create", !.id = {}, !.ready = FALSE])
       \/ /\ Trouble /\ Excuse(r) /\ Goes(r, "done")
          /\ \E e \in {"none", "leaked"} : eip' = [eip EXCEPT ![r] = e]

\* An answer that is lost leaves no identity to drop.
Create(r) ==
    /\ run[r].pc = "create" /\ UNCHANGED <<enabled, eip>>
    /\ \/ \E c \in With("unborn") : /\ Born(c, run[r].group, r) /\ UNCHANGED <<excused, trouble>>
                                    /\ Set(r, [run[r] EXCEPT !.pc = "wait", !.id = {c}])
       \/ /\ Trouble /\ Excuse(r) /\ Goes(r, "finally")
          /\ \/ UNCHANGED cache
             \/ \E c \in With("unborn") : Born(c, run[r].group, r)

\* Ready, failed, half an hour gone by, or Ctrl-C.
Wait(r) ==
    /\ run[r].pc = "wait" /\ Kept
    /\ \E c \in run[r].id :
          \/ cache[c].status = "ready"
             /\ Set(r, [run[r] EXCEPT !.pc = "finally", !.ready = TRUE])
          \/ cache[c].status # "ready" /\ Goes(r, "finally")

FinallyEipOnly(r) ==
    /\ run[r].pc = "finally" /\ Goes(r, "release") /\ Kept

Finally(r) ==
    /\ run[r].pc = "finally" /\ UNCHANGED <<enabled, eip>> /\ Goes(r, "release")
    /\ IF run[r].ready \/ run[r].id = {} THEN UNCHANGED <<cache, excused, trouble>>
       ELSE \E c \in run[r].id : Drop(r, c)

\* What comes after a release depends on whether the build raised.
After(r) ==
    IF ~run[r].ready THEN Goes(r, "done")
    ELSE IF run[r].cmd = "prepare" \/ run[r].todo # {} THEN Goes(r, "decide")
    ELSE Goes(r, "sweep")

Release(r) ==
    /\ run[r].pc = "release" /\ UNCHANGED <<enabled, cache>> /\ After(r)
    /\ \/ eip' = [eip EXCEPT ![r] = "none"] /\ UNCHANGED <<excused, trouble>>
       \/ eip' = [eip EXCEPT ![r] = "leaked"] /\ Trouble /\ Excuse(r)

\* The stale ones go last, when every group is covered.
Sweep(r) ==
    /\ run[r].pc = "sweep" /\ UNCHANGED <<enabled, eip>>
    /\ \/ \E c \in run[r].stale :
             Drop(r, c) /\ Set(r, [run[r] EXCEPT !.stale = @ \ {c}])
       \/ run[r].stale = {} /\ Goes(r, "done") /\ UNCHANGED <<cache, excused, trouble>>

\* Ctrl-C outside the try; a SIGTERM anywhere, past the finally.
Killed(r) ==
    /\ run[r].pc \notin {"idle", "done", "killed"} /\ Trouble /\ Goes(r, "killed")
    /\ UNCHANGED <<enabled, cache, eip, excused>>

Step(r) ==
    \/ Begin(r) \/ List(r) \/ Decide(r) \/ Decided(r) \/ AwaitGood(r) \/ AwaitBad(r)
    \/ Allocate(r) \/ Create(r) \/ Wait(r) \/ Finally(r) \/ Release(r) \/ Sweep(r)
    \/ Killed(r)

Next ==
    \/ CloudBuilds \/ CloudEnds \/ OtherBuilds \/ OtherDrops \/ Deploy
    \/ \E r \in Runs : Step(r)

Spec == Init /\ [][Next]_cacheVars

-----------------------------------------------------------------------------
(* What the script promises.                                                *)

\* A run that came to its end, good or bad, and that the cloud refused
\* nothing, leaves no address that goes on costing money and no cache that
\* stays "Creating" for ever because its address was taken away
\* (eci_image_cache.py:321-345, with a record of the day it was otherwise).
NothingLeftBehind ==
    \A r \in Runs \ excused : run[r].pc = "done" =>
        /\ eip[r] = "none"
        /\ ~\E c \in With("building") : cache[c].maker = r

SparesOthers ==
    \A r \in Runs, c \in Caches :
       run[r].pc = "sweep" /\ c \in run[r].stale \ run'[r].stale
       /\ cache[c].status = "ready" /\ cache'[c].status = "gone"
          => \A g \in run[r].groups : ~Covers(c, g)

\* The sweep of one product's caches spares every other's: a cache that goes
\* away in a sweep is not the one from which a product that was enabled when
\* the run began is started (eci_image_cache.py:226-233).
SparesTheOthers == [][SparesOthers]_cacheVars

\* A run that is killed cleans up too: "打断 (KeyboardInterrupt / 超时被杀) 也走
\* finally" (eci_image_cache.py:329).  SIGTERM does not, in this script.
KilledCleansUp ==
    \A r \in Runs : run[r].pc = "killed" => eip[r] = "none"

\* What is enabled and served stays served through a sweep.
ServedStays ==
    [][\A r \in Runs, g \in enabled :
          run[r].pc = "sweep" /\ (\E c \in With("ready") : Covers(c, g))
             => \E c \in Caches : Covers(c, g) /\ cache'[c].status = "ready"]_cacheVars
=============================================================================
