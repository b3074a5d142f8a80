------------------------------ MODULE LiveRoom ------------------------------
(***************************************************************************)
(* The live rooms (live.py).  A node with a GPU plays the rooms; this       *)
(* server starts and stops them, and lets a model answer what the audience  *)
(* writes: the answer is composed, billed, and given to the node to speak.  *)
(* One step reaches from an await to the next.                              *)
(***************************************************************************)
EXTENDS Integers, FiniteSets

CONSTANTS
    Rooms,
    Lines,      \* the requests that make the model write or the host speak
    Kinds,      \* which of the kinds below occur
    MaxLive,    \* LIVE_MAX_CONCURRENT
    MaxQueue,   \* LIVE_REPLY_MAX_QUEUE
    MaxTrouble  \* bounds lost answers, failures of the database and restarts

\* comment: of a viewer.  chat, echo: the administrator's, answered or as it
\* stands.  script: generate, written and billed, never spoken.
AllKinds == {"comment", "chat", "echo", "script"}

VARIABLES
    onair,      \* the rooms that the node plays
    queue,      \* the sentences each room has still to speak
    good,       \* _LAST_GOOD: what a room last answered
    listed,     \* _LIVE_CACHE: the rooms last seen on air
    starting,   \* starts that have passed the count
    recent,     \* rooms in which _LAST_REPLY_AT is within the cooldown
    line,       \* where each request is
    said,       \* history: how often its text reached the node
    bills,      \* history: how often it was billed
    replied,    \* the column replied
    trouble

liveVars == <<onair, queue, good, listed, starting, recent, line, said, bills, replied, trouble>>

Unseen == [step |-> "none"]
Steps  == {"status", "compose", "hedged", "composed", "interject", "done"}

TypeOK ==
    /\ onair \subseteq Rooms /\ starting \subseteq Rooms /\ recent \subseteq Rooms
    /\ queue \in [Rooms -> 0..(MaxQueue + Cardinality(Lines))]
    /\ good \in [Rooms -> {"unknown", "off", "on", "full"}]
    /\ listed \in {<<>>} \union {<<seen>> : seen \in SUBSET Rooms}
    /\ line \in [Lines -> {Unseen} \union [step : Steps, kind : Kinds, room : Rooms]]
    /\ said \in [Lines -> Nat] /\ bills \in [Lines -> Nat] /\ replied \subseteq Lines
    /\ trouble \in 0..MaxTrouble

Init ==
    /\ onair = {} /\ starting = {} /\ recent = {}
    /\ queue = [r \in Rooms |-> 0]
    /\ good = [r \in Rooms |-> "unknown"] /\ listed = <<>>
    /\ line = [l \in Lines |-> Unseen]
    /\ said = [l \in Lines |-> 0] /\ bills = [l \in Lines |-> 0] /\ replied = {}
    /\ trouble = 0

Node    == <<onair, queue>>
Seen    == <<good, listed>>
Spoken  == <<said, bills, replied>>
Goto(l, step) == line' = [line EXCEPT ![l].step = step]
Trouble == trouble < MaxTrouble /\ trouble' = trouble + 1

-----------------------------------------------------------------------------
(* _room_status: a question that fails is answered with the last answer, for *)
(* a minute; without one the room counts as off the air.                    *)

Status(r) == IF r \notin onair THEN "off"
             ELSE IF queue[r] >= MaxQueue THEN "full" ELSE "on"

RoomStatus(r, st) ==
    \/ st = Status(r) /\ good' = [good EXCEPT ![r] = st] /\ UNCHANGED trouble
    \/ Trouble /\ UNCHANGED good
       /\ st = IF good[r] = "unknown" THEN "off" ELSE good[r]

\* What the caches hold grows too old: _LAST_GOOD_TTL, _LIVE_TTL.
Forget ==
    /\ \/ \E r \in Rooms : good' = [good EXCEPT ![r] = "unknown"] /\ UNCHANGED listed
       \/ listed' = <<>> /\ UNCHANGED good
    /\ UNCHANGED <<Node, starting, recent, line, Spoken, trouble>>

\* _all_status: every room is asked.
ListRooms ==
    /\ listed = <<>>
    /\ \E mute \in SUBSET Rooms :
        /\ IF mute = {} THEN UNCHANGED trouble ELSE Trouble
        /\ good' = [r \in Rooms |-> IF r \in mute THEN good[r] ELSE Status(r)]
        /\ listed' = <<{r \in Rooms : good'[r] \in {"on", "full"}}>>
    /\ UNCHANGED <<Node, starting, recent, line, Spoken>>

-----------------------------------------------------------------------------
(* act.                                                                     *)

\* The rooms on air are counted as they were last seen, before the start.
CountLive(r) ==
    /\ listed # <<>> /\ r \notin starting
    /\ Cardinality(listed[1] \ {r}) < MaxLive
    /\ starting' = starting \union {r}
    /\ UNCHANGED <<Node, Seen, recent, line, Spoken, trouble>>

Start(r) ==
    /\ r \in starting
    /\ starting' = starting \ {r}
    /\ onair' = onair \union {r} /\ queue' = [queue EXCEPT ![r] = 0]
    /\ UNCHANGED <<Seen, recent, line, Spoken, trouble>>

Stop(r) ==
    /\ r \in onair
    /\ onair' = onair \ {r} /\ queue' = [queue EXCEPT ![r] = 0]
    /\ UNCHANGED <<Seen, starting, recent, line, Spoken, trouble>>

-----------------------------------------------------------------------------
(* What the audience writes.                                                *)

\* A comment is stored whatever becomes of it; within the cooldown, or when
\* the room was not asked in time, the host stays silent.
Comment(l, r) ==
    /\ line[l] = Unseen /\ "comment" \in Kinds
    /\ line' = [line EXCEPT ![l] = [kind |-> "comment", room |-> r,
                    step |-> IF r \in recent THEN "done" ELSE "status"]]
    /\ UNCHANGED <<Node, Seen, starting, recent, Spoken, trouble>>

\* The place is taken after the room has been asked.
Placed(l) ==
    /\ line[l].step = "status"
    /\ \E st \in {"off", "on", "full"} :
        /\ RoomStatus(line[l].room, st)
        /\ IF st = "on" THEN /\ recent' = recent \union {line[l].room}
                             /\ Goto(l, "compose")
                        ELSE Goto(l, "done") /\ UNCHANGED recent
    /\ UNCHANGED <<Node, listed, starting, Spoken>>

\* say and generate: the administrator waits for nobody.
Direct(l, r, kind) ==
    /\ line[l] = Unseen /\ kind \in Kinds \ {"comment"}
    /\ line' = [line EXCEPT ![l] = [kind |-> kind, room |-> r,
                    step |-> IF kind = "echo" THEN "interject" ELSE "compose"]]
    /\ UNCHANGED <<Node, Seen, starting, recent, Spoken, trouble>>

-----------------------------------------------------------------------------
(* _compose_reply.  The upstream states its usage, and LIVE_BILL_EMAIL names *)
(* an account.                                                              *)

\* After LIVE_REPLY_HEDGE_S the same request is sent a second time.
Hedge(l) ==
    /\ line[l].step = "compose" /\ line[l].kind # "script"
    /\ Goto(l, "hedged")
    /\ UNCHANGED <<Node, Seen, starting, recent, Spoken, trouble>>

Pay(l) == bills' = [bills EXCEPT ![l] = @ + 1]

\* Mutant of Answered: each of the answers that came is billed.
AnsweredTwice(l) ==
    /\ line[l].step \in {"compose", "hedged"}
    /\ Goto(l, IF line[l].kind = "script" THEN "done" ELSE "interject")
    /\ bills' = [bills EXCEPT ![l] = @ + (IF line[l].step = "hedged" THEN 2 ELSE 1)]
    /\ UNCHANGED <<Node, Seen, starting, recent, said, replied, trouble>>

\* The first answer counts, the other request is cancelled.
Answered(l) ==
    /\ line[l].step \in {"compose", "hedged"}
    /\ Goto(l, IF line[l].kind = "script" THEN "done" ELSE "interject")
    /\ Pay(l)
    /\ UNCHANGED <<Node, Seen, starting, recent, said, replied, trouble>>

\* A comment that could not be answered gives its place back.
Yield(l) == recent' = IF line[l].kind = "comment" THEN recent \ {line[l].room} ELSE recent

\* No answer in the budget, an empty one, or the bill fails.
Unanswered(l) ==
    /\ line[l].step \in {"compose", "hedged"}
    /\ Goto(l, "done") /\ Yield(l)
    /\ UNCHANGED <<Node, Seen, starting, Spoken, trouble>>

-----------------------------------------------------------------------------
(* interject: a POST, which _gpu never sends again.                         *)

Speak(l) ==
    /\ said' = [said EXCEPT ![l] = @ + 1]
    /\ queue' = [queue EXCEPT ![line[l].room] =
                    IF line[l].room \in onair THEN @ + 1 ELSE @]

\* Mutant of Lost: a POST is tried again as a GET is.
LostAndRetried(l) ==
    /\ line[l].step = "interject" /\ Trouble
    /\ Speak(l)
    /\ UNCHANGED <<onair, Seen, starting, recent, line, bills, replied>>

\* The node cannot be reached, or its answer is lost.
Lost(l) ==
    /\ line[l].step = "interject" /\ Trouble
    /\ Speak(l) \/ UNCHANGED <<said, queue>>
    /\ Goto(l, "done") /\ Yield(l)
    /\ UNCHANGED <<onair, Seen, starting, bills, replied>>

Interject(l) ==
    /\ line[l].step = "interject"
    /\ Speak(l)
    /\ Goto(l, "done")
    /\ replied' = IF line[l].kind = "comment" THEN replied \union {l} ELSE replied
    /\ UNCHANGED <<onair, Seen, starting, recent, bills, trouble>>

-----------------------------------------------------------------------------
(* The rest of the world.                                                   *)

Utter(r) ==
    /\ queue[r] > 0 /\ queue' = [queue EXCEPT ![r] = @ - 1]
    /\ UNCHANGED <<onair, Seen, starting, recent, line, Spoken, trouble>>

CooledDown(r) ==
    /\ r \in recent /\ recent' = recent \ {r}
    /\ UNCHANGED <<Node, Seen, starting, line, Spoken, trouble>>

\* What the process knows is gone, the node plays on.
Restart ==
    /\ Trouble
    /\ good' = [r \in Rooms |-> "unknown"] /\ listed' = <<>>
    /\ starting' = {} /\ recent' = {}
    /\ line' = [l \in Lines |-> IF line[l] = Unseen THEN Unseen ELSE [line[l] EXCEPT !.step = "done"]]
    /\ UNCHANGED <<Node, Spoken>>

Next ==
    \/ Forget \/ ListRooms \/ Restart
    \/ \E r \in Rooms : CountLive(r) \/ Start(r) \/ Stop(r) \/ Utter(r) \/ CooledDown(r)
    \/ \E l \in Lines, r \in Rooms :
          Comment(l, r) \/ \E kind \in Kinds : Direct(l, r, kind)
    \/ \E l \in Lines : \/ Placed(l) \/ Hedge(l) \/ Answered(l) \/ Unanswered(l)
                        \/ Lost(l) \/ Interject(l)

Spec == Init /\ [][Next]_liveVars

-----------------------------------------------------------------------------
(* Correctness.                                                             *)

\* Whatever is lost, tried again or started anew: a text reaches the node at
\* most once and is billed at most once, what the model wrote and the host
\* spoke was billed, and a comment shown as answered was spoken
\* (_compose_reply, _maybe_reply, the comment in _gpu).
SpokenOnce ==
    \A l \in Lines :
        /\ said[l] <= 1 /\ bills[l] <= 1
        /\ said[l] = 1 /\ line[l].kind # "echo" => bills[l] = 1
        /\ l \in replied => said[l] = 1

\* live.py:1284: while an answer is composed no second one is let in.
OneAnswerAtATime ==
    \A l, k \in Lines :
        /\ line[l].step \in {"compose", "hedged"} /\ line[l].kind = "comment"
        /\ line[k].step \in {"compose", "hedged"} /\ line[k].kind = "comment"
        /\ line[l].room = line[k].room
        => l = k

\* live.py:505-508: never more rooms on air than the card can play.
WithinCapacity == Cardinality(onair) <= MaxLive
=============================================================================
