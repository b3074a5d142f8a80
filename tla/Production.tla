----------------------------- MODULE Production -----------------------------
(***************************************************************************)
(* How fast the node produces a live room (live.py): whatever asks the node *)
(* how the room is also takes a sample, and a production that falls behind  *)
(* real time, or catches up, is written down once.                          *)
(*                                                                         *)
(* A tick is half a minute, and the node produces at most one unit of video *)
(* in it; the two seconds for which captions are cached are less than that. *)
(***************************************************************************)
EXTENDS Integers, Sequences, SequencesExt

CONSTANTS
    Rooms,
    Window,     \* _RATE_WINDOW, in ticks
    MinSpan,    \* _RATE_MIN_SPAN
    Ttl,        \* _LAST_GOOD_TTL
    MaxNow,     \* bounds the time
    MaxTrouble  \* bounds lost answers and restarts

VARIABLES
    now,
    edge,     \* of each room on the node: the seconds of video made, 0 off air
    good,     \* _LAST_GOOD
    pts,      \* _RATES: samples of time and edge
    slow,     \* _RATES: is the room known to be slow?
    told,     \* live_incidents: the last report of the server on each room
    forgot,   \* history: slow was reset without a report
    lost,     \* history: a report was not stored
    behind,   \* history: the room has fallen behind since it went on air
    trouble

productionVars == <<now, edge, good, pts, slow, told, forgot, lost, behind, trouble>>

Nothing == [at |-> 0 - Ttl, edge |-> 0]
Reports == {"none", "slow", "recovered"}

TypeOK ==
    /\ now \in 0..MaxNow /\ edge \in [Rooms -> 0..(MaxNow + 1)]
    /\ good \in [Rooms -> [at : (0 - Ttl)..MaxNow, edge : 0..(MaxNow + 1)]]
    /\ pts \in [Rooms -> Seq((0..MaxNow) \X (1..(MaxNow + 1)))]
    /\ slow \in [Rooms -> BOOLEAN] /\ told \in [Rooms -> Reports]
    /\ behind \subseteq Rooms /\ forgot \subseteq Rooms /\ lost \subseteq Rooms
    /\ trouble \in 0..MaxTrouble

Init ==
    /\ now = 0 /\ edge = [r \in Rooms |-> 0] /\ good = [r \in Rooms |-> Nothing]
    /\ pts = [r \in Rooms |-> <<>>] /\ slow = [r \in Rooms |-> FALSE]
    /\ told = [r \in Rooms |-> "none"]
    /\ behind = {} /\ forgot = {} /\ lost = {} /\ trouble = 0

Trouble == trouble < MaxTrouble /\ trouble' = trouble + 1
Sampler == <<good, pts, slow, told, forgot, lost>>

-----------------------------------------------------------------------------
(* The node.                                                                *)

Tick ==
    /\ now < MaxNow /\ now' = now + 1
    /\ \E lazy \in SUBSET {r \in Rooms : edge[r] > 0} :
        /\ edge' = [r \in Rooms |-> IF edge[r] = 0 \/ r \in lazy THEN edge[r] ELSE edge[r] + 1]
        /\ behind' = behind \union lazy
    /\ UNCHANGED <<Sampler, trouble>>

\* A room goes on air, or changes the scene: its video begins from nothing.
Begin(r) ==
    /\ edge[r] # 1 /\ edge' = [edge EXCEPT ![r] = 1] /\ behind' = behind \ {r}
    /\ UNCHANGED <<now, Sampler, trouble>>

End(r) ==
    /\ edge[r] > 0 /\ edge' = [edge EXCEPT ![r] = 0] /\ behind' = behind \ {r}
    /\ UNCHANGED <<now, Sampler, trouble>>

-----------------------------------------------------------------------------
(* _sample_rate.                                                            *)

\* A video shorter than before is that of another scene.
OtherScene(r, e) == pts[r] # <<>> /\ e < Last(pts[r])[2]

Before(r, e) == IF OtherScene(r, e) THEN <<>> ELSE pts[r]

\* Samples that are alike count once: only the ends of the window matter.
Sampled(r, e) ==
    IF Before(r, e) # <<>> /\ Last(Before(r, e)) = <<now, e>>
    THEN Before(r, e) ELSE Append(Before(r, e), <<now, e>>)

\* From the front, until one is within the window.
Points(r, e) ==
    LET q == Sampled(r, e)
        first == CHOOSE i \in 1..Len(q) : /\ now - q[i][1] <= Window
                                          /\ \A j \in 1..(i - 1) : now - q[j][1] > Window
    IN  SubSeq(q, first, Len(q))

Span(q)   == Last(q)[1] - q[1][1]
Gain(q)   == Last(q)[2] - q[1][2]
Judged(q) == Len(q) >= 2 /\ Span(q) >= MinSpan
IsBad(q)  == 100 * Gain(q) < 95 * Span(q)     \* _RATE_BAD
IsOk(q)   == 100 * Gain(q) >= 99 * Span(q)    \* _RATE_OK

\* A report that cannot be stored is dropped.
Record(r, kind) ==
    \/ told' = [told EXCEPT ![r] = kind] /\ forgot' = forgot \ {r} /\ UNCHANGED lost
    \/ lost' = lost \union {r} /\ UNCHANGED <<told, forgot>>

Reported == <<told, forgot, lost>>

\* Only a change is reported.
Judge(r, q) ==
    CASE ~slow[r] /\ IsBad(q) -> Record(r, "slow") /\ slow' = [slow EXCEPT ![r] = TRUE]
      [] slow[r] /\ IsOk(q)   -> Record(r, "recovered") /\ slow' = [slow EXCEPT ![r] = FALSE]
      [] OTHER                -> UNCHANGED <<slow, Reported>>

\* With another scene the room is no longer known to be slow.
NewScene(r) ==
    /\ slow' = [slow EXCEPT ![r] = FALSE]
    /\ forgot' = IF slow[r] THEN forgot \union {r} ELSE forgot
    /\ UNCHANGED <<told, lost>>

\* A room off the air loses its samples.
Sample(r, e) ==
    /\ pts' = [pts EXCEPT ![r] = IF e = 0 THEN <<>> ELSE Points(r, e)]
    /\ IF e > 0 /\ OtherScene(r, e) THEN NewScene(r)
       ELSE IF e > 0 /\ Judged(Points(r, e)) THEN Judge(r, Points(r, e))
       ELSE UNCHANGED <<slow, Reported>>

-----------------------------------------------------------------------------
(* Who asks.                                                                *)

\* status and get_room.  Without an answer there is no sample.
Status(r) ==
    /\ Sample(r, edge[r])
    /\ UNCHANGED <<now, edge, good, behind, trouble>>

\* list_rooms: the answers are kept, no sample is taken.
ListRooms ==
    /\ good' = [r \in Rooms |-> [at |-> now, edge |-> edge[r]]]
    /\ UNCHANGED <<now, edge, pts, slow, Reported, behind, trouble>>

\* captions.  When the node does not answer, its last answer stands in for it
\* for a minute, and is sampled as if it were of this moment.
Captions(r) ==
    /\ \/ /\ good' = [good EXCEPT ![r] = [at |-> now, edge |-> edge[r]]]
          /\ Sample(r, edge[r]) /\ UNCHANGED trouble
       \/ /\ Trouble /\ now - good[r].at < Ttl
          /\ Sample(r, good[r].edge) /\ UNCHANGED good
    /\ UNCHANGED <<now, edge, behind>>

\* What the process knows is gone.
Restart ==
    /\ Trouble
    /\ good' = [r \in Rooms |-> Nothing] /\ pts' = [r \in Rooms |-> <<>>]
    /\ slow' = [r \in Rooms |-> FALSE]
    /\ forgot' = forgot \union {r \in Rooms : slow[r]}
    /\ UNCHANGED <<now, edge, told, behind, lost>>

Next ==
    \/ Tick \/ ListRooms \/ Restart
    \/ \E r \in Rooms : Begin(r) \/ End(r) \/ Status(r) \/ Captions(r)

Spec == Init /\ [][Next]_productionVars

-----------------------------------------------------------------------------
(* Correctness.                                                             *)

\* live.py:1039-1040: changes are written down, not samples.  The last report
\* of a room says how the sampler takes it to be, through windows that move on,
\* scenes and restarts, unless it forgot the room or a report was not stored.
ToldAsKnown ==
    \A r \in Rooms \ lost :
        /\ slow[r] => told[r] = "slow"
        /\ told[r] = "slow" /\ ~slow[r] => r \in forgot

\* What is judged is long enough, within the window, and of one broadcast as
\* far as its samples can tell (live.py:1017-1020).
WindowHolds ==
    \A r \in Rooms : \A i \in 2..Len(pts[r]) :
        /\ pts[r][i - 1][1] <= pts[r][i][1] /\ pts[r][i - 1][2] <= pts[r][i][2]
        /\ pts[r][i][1] - pts[r][1][1] <= Window

\* tests/test_live_incidents.py:60: a room that has kept up with real time
\* since it went on air is never reported as slow.
SlowIsTrue ==
    [][\A r \in Rooms : slow'[r] /\ ~slow[r] => r \in behind]_productionVars

\* tests/test_live_incidents.py:101, for a stop between the scenes: the first
\* report of a broadcast is not that it has recovered.
RecoversFromItsOwn ==
    [][\A r \in Rooms : slow[r] /\ ~slow'[r] /\ told'[r] = "recovered"
           => r \in behind]_productionVars
=============================================================================
