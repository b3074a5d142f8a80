---------------------------- MODULE MachineTime ----------------------------
(***************************************************************************)
(* What the minutes of a workspace are charged to (work_access.py, plans.py *)
(* and the minute pool of teams.py).  The reaper writes down a row for each *)
(* minute of each workspace that runs; the plan of the period covers so     *)
(* many, packs of minutes pay for the rest, and in an organisation there    *)
(* are a pool and a ceiling as well.  Nothing stops a minute that runs: the *)
(* gates ask whether any are left.                                          *)
(*                                                                         *)
(* Time is counted in spans, of which a plan and a calendar month have two. *)
(***************************************************************************)
EXTENDS FiniteSets, Sums

CONSTANTS
    Products,       \* of "light" and "heavy", a minute of which counts double
    Packs,          \* packs of minutes
    Included,       \* minutes of the paid plan; the free plan has Included - 1
    PackSize,
    Ceilings,       \* minute caps an owner may set
    MaxNow, MaxRows \* bounds on time and on the minutes that are metered

VARIABLES
    now,
    ends,       \* subscriptions.expires, 0 when there is none
    log,        \* usage_log: of each span, the minutes of each product
    pack,       \* minute_grants of the user: what is left, and until when
    pool,       \* minute_grants of the organisation, in minutes
    ceiling,    \* is the user in an organisation, and what is his minute cap?
    running     \* the products whose workspace runs

timeVars == <<now, ends, log, pack, pool, ceiling, running>>

Units(p)  == IF p = "heavy" THEN 2 ELSE 1
Period    == 2
NotYet    == [left |-> 0, until |-> -1]
Unlimited == -1
Alone     == -2

TypeOK ==
    /\ now \in 0..MaxNow /\ ends \in Nat
    /\ log \in [0..MaxNow -> [Products -> 0..MaxRows]]
    /\ pack \in [Packs -> [left : 0..PackSize, until : Int]]
    /\ pool \in 0..PackSize /\ ceiling \in Ceilings \union {Unlimited, Alone}
    /\ running \subseteq Products

Init ==
    /\ now = 0 /\ ends = 0
    /\ log = [t \in 0..MaxNow |-> [p \in Products |-> 0]]
    /\ pack = [g \in Packs |-> NotYet]
    /\ pool = 0 /\ ceiling = Alone /\ running = {}

-----------------------------------------------------------------------------
(* The allowance.                                                           *)

Paid == ends > now

\* A plan's window reaches back from its end, the free one from the month.
PeriodStart == IF Paid THEN ends - Period ELSE (now \div Period) * Period
IncludedMinutes == IF Paid THEN Included ELSE Included - 1

Rows(since, p) == Total([t \in 0..MaxNow |-> log[t][p]], {t \in 0..MaxNow : t >= since})
Used == Total([p \in Products |-> Units(p) * Rows(PeriodStart, p)], Products)

Live == {g \in Packs : pack[g].until > now /\ pack[g].left > 0}
Left(f) == [g \in Packs |-> f[g].left]
PacksLeft == Total(Left(pack), Live)
OwnLeft == Max({0, IncludedMinutes - Used}) + PacksLeft

\* The ceiling of a member counts minutes, of whatever weight, in the month.
MemberUsed == Total([p \in Products |-> Rows((now \div Period) * Period, p)], Products)

\* effective_caps: the cap of the member, or that of the organisation.
Capped == ceiling # Unlimited

\* minute_pool: what the organisation has comes on top.
PoolLeft == pool

Blocked ==
    IF ceiling = Alone THEN OwnLeft = 0
    ELSE \/ Capped /\ MemberUsed >= ceiling
         \/ OwnLeft + PoolLeft = 0

-----------------------------------------------------------------------------
(* What is bought and given.                                                *)

\* apply_plan: a renewal goes on from the end of the plan.
ApplyPlan ==
    /\ ends' = (IF Paid THEN ends ELSE now) + Period
    /\ ends <= now + Period
    /\ UNCHANGED <<now, log, pack, pool, ceiling, running>>

GrantMinutes(g, spans) ==
    /\ pack[g] = NotYet
    /\ pack' = [pack EXCEPT ![g] = [left |-> PackSize, until |-> now + spans]]
    /\ UNCHANGED <<now, ends, log, pool, ceiling, running>>

\* An organisation takes the user in, sets his ceiling, and buys minutes.
SetCap(c) ==
    /\ ceiling' = c
    /\ UNCHANGED <<now, ends, log, pack, pool, running>>

GrantMinutePool ==
    /\ ceiling # Alone /\ pool = 0
    /\ pool' = PackSize
    /\ UNCHANGED <<now, ends, log, pack, ceiling, running>>

-----------------------------------------------------------------------------
(* The meter.                                                               *)

\* Mutant of Drain: whichever pack comes to hand.
DrainAny(units) ==
    IF Live = {} THEN {pack}
    ELSE {[pack EXCEPT ![g].left = Max({0, @ - units})] : g \in Live}

\* Mutant of Drain: one pack pays all, be it more than it holds.
DrainBeyond(units) ==
    IF Live = {} THEN {pack} ELSE {[pack EXCEPT ![g].left = @ - units] : g \in Live}

\* The pack that expires first pays, and the next one what is left to pay:
\* what each gives is what the earlier ones could not.
Drain(units) ==
    {[g \in Packs |->
        IF g \notin Live THEN pack[g]
        ELSE LET earlier == {h \in Live : order[h] < order[g]}
                 owed == Max({0, units - Total(Left(pack), earlier)})
             IN  [pack[g] EXCEPT !.left = @ - Min({@, owed})]]
      : order \in {f \in [Live -> 1..Cardinality(Live)] :
            \A g, h \in Live : /\ g # h => f[g] # f[h]
                               /\ pack[g].until < pack[h].until => f[g] < f[h]}}

\* The reaper writes the minute down and then looks at what the plan includes.
Metered(p) == [log EXCEPT ![now][p] = @ + 1]

Meter(p) ==
    /\ p \in running
    /\ Total([q \in Products |-> Rows(0, q)], Products) < MaxRows
    /\ UNCHANGED <<now, ends, pool, ceiling, running>>
    /\ log' = Metered(p)
    /\ IF Used' <= IncludedMinutes THEN UNCHANGED pack ELSE pack' \in Drain(Units(p))

\* The gates let in whoever has minutes left; a workspace ends at any time.
Open(p) ==
    /\ ~Blocked /\ running' = running \union {p}
    /\ UNCHANGED <<now, ends, log, pack, pool, ceiling>>

Close(p) ==
    /\ running' = running \ {p}
    /\ UNCHANGED <<now, ends, log, pack, pool, ceiling>>

Tick ==
    /\ now < MaxNow /\ now' = now + 1
    /\ UNCHANGED <<ends, log, pack, pool, ceiling, running>>

Next ==
    \/ ApplyPlan \/ GrantMinutePool \/ Tick
    \/ \E g \in Packs, spans \in 1..Period : GrantMinutes(g, spans)
    \/ \E c \in Ceilings \union {Unlimited} : SetCap(c)
    \/ \E p \in Products : Meter(p) \/ Open(p) \/ Close(p)

Spec == Init /\ [][Next]_timeVars

-----------------------------------------------------------------------------
(* Correctness.                                                             *)

LeftIn(f) == Total(Left(f), Live)
Drawn == LeftIn(pack) - LeftIn(pack')

DrawsInOrder ==
    log' # log =>
     /\ Drawn = IF Used' <= IncludedMinutes THEN 0 ELSE Min({LeftIn(pack), Used' - Used})
     /\ \A g \in Packs \ Live : pack'[g] = pack[g]
     /\ \A g, h \in Live : /\ pack[g].until < pack[h].until
                           /\ pack'[h].left < pack[h].left
                           => pack'[g].left = 0

\* A minute that no plan covers is taken from the packs, whole if they hold so
\* much, the one that expires first to its end before the next is touched; a
\* minute the plan covers takes nothing, and none takes anything from a pack that
\* has expired (consume_minute).
DrainsInOrder == [][DrawsInOrder]_timeVars

\* work_access.py:41: the window of a plan follows its renewal: it has begun.
WindowHasBegun == PeriodStart <= now

\* work_access.py:19: what the seats contribute is drawn by whoever works.
PoolIsDrawn == [][log' # log /\ OwnLeft = 0 /\ pool > 0 => pool' < pool]_timeVars
=============================================================================
