-------------------------- MODULE Workspace_proofs --------------------------
(***************************************************************************)
(* Proofs about Workspace, for any workspaces and products, any number of  *)
(* requests in flight and any limits of time, with instances that die, a   *)
(* server that restarts and money that runs out at any moment.             *)
(***************************************************************************)
EXTENDS Workspace, TLAPS

\* One request at a time is inside ensure_workspace of a key.
Ensuring(r, k) == request[r] # Idle /\ request[r].key = k /\ request[r].step \in InEnsure
OneAtATime ==
    \A k \in Keys : \A r, q \in Requests : Ensuring(r, k) /\ Ensuring(q, k) => r = q

\* ECI creates an instance where all that is there is what it failed to delete.
RoomToCreate ==
    \A r \in Requests, k \in Cloud :
        At(r, k, "list") \/ At(r, k, "create") => Total(boxes[k]) <= left[k]

\* docker gives each name to one container.
NamesAreUnique == \A k \in Keys \ Cloud : left[k] = 0

InstanceInv == TypeOK /\ OneAtATime /\ RoomToCreate /\ NamesAreUnique /\ OneInstance

\* The pass of the reaper has yet to look at k, or is looking at it.
Pending(k) ==
    \/ reaper.step = "list"
    \/ reaper.step \in {"sweep", "release", "forget"} /\ k \in reaper.todo \union {reaper.key}

\* There has been a sign of presence since the pass before looked at k; what
\* is not remembered will be taken for new.
Recent(a, k)     == a \in 0..(IF Pending(k) THEN 1 ELSE 0)
Remembered(a, k) == a = Absent \/ Recent(a, k)
Present(k) ==
    \/ Recent(userActive[k], k) \/ Recent(agentSeen, k)
    \/ Remembered(startedAt[k], k)
    \/ k \notin Reports /\ Remembered(lastSeen[k], k)

\* A question put to a running instance stands on that instance; either the
\* silence is as old as the question, or the sign that has broken it is recent
\* enough for the reaper to see.
Standing(k) == reclaimAsked[k] # Absent /\ warned[k] # Void
Silent(k) ==
    Standing(k) =>
        /\ boxes[k].running > 0 \/ (reaper.step = "forget" /\ reaper.key = k)
        /\ \/ warned[k] = reclaimAsked[k]
           \/ warned[k] = Absent /\ Present(k)
SilenceInv == \A k \in Keys : Silent(k)

WorkspaceInv == InstanceInv /\ SilenceInv

-----------------------------------------------------------------------------
\* The instances of a workspace, by state.
Boxes == [stopped : Nat, booting : Nat, running : Nat]

\* No instance counted is none there.
LEMMA BoxesFacts ==
    /\ Boxes = [DOMAIN Gone -> Nat]
    /\ Gone \in Boxes /\ Total(Gone) = 0
    /\ \A b \in Boxes : Total(b) \in Nat /\ (Total(b) = 0 <=> b = Gone)
<1>1. DOMAIN Gone = {"stopped", "booting", "running"}
  BY DEF Gone, Box
<1>2. Boxes = [{"stopped", "booting", "running"} -> Nat]
  BY DEF Boxes
<1>3. QED
  BY <1>1, <1>2 DEF Gone, Box, Total, Boxes

\* An instance that has booted is one instance still.
LEMMA BootedFacts ==
    ASSUME NEW old \in Boxes, old.booting > 0
    PROVE  LET b == Box(old.stopped, old.booting - 1, old.running + 1)
           IN  b \in Boxes /\ Total(b) = Total(old)
BY DEF Boxes, Box, Total

\* A deletion leaves at most what was there, and no more than MaxLeft.
LEMMA LeftFacts ==
    ASSUME InstanceInv, NEW k \in Keys, NEW b \in Left(k)
    PROVE  b \in Boxes /\ Total(b) <= Total(boxes[k]) /\ Total(b) \in 0..MaxLeft
<1>1. boxes[k] \in Boxes /\ MaxLeft \in Nat
  BY BoxesFacts, TimesAssumption DEF InstanceInv, TypeOK
<1>2. b \in Fewer(boxes[k]) /\ Total(b) <= MaxLeft
  BY DEF Left
<1>3. b \in Boxes /\ Total(b) <= Total(boxes[k])
  BY <1>1, <1>2 DEF Fewer, Boxes, Total
<1>4. QED
  BY <1>1, <1>2, <1>3, BoxesFacts

\* A stop, or a destruction, leaves at most what was there.
LEMMA ReleasedFacts ==
    ASSUME InstanceInv, NEW k \in Keys, NEW b \in Released(k) \union Destroyed(k)
    PROVE  b \in Boxes /\ Total(b) <= Total(boxes[k])
<1>1. boxes[k] \in Boxes
  BY BoxesFacts DEF InstanceInv, TypeOK
<1>2. CASE k \in Cloud
  BY <1>2, LeftFacts DEF Released, Destroyed
<1>3. CASE k \notin Cloud
  <2>1. b \in {Gone, Stopped(k), boxes[k]}
    BY <1>3 DEF Released, Destroyed
  <2>2. Stopped(k) \in Boxes /\ Total(Stopped(k)) <= Total(boxes[k])
    BY <1>1 DEF Stopped, Box, Boxes, Total
  <2>3. Total(Gone) <= Total(boxes[k])
    BY <1>1, BoxesFacts
  <2>4. Total(boxes[k]) <= Total(boxes[k])
    BY <1>1, BoxesFacts
  <2>5. QED
    BY <1>1, <2>1, <2>2, <2>3, <2>4, BoxesFacts
<1>4. QED
  BY <1>2, <1>3

\* What an inspection keeps is one instance, if there is any, and it is there.
LEMMA KeepersFacts ==
    ASSUME InstanceInv, NEW k \in Keys, NEW kept \in Keepers(k)
    PROVE  /\ kept \in Boxes /\ Total(kept) <= Total(boxes[k])
           /\ k \in Cloud => Total(kept) <= 1
           /\ k \notin Cloud => kept = boxes[k]
           /\ kept = Gone <=> boxes[k] = Gone
<1>1. boxes[k] \in Boxes
  BY BoxesFacts DEF InstanceInv, TypeOK
<1>2. CASE k \notin Cloud \/ boxes[k] = Gone
  <2>1. kept = boxes[k]
    BY <1>2 DEF Keepers
  <2>2. QED
    BY <1>1, <1>2, <2>1, BoxesFacts
<1>3. CASE k \in Cloud /\ boxes[k] # Gone
  <2>1. PICK s \in DOMAIN Gone : boxes[k][s] > 0 /\ kept = [Gone EXCEPT ![s] = 1]
    BY <1>3 DEF Keepers
  <2>2. DOMAIN Gone = {"stopped", "booting", "running"}
    BY DEF Gone, Box
  <2>3. kept \in Boxes /\ Total(kept) = 1
    BY <2>1, <2>2 DEF Gone, Box, Boxes, Total
  <2>4. Total(boxes[k]) >= 1 /\ kept # Gone
    BY <1>1, <1>3, <2>3, BoxesFacts
  <2>5. QED
    BY <1>3, <2>3, <2>4
<1>4. QED
  BY <1>2, <1>3

\* What an inspection leaves: the one it keeps, and those it failed to delete.
LEMMA InspectFacts ==
    ASSUME InstanceInv, NEW k \in Keys, NEW kept \in Keepers(k), NEW others \in Others(k, kept)
    PROVE  /\ [s \in DOMAIN Gone |-> kept[s] + others[s]] \in Boxes
           /\ Total([s \in DOMAIN Gone |-> kept[s] + others[s]]) <= 1 + Total(others)
           /\ Total(others) \in 0..MaxLeft
           /\ k \notin Cloud => Total(others) = 0
           /\ kept = Gone => Total([s \in DOMAIN Gone |-> kept[s] + others[s]]) <= Total(others)
           /\ kept.running + others.running = [s \in DOMAIN Gone |-> kept[s] + others[s]].running
<1> DEFINE sum == [s \in DOMAIN Gone |-> kept[s] + others[s]]
<1>1. /\ others \in Boxes /\ Total(others) \in 0..MaxLeft
      /\ \A s \in DOMAIN Gone : others[s] <= boxes[k][s] - kept[s]
  BY LeftFacts DEF Others
<1>2. /\ kept \in Boxes /\ (k \in Cloud => Total(kept) <= 1)
      /\ (k \notin Cloud => kept = boxes[k])
  BY KeepersFacts
<1>3. DOMAIN Gone = {"stopped", "booting", "running"}
  BY DEF Gone, Box
<1>4. sum \in Boxes /\ Total(sum) = Total(kept) + Total(others)
      /\ sum.running = kept.running + others.running
  <2>1. /\ sum.stopped = kept.stopped + others.stopped
        /\ sum.booting = kept.booting + others.booting
        /\ sum.running = kept.running + others.running
    BY <1>3
  <2>2. sum = [stopped |-> sum.stopped, booting |-> sum.booting, running |-> sum.running]
    BY <1>3
  <2> HIDE DEF sum
  <2>3. sum \in Boxes
    BY <1>1, <1>2, <2>1, <2>2 DEF Boxes
  <2>4. QED
    BY <1>1, <1>2, <2>1, <2>3 DEF Boxes, Total
<1>5. k \notin Cloud => Total(others) = 0
  <2> SUFFICES ASSUME k \notin Cloud
               PROVE  Total(others) = 0
    OBVIOUS
  <2>1. \A s \in DOMAIN Gone : others[s] <= kept[s] - kept[s]
    BY <1>1, <1>2
  <2>2. others.stopped <= 0 /\ others.booting <= 0 /\ others.running <= 0
    BY <1>2, <1>3, <2>1 DEF Boxes
  <2>3. QED
    BY <1>1, <2>2 DEF Boxes, Total
<1>6. Total(kept) <= 1
  <2>1. CASE k \in Cloud
    BY <1>2, <2>1
  <2>2. CASE k \notin Cloud
    BY <1>2, <2>2 DEF InstanceInv, OneInstance, NamesAreUnique
  <2>3. QED
    BY <2>1, <2>2
<1>7. Total(kept) \in Nat /\ Total(others) \in Nat /\ (kept = Gone => Total(kept) = 0)
  BY <1>1, <1>2, BoxesFacts
<1> HIDE DEF sum
<1>8. /\ Total(sum) <= 1 + Total(others)
      /\ kept = Gone => Total(sum) <= Total(others)
  BY <1>4, <1>6, <1>7
<1>9. QED
  BY <1>1, <1>4, <1>5, <1>8 DEF sum

\* The ages a signal runs through.
LEMMA AgesFacts ==
    /\ Old \in Nat /\ Old > 1 /\ Larger(Old, Window) \in Nat /\ Larger(Old, Window) >= Old
    /\ Larger(Old, Window) >= Window
    /\ 0 \in Ages /\ Absent \in Ages /\ Old \in Ages
    /\ \A a \in Ages : Older(a) \in Ages /\ (Older(a) = Absent <=> a = Absent)
    /\ Older(0) = 1 /\ Older(Void) = Void
<1>1. {Cap, Grace, IdleStop, AgentIdle, Window} \subseteq Nat \ {0}
  BY TimesAssumption
<1>2. Old \in Nat /\ Old > 1
  BY <1>1 DEF Old, Larger
<1>3. /\ Larger(Old, Window) \in Nat /\ Larger(Old, Window) >= Old
      /\ Larger(Old, Window) >= Window
  BY <1>1, <1>2 DEF Larger
<1>4. QED
  BY <1>2, <1>3 DEF Ages, Older, Absent, Void

\* A sign of presence keeps the dictionaries' types.
LEMMA SignTypes ==
    ASSUME NEW f \in [Keys -> Ages]
    PROVE  /\ Aged(f) \in [Keys -> Ages] /\ Forgotten \in [Keys -> Ages] /\ Inactive \in [Keys -> Ages]
           /\ \A k \in Keys : /\ Now(f, k) \in [Keys -> Ages]
                              /\ Drop(f, k) \in [Keys -> Ages]
                              /\ [f EXCEPT ![k] = Old] \in [Keys -> Ages]
                              /\ [f EXCEPT ![k] = Seeded(f, k)] \in [Keys -> Ages]
BY AgesFacts DEF Now, Drop, Aged, Forgotten, Inactive, Seeded

\* The history of the question is an age, or void.
LEMMA WarnedTypes ==
    ASSUME warned \in [Keys -> {Void} \union Ages]
    PROVE  /\ Aged(warned) \in [Keys -> {Void} \union Ages]
           /\ Forgotten \in [Keys -> {Void} \union Ages]
           /\ [h \in Keys |-> Broken(warned[h])] \in [Keys -> {Void} \union Ages]
           /\ \A k \in Keys :
                 /\ Drop(warned, k) \in [Keys -> {Void} \union Ages]
                 /\ Spoken(k) => warned' \in [Keys -> {Void} \union Ages]
                 /\ Outlived(k) => warned' \in [Keys -> {Void} \union Ages]
BY AgesFacts DEF Drop, Aged, Forgotten, Spoken, Outlived, Broken

\* Types of the dictionaries, and of the reaper.
MemoryType ==
    /\ lastSeen \in [Keys -> Ages] /\ userActive \in [Keys -> Ages]
    /\ startedAt \in [Keys -> Ages] /\ reclaimAsked \in [Keys -> Ages]
    /\ warned \in [Keys -> {Void} \union Ages]
    /\ starting \subseteq Keys
    /\ agentSeen \in Ages /\ broke \in BOOLEAN

Pass == [step : {"sweep", "release", "forget"}, todo : SUBSET Keys, key : Keys]
ReaperType == reaper \in {Asleep, [step |-> "list"]} \union Pass
RequestType ==
    request \in [Requests -> {Idle} \union [step : InEnsure \union {"forget"}, key : Keys]]

\* TypeOK, part by part.
LEMMA TypeParts ==
    TypeOK <=> /\ product \in [Keys -> Products] /\ boxes \in [Keys -> Boxes]
               /\ left \in [Keys -> 0..MaxLeft]
               /\ MemoryType /\ ReaperType /\ RequestType
BY BoxesFacts DEF TypeOK, MemoryType, ReaperType, RequestType, Pass

\* The same of the state after a step.
LEMMA TypePrimed ==
    ASSUME product' \in [Keys -> Products], boxes' \in [Keys -> Boxes],
           left' \in [Keys -> 0..MaxLeft], MemoryType', ReaperType', RequestType'
    PROVE  TypeOK'
BY BoxesFacts DEF TypeOK, MemoryType, ReaperType, RequestType, Pass

\* While the reaper is in a pass it has a workspace in hand, and goes on to another.
LEMMA PassFacts ==
    ASSUME ReaperType, reaper.step \in {"sweep", "release", "forget"}
    PROVE  /\ reaper \in Pass /\ reaper.todo \subseteq Keys /\ reaper.key \in Keys
           /\ GoOn => ReaperType'
<1>1. reaper \in Pass /\ reaper.todo \subseteq Keys /\ reaper.key \in Keys
  BY DEF ReaperType, Asleep, Pass
<1>2. GoOn => ReaperType'
  BY <1>1 DEF GoOn, ReaperType, Pass
<1>3. QED
  BY <1>1, <1>2

\* Steps that touch neither the instances nor the requests.
LEMMA CalmStep ==
    ASSUME InstanceInv, UNCHANGED <<product, backend, request>>, MemoryType', ReaperType'
    PROVE  InstanceInv'
<1>1. TypeOK'
  BY BoxesFacts DEF InstanceInv, TypeOK, MemoryType, ReaperType, Pass, backend
<1>2. QED
  BY <1>1 DEF InstanceInv, OneAtATime, RoomToCreate, NamesAreUnique, OneInstance, Ensuring, At,
              Cloud, backend

\* The instances change, and no request moves.
LEMMA BackendStep ==
    ASSUME InstanceInv, NEW k \in Keys, NEW b \in Boxes, NEW n \in 0..MaxLeft,
           Total(b) <= 1 + n, k \notin Cloud => n = 0,
           Total(boxes[k]) <= left[k] => Total(b) <= n,
           UNCHANGED <<product, request>>, MemoryType', ReaperType',
           boxes' = [boxes EXCEPT ![k] = b], left' = [left EXCEPT ![k] = n]
    PROVE  InstanceInv'
<1>1. RequestType'
  BY DEF InstanceInv, TypeOK, RequestType
<1>2. /\ boxes'[k] = b /\ \A h \in Keys : h # k => boxes'[h] = boxes[h]
      /\ left'[k] = n /\ \A h \in Keys : h # k => left'[h] = left[h]
      /\ boxes' \in [Keys -> Boxes] /\ left' \in [Keys -> 0..MaxLeft]
  BY BoxesFacts DEF InstanceInv, TypeOK
<1>3. TypeOK'
  <2>1. product' \in [Keys -> Products]
    BY DEF InstanceInv, TypeOK
  <2>2. QED
    BY <1>1, <1>2, <2>1, TypePrimed
<1>4. OneAtATime'
  BY DEF InstanceInv, OneAtATime, Ensuring
<1>5. RoomToCreate'
  BY <1>2 DEF InstanceInv, RoomToCreate, At, Cloud
<1>6. OneInstance' /\ NamesAreUnique'
  BY <1>2 DEF InstanceInv, OneInstance, NamesAreUnique, Cloud
<1>7. QED
  BY <1>3, <1>4, <1>5, <1>6 DEF InstanceInv

\* A stop or the reaper's release leaves fewer instances.
LEMMA BecomesFacts ==
    ASSUME InstanceInv, NEW k \in Keys, NEW b \in Released(k)
    PROVE  \E n \in 0..MaxLeft :
              /\ b \in Boxes /\ Total(b) <= 1 + n /\ (k \notin Cloud => n = 0)
              /\ Total(boxes[k]) <= left[k] => Total(b) <= n
              /\ Smaller(left[k], Total(b)) = n
<1> DEFINE n == Smaller(left[k], Total(b))
<1>1. b \in Boxes /\ Total(b) <= Total(boxes[k])
  BY ReleasedFacts
<1>2. boxes[k] \in Boxes /\ left[k] \in 0..MaxLeft /\ MaxLeft \in Nat
  BY BoxesFacts, TimesAssumption DEF InstanceInv, TypeOK
<1>3. Total(boxes[k]) \in Nat /\ Total(b) \in Nat /\ Total(boxes[k]) <= 1 + left[k]
  BY <1>1, <1>2, BoxesFacts DEF InstanceInv, OneInstance
<1>4. k \notin Cloud => left[k] = 0
  BY DEF InstanceInv, NamesAreUnique
<1> HIDE DEF Total
<1>5. /\ n \in 0..MaxLeft /\ Total(b) <= 1 + n /\ (k \notin Cloud => n = 0)
      /\ Total(boxes[k]) <= left[k] => Total(b) <= n
  BY <1>1, <1>2, <1>3, <1>4 DEF Smaller
<1> HIDE DEF n
<1>6. QED
  BY <1>1, <1>5 DEF n

\* A request on k moves, in its turn or without a lock, and changes no instance
\* of another workspace.
LEMMA RequestStep ==
    ASSUME InstanceInv, NEW r \in Requests, NEW k \in Keys,
           NEW new \in {Idle} \union [step : InEnsure \union {"forget"}, key : {k}],
           NEW b \in Boxes, NEW n \in 0..MaxLeft,
           Total(b) <= 1 + n, k \notin Cloud => n = 0,
           product' = product, MemoryType', ReaperType',
           boxes' = [boxes EXCEPT ![k] = b], left' = [left EXCEPT ![k] = n],
           request' = [request EXCEPT ![r] = new],
           new.step \in InEnsure => Ensuring(r, k) \/ ~Locked(k),
           Ensuring(r, k) \/ (Total(boxes[k]) <= left[k] => Total(b) <= n),
           k \in Cloud /\ new.step \in {"list", "create"} => Total(b) <= n
    PROVE  InstanceInv'
<1>1. /\ request \in [Requests -> {Idle} \union [step : InEnsure \union {"forget"}, key : Keys]]
      /\ new \in {Idle} \union [step : InEnsure \union {"forget"}, key : Keys]
  BY DEF InstanceInv, TypeOK
<1>2. /\ request'[r] = new /\ \A q \in Requests : q # r => request'[q] = request[q]
      /\ RequestType'
  BY <1>1 DEF RequestType
<1>3. /\ boxes'[k] = b /\ \A h \in Keys : h # k => boxes'[h] = boxes[h]
      /\ left'[k] = n /\ \A h \in Keys : h # k => left'[h] = left[h]
      /\ boxes' \in [Keys -> Boxes] /\ left' \in [Keys -> 0..MaxLeft]
  BY BoxesFacts DEF InstanceInv, TypeOK
<1>4. TypeOK'
  <2>1. product' \in [Keys -> Products]
    BY DEF InstanceInv, TypeOK
  <2>2. QED
    BY <1>2, <1>3, <2>1, TypePrimed
<1>5. \A h \in Keys : Ensuring(r, h)' => h = k /\ new.step \in InEnsure
  BY <1>2 DEF Ensuring, Idle
<1>6. Ensuring(r, k)' => \A q \in Requests : q # r => ~Ensuring(q, k)
  BY <1>5 DEF Locked, Ensuring, InstanceInv, OneAtATime
<1>7. OneAtATime'
  BY <1>2, <1>5, <1>6 DEF InstanceInv, OneAtATime, Ensuring
<1>8. RoomToCreate'
  <2> SUFFICES ASSUME NEW q \in Requests, NEW h \in Cloud, At(q, h, "list")' \/ At(q, h, "create")'
               PROVE  Total(boxes'[h]) <= left'[h]
    BY DEF RoomToCreate, Cloud
  <2>1. h \in Keys
    BY DEF Cloud
  <2>2. CASE q = r
    <3>1. h = k /\ new.step \in {"list", "create"}
      BY <1>2, <2>2 DEF At, Idle
    <3>2. QED
      BY <1>3, <3>1
  <2>3. CASE q # r
    <3>1. At(q, h, "list") \/ At(q, h, "create")
      BY <1>2, <2>3 DEF At
    <3>2. Ensuring(q, h) /\ Total(boxes[h]) <= left[h]
      BY <3>1 DEF At, Ensuring, InEnsure, Idle, InstanceInv, RoomToCreate
    <3>3. h = k => ~Ensuring(r, k)
      BY <2>3, <3>2 DEF InstanceInv, OneAtATime
    <3>4. QED
      BY <1>3, <2>1, <3>2, <3>3
  <2>4. QED
    BY <2>2, <2>3
<1>9. OneInstance' /\ NamesAreUnique'
  BY <1>3 DEF InstanceInv, OneInstance, NamesAreUnique, Cloud
<1>10. QED
  BY <1>4, <1>7, <1>8, <1>9 DEF InstanceInv

-----------------------------------------------------------------------------
\* What the invariant says of the types.
LEMMA InstanceTypes ==
    ASSUME InstanceInv
    PROVE  /\ product \in [Keys -> Products] /\ boxes \in [Keys -> Boxes]
           /\ left \in [Keys -> 0..MaxLeft] /\ MaxLeft \in Nat
           /\ MemoryType /\ ReaperType /\ RequestType
           /\ \A k \in Keys : Total(boxes[k]) <= 1 + left[k] /\ (k \notin Cloud => left[k] = 0)
BY TypeParts, TimesAssumption DEF InstanceInv, OneInstance, NamesAreUnique

\* Nothing runs yet.
LEMMA InstanceInvInit == Init => InstanceInv
<1> SUFFICES ASSUME Init
             PROVE  InstanceInv
  OBVIOUS
<1>1. MemoryType /\ ReaperType /\ RequestType
  BY AgesFacts DEF Init, MemoryType, ReaperType, RequestType, Forgotten, Inactive
<1>2. /\ product \in [Keys -> Products] /\ boxes = [k \in Keys |-> Gone]
      /\ left = [k \in Keys |-> 0] /\ 0 \in 0..MaxLeft
  BY TimesAssumption DEF Init
<1>3. TypeOK
  BY <1>1, <1>2, BoxesFacts, TypeParts
<1>4. OneAtATime /\ RoomToCreate /\ NamesAreUnique
  BY <1>2, BoxesFacts DEF Init, OneAtATime, RoomToCreate, NamesAreUnique, Ensuring, Cloud
<1>5. OneInstance
  BY <1>2, BoxesFacts DEF OneInstance
<1>6. QED
  BY <1>3, <1>4, <1>5 DEF InstanceInv

\* Signs of presence and the user's money.
LEMMA SignStep ==
    ASSUME InstanceInv,
           \/ \E k \in Keys : Keep(k) \/ Heartbeat(k) \/ Active(k) \/ FastRoute(k)
           \/ AgentCalls \/ Money
    PROVE  InstanceInv'
<1> USE InstanceTypes, SignTypes, WarnedTypes DEF MemoryType
<1>1. UNCHANGED <<product, backend, request, reaper>>
  BY DEF Keep, Heartbeat, Here, Active, FastRoute, AgentCalls, Money, world, backend
<1>2. ReaperType'
  BY <1>1 DEF ReaperType
<1>3. MemoryType'
  <2>1. ASSUME NEW k \in Keys, Here(k)
        PROVE  MemoryType'
    BY <2>1 DEF Here, world
  <2>2. ASSUME NEW k \in Keys, Active(k)
        PROVE  MemoryType'
    BY <2>2 DEF Active, world
  <2>3. ASSUME NEW k \in Keys, FastRoute(k)
        PROVE  MemoryType'
    BY <2>3 DEF FastRoute, world, dicts
  <2>4. CASE AgentCalls
    BY <2>4, AgesFacts DEF AgentCalls, dicts
  <2>5. CASE Money
    BY <2>5 DEF Money, memory, dicts
  <2>6. QED
    BY <2>1, <2>2, <2>3, <2>4, <2>5 DEF Keep, Heartbeat
<1>4. QED
  BY <1>1, <1>2, <1>3, CalmStep

\* The reaper's pass, but for the stop itself.
LEMMA PassStep ==
    ASSUME InstanceInv,
           \/ Wake \/ Survey \/ ReaperForget
           \/ \E k \in Keys : Spare(k) \/ Ask(k) \/ Wait(k) \/ Condemn(k)
    PROVE  InstanceInv'
<1> USE InstanceTypes, SignTypes, WarnedTypes
<1>1. CASE Wake
  <2>1. MemoryType'
    BY <1>1, AgesFacts DEF Wake, MemoryType
  <2>2. QED
    BY <1>1, <2>1, CalmStep DEF Wake, ReaperType
<1>2. CASE Survey
  <2>1. MemoryType'
    BY <1>2 DEF Survey, MemoryType, memory, dicts, world
  <2>2. ReaperType'
    BY <1>2 DEF Survey, ReaperType, Pass, Running
  <2>3. QED
    BY <1>2, <2>1, <2>2, CalmStep DEF Survey, world
<1>3. CASE ReaperForget
  <2>1. reaper.key \in Keys /\ ReaperType'
    BY <1>3, PassFacts DEF ReaperForget
  <2>2. MemoryType'
    BY <1>3, <2>1 DEF ReaperForget, MemoryType, world
  <2>3. QED
    BY <1>3, <2>1, <2>2, CalmStep DEF ReaperForget, world
<1>4. ASSUME NEW k \in Keys, Spare(k) \/ Ask(k) \/ Wait(k) \/ Condemn(k)
      PROVE  InstanceInv'
  <2>1. Judge(k) /\ reaper.step = "sweep" /\ reaper \in Pass
    BY <1>4, PassFacts DEF Spare, Ask, Wait, Condemn, Judge
  <2>2. ReaperType'
    <3>1. CASE GoOn
      BY <2>1, <3>1, PassFacts
    <3>2. CASE Condemn(k)
      BY <2>1, <3>2 DEF Condemn, ReaperType, Pass
    <3>3. QED
      BY <1>4, <3>1, <3>2 DEF Spare, Ask, Wait
  <2>3. reclaimAsked' \in [Keys -> Ages] /\ warned' \in [Keys -> {Void} \union Ages]
    <3>1. MemoryType
      OBVIOUS
    <3>2. CASE Spare(k)
      BY <3>1, <3>2 DEF Spare, MemoryType
    <3>3. CASE Ask(k)
      BY <3>1, <3>3, AgesFacts DEF Ask, MemoryType
    <3>4. CASE Wait(k) \/ Condemn(k)
      BY <3>1, <3>4 DEF Wait, Condemn, MemoryType
    <3>5. QED
      BY <1>4, <3>2, <3>3, <3>4
  <2>4. MemoryType'
    BY <2>1, <2>3 DEF Judge, MemoryType, world
  <2>5. QED
    BY <2>1, <2>2, <2>4, CalmStep DEF Judge, world
<1>5. QED
  BY <1>1, <1>2, <1>3, <1>4

\* The backend on its own, and the reaper's stop.
LEMMA ReleaseStep ==
    ASSUME InstanceInv, ReaperRelease \/ \E k \in Keys : Boot(k) \/ Die(k)
    PROVE  InstanceInv'
<1> USE InstanceTypes, WarnedTypes
<1>1. CASE ReaperRelease
  <2>1. reaper \in Pass /\ reaper.key \in Keys
    BY <1>1, PassFacts DEF ReaperRelease
  <2>2. ReaperType' /\ MemoryType' /\ UNCHANGED <<product, request>>
    BY <1>1, <2>1 DEF ReaperRelease, ReaperType, Pass, MemoryType, memory, dicts, world
  <2> DEFINE k == reaper.key
  <2>3. PICK b \in Released(k) : Becomes(k, b)
    BY <1>1 DEF ReaperRelease
  <2>4. PICK n \in 0..MaxLeft :
              /\ b \in Boxes /\ Total(b) <= 1 + n /\ (k \notin Cloud => n = 0)
              /\ Total(boxes[k]) <= left[k] => Total(b) <= n
              /\ Smaller(left[k], Total(b)) = n
    BY <2>1, BecomesFacts
  <2>5. boxes' = [boxes EXCEPT ![k] = b] /\ left' = [left EXCEPT ![k] = n]
    BY <2>3, <2>4 DEF Becomes
  <2> HIDE DEF k
  <2>6. k \in Keys
    BY <2>1 DEF k
  <2>7. QED
    BY <2>2, <2>4, <2>5, <2>6, BackendStep
<1>2. ASSUME NEW k \in Keys, Die(k)
      PROVE  InstanceInv'
  <2> DEFINE old == boxes[k]
             b == IF k \in Cloud THEN Box(old.stopped, old.booting, old.running - 1)
                  ELSE Stopped(k)
             n == left[k]
  <2>1. ReaperType' /\ MemoryType' /\ UNCHANGED <<product, request>>
    BY <1>2 DEF Die, ReaperType, MemoryType, dicts, world
  <2>2. /\ old \in Boxes /\ old.running > 0 /\ boxes' = [boxes EXCEPT ![k] = b]
        /\ n \in 0..MaxLeft /\ left' = [left EXCEPT ![k] = n]
        /\ Total(old) <= 1 + n /\ (k \notin Cloud => n = 0)
    <3>1. /\ old.running > 0 /\ boxes' = [boxes EXCEPT ![k] = b] /\ left' = left
      BY <1>2 DEF Die
    <3> HIDE DEF b
    <3>2. left \in [Keys -> 0..MaxLeft] /\ left' = [left EXCEPT ![k] = n]
      BY <3>1
    <3>3. QED
      BY <3>1, <3>2
  <2>3. b \in Boxes /\ Total(b) <= Total(old)
    <3>1. CASE k \in Cloud
      BY <2>2, <3>1 DEF Box, Boxes, Total
    <3>2. CASE k \notin Cloud
      BY <2>2, <3>2 DEF Stopped, Box, Boxes, Total
    <3>3. QED
      BY <3>1, <3>2
  <2>4. Total(b) \in Nat /\ Total(old) \in Nat
    BY <2>2, <2>3, BoxesFacts
  <2> HIDE DEF b, n
  <2>5. Total(b) <= 1 + n /\ (Total(old) <= n => Total(b) <= n)
    BY <2>2, <2>3, <2>4
  <2>6. QED
    BY <2>1, <2>2, <2>3, <2>5, BackendStep DEF n
<1>3. ASSUME NEW k \in Keys, Boot(k)
      PROVE  InstanceInv'
  <2> DEFINE old == boxes[k]
             b == Box(old.stopped, old.booting - 1, old.running + 1)
             n == left[k]
  <2>1. ReaperType' /\ MemoryType' /\ UNCHANGED <<product, request>>
    BY <1>3 DEF Boot, ReaperType, MemoryType, memory, dicts, world
  <2>2. /\ old \in Boxes /\ old.booting > 0 /\ boxes' = [boxes EXCEPT ![k] = b]
        /\ n \in 0..MaxLeft /\ left' = [left EXCEPT ![k] = n]
        /\ Total(old) <= 1 + n /\ (k \notin Cloud => n = 0)
    BY <1>3 DEF Boot
  <2>3. b \in Boxes /\ Total(b) = Total(old)
    BY <2>2, BootedFacts
  <2> HIDE DEF b, n
  <2>4. QED
    BY <2>1, <2>2, <2>3, BackendStep DEF n
<1>4. QED
  BY <1>1, <1>2, <1>3

\* A request that begins: under the lock, or as work_stop without it.
LEMMA BeginStep ==
    ASSUME InstanceInv, NEW r \in Requests, NEW k \in Keys, Open(r, k) \/ Stop(r, k)
    PROVE  InstanceInv'
<1> USE InstanceTypes, WarnedTypes
<1>1. CASE Open(r, k)
  <2> DEFINE new == [step |-> "inspect", key |-> k]
  <2>1. /\ request' = [request EXCEPT ![r] = new] /\ ~Locked(k)
        /\ boxes' = [boxes EXCEPT ![k] = boxes[k]] /\ left' = [left EXCEPT ![k] = left[k]]
        /\ product' = product /\ MemoryType' /\ ReaperType'
    BY <1>1 DEF Open, Goto, memory, dicts, world, backend, MemoryType, ReaperType
  <2>2. /\ new \in [step : InEnsure \union {"forget"}, key : {k}]
        /\ new.step \notin {"list", "create"}
        /\ boxes[k] \in Boxes
    BY DEF InEnsure
  <2> HIDE DEF new
  <2>3. QED
    BY <2>1, <2>2, RequestStep
<1>2. CASE Stop(r, k)
  <2> DEFINE new == [step |-> "forget", key |-> k]
  <2>1. /\ request' = [request EXCEPT ![r] = new] /\ request[r] = Idle
        /\ product' = product /\ MemoryType' /\ ReaperType'
    BY <1>2 DEF Stop, Goto, dicts, world, MemoryType, ReaperType
  <2>2. PICK b \in Released(k) : Becomes(k, b)
    BY <1>2 DEF Stop
  <2>3. /\ new \in [step : InEnsure \union {"forget"}, key : {k}]
        /\ new.step \notin InEnsure /\ new.step \notin {"list", "create"}
    BY DEF InEnsure
  <2>4. PICK n \in 0..MaxLeft :
              /\ b \in Boxes /\ Total(b) <= 1 + n /\ (k \notin Cloud => n = 0)
              /\ Total(boxes[k]) <= left[k] => Total(b) <= n
              /\ Smaller(left[k], Total(b)) = n
    BY BecomesFacts
  <2>5. boxes' = [boxes EXCEPT ![k] = b] /\ left' = [left EXCEPT ![k] = n]
    BY <2>2, <2>4 DEF Becomes
  <2> HIDE DEF new
  <2>6. QED
    BY <2>1, <2>3, <2>4, <2>5, RequestStep
<1>3. QED
  BY <1>1, <1>2

\* A request moves on inside ensure_workspace.
LEMMA ServeStep ==
    ASSUME InstanceInv, NEW r \in Requests, NEW k \in Keys, Serve(r, k)
    PROVE  InstanceInv'
<1> USE InstanceTypes, WarnedTypes
<1> DEFINE old == boxes[k]
<1>1. PICK step \in InEnsure \union {"forget"} : At(r, k, step)
  BY DEF Serve, Inspect, Destroy, List, Create, StartBox, Note, Probe, Forget, InEnsure, At
<1>2. request[r].step = step /\ request[r].key = k /\ request[r] # Idle
  BY <1>1 DEF At, Idle, InEnsure
<1> DEFINE now == left[k]
<1>3. /\ old \in Boxes /\ Total(old) <= 1 + now /\ Total(old) \in Nat
      /\ now \in 0..MaxLeft /\ (k \notin Cloud => now = 0)
  BY BoxesFacts
<1>4. product' = product /\ ReaperType'
  BY DEF Serve, Inspect, Destroy, List, Create, StartBox, Note, Probe, Forget, world, ReaperType
<1>5. MemoryType'
  <2>1. CASE List(r, k) \/ Create(r, k) \/ StartBox(r, k)
    BY <2>1 DEF List, Create, StartBox, memory, dicts, world, MemoryType
  <2>2. CASE Inspect(r, k) \/ Destroy(r, k)
    BY <2>2 DEF Inspect, Destroy, dicts, world, MemoryType
  <2>3. CASE Note(r, k)
    BY <2>3, SignTypes DEF Note, world, MemoryType
  <2>4. CASE Probe(r, k)
    <3>1. lastSeen' \in [Keys -> Ages] /\ starting' \subseteq Keys
      <4>1. lastSeen \in [Keys -> Ages] /\ Now(lastSeen, k) \in [Keys -> Ages]
        BY SignTypes DEF MemoryType
      <4>2. starting \subseteq Keys
        BY DEF MemoryType
      <4>3. lastSeen' \in {lastSeen, Now(lastSeen, k)}
        BY <2>4 DEF Probe
      <4>4. starting' \in {starting \ {k}, starting \union {k}}
        BY <2>4 DEF Probe
      <4>5. QED
        BY <4>1, <4>2, <4>3, <4>4
    <3>2. UNCHANGED warned \/ Spoken(k)
      BY <2>4 DEF Probe
    <3>3. warned' \in [Keys -> {Void} \union Ages]
      BY <3>2 DEF MemoryType
    <3>4. UNCHANGED <<userActive, startedAt, reclaimAsked, agentSeen, broke>>
      BY <2>4 DEF Probe, world
    <3>5. QED
      BY <3>1, <3>3, <3>4 DEF MemoryType
  <2>5. CASE Forget(r, k)
    BY <2>5, SignTypes DEF Forget, world, MemoryType
  <2>6. QED
    BY <2>1, <2>2, <2>3, <2>4, <2>5 DEF Serve
<1> DEFINE Moves(new) == request' = [request EXCEPT ![r] = new]
           To(s) == [step |-> s, key |-> k]
<1>6. \A s \in InEnsure : To(s) \in [step : InEnsure \union {"forget"}, key : {k}] /\ To(s).step = s
  OBVIOUS
<1>7. boxes = [boxes EXCEPT ![k] = old] /\ left = [left EXCEPT ![k] = now]
  OBVIOUS
<1>8. ASSUME NEW new \in {Idle} \union {To(s) : s \in InEnsure}, Moves(new),
             NEW b \in Boxes, NEW n \in 0..MaxLeft, Total(b) <= 1 + n, k \notin Cloud => n = 0,
             boxes' = [boxes EXCEPT ![k] = b], left' = [left EXCEPT ![k] = n],
             Ensuring(r, k) \/ (new = Idle /\ (Total(old) <= now => Total(b) <= n)),
             k \in Cloud /\ new \in {To("list"), To("create")} => Total(b) <= n
      PROVE  InstanceInv'
  <2>1. new \in {Idle} \union [step : InEnsure \union {"forget"}, key : {k}]
    BY <1>6, <1>8
  <2>2. new.step \in InEnsure => new # Idle
    BY DEF Idle, InEnsure
  <2>3. new.step \in {"list", "create"} => new \in {To("list"), To("create")}
    BY <1>6, <1>8 DEF Idle
  <2> HIDE DEF To
  <2>4. QED
    BY <1>4, <1>5, <1>8, <2>1, <2>2, <2>3, RequestStep
<1>9. step \in InEnsure => Ensuring(r, k)
  BY <1>2 DEF Ensuring
<1>10. CASE Inspect(r, k)
  <2>0. PICK kept \in Keepers(k) : \E others \in Others(k, kept) :
          /\ boxes' = [boxes EXCEPT ![k] = [s \in DOMAIN Gone |-> kept[s] + others[s]]]
          /\ left' = [left EXCEPT ![k] = Total(others)]
          /\ \E s \in IF kept = Gone THEN {"list"}
                      ELSE {"destroy", IF kept.running > 0 THEN "probe" ELSE "relist"} :
                Moves(To(s))
    BY <1>10 DEF Inspect, Goto
  <2>1. PICK others \in Others(k, kept) :
          /\ boxes' = [boxes EXCEPT ![k] = [s \in DOMAIN Gone |-> kept[s] + others[s]]]
          /\ left' = [left EXCEPT ![k] = Total(others)]
          /\ \E s \in IF kept = Gone THEN {"list"}
                      ELSE {"destroy", IF kept.running > 0 THEN "probe" ELSE "relist"} :
                Moves(To(s))
    BY <2>0
  <2> DEFINE b == [t \in DOMAIN Gone |-> kept[t] + others[t]]
             n == Total(others)
  <2>2. /\ b \in Boxes /\ Total(b) <= 1 + n /\ n \in 0..MaxLeft
        /\ (k \notin Cloud => n = 0) /\ (kept = Gone => Total(b) <= n)
    BY InspectFacts
  <2> HIDE DEF b, n
  <2>3. PICK s \in {"list", "destroy", "probe", "relist"} : Moves(To(s)) /\ (s = "list" => kept = Gone)
    <3>1. CASE kept = Gone
      BY <2>1, <3>1
    <3>2. CASE kept # Gone
      <4>1. \E s \in {"destroy", IF kept.running > 0 THEN "probe" ELSE "relist"} : Moves(To(s))
        BY <2>1, <3>2
      <4>2. \E s \in {"destroy", "probe", "relist"} : Moves(To(s))
        BY <4>1
      <4>3. QED
        BY <4>2
    <3>3. QED
      BY <3>1, <3>2
  <2>4. step = "inspect" /\ To(s) \in {To(t) : t \in InEnsure} /\ To(s) # To("create")
    BY <1>2, <1>10 DEF Inspect, At, InEnsure
  <2>5. To(s) = To("list") => s = "list"
    OBVIOUS
  <2>6. boxes' = [boxes EXCEPT ![k] = b] /\ left' = [left EXCEPT ![k] = n]
    BY <2>1 DEF b, n
  <2> HIDE DEF To
  <2>7. QED
    BY <1>8, <1>9, <2>2, <2>3, <2>4, <2>5, <2>6 DEF InEnsure
<1>11. CASE Destroy(r, k)
  <2> DEFINE Leaves(b) == IF k \in Cloud THEN Total(b) ELSE 0
  <2>1. PICK b \in Destroyed(k) :
          boxes' = [boxes EXCEPT ![k] = b] /\ left' = [left EXCEPT ![k] = Leaves(b)]
    BY <1>11 DEF Destroy
  <2> DEFINE n == Leaves(b)
  <2>2. Moves(To("list")) /\ step = "destroy" /\ To("list") \in {To(t) : t \in InEnsure}
    BY <1>2, <1>11 DEF Destroy, Goto, At, InEnsure
  <2>3. b \in Boxes /\ Total(b) <= Total(old) /\ Total(b) \in Nat
    BY ReleasedFacts, BoxesFacts
  <2>4. /\ n \in 0..MaxLeft /\ Total(b) <= 1 + n /\ (k \notin Cloud => n = 0)
        /\ k \in Cloud => Total(b) <= n
    <3>1. CASE k \in Cloud
      <4>1. Total(b) \in 0..MaxLeft /\ n = Total(b)
        BY <3>1, LeftFacts DEF Destroyed
      <4>2. QED
        BY <2>3, <3>1, <4>1
    <3>2. CASE k \notin Cloud
      <4>1. n = 0
        BY <3>2
      <4>2. Total(old) <= 1 + now /\ now = 0
        BY <1>3, <3>2
      <4>3. QED
        BY <1>3, <2>3, <3>2, <4>1, <4>2
    <3>3. QED
      BY <3>1, <3>2
  <2> HIDE DEF To, n
  <2>5. left' = [left EXCEPT ![k] = n]
    BY <2>1 DEF n
  <2>6. QED
    BY <1>8, <1>9, <2>1, <2>2, <2>3, <2>4, <2>5 DEF InEnsure
<1>12. CASE List(r, k)
  <2>1. /\ boxes' = [boxes EXCEPT ![k] = old] /\ left' = [left EXCEPT ![k] = now]
        /\ step \in {"list", "relist"} /\ step \in InEnsure
    BY <1>2, <1>7, <1>12 DEF List, At, InEnsure, backend
  <2>2. PICK new \in {Idle, To("create"), To("note"), To("start")} :
          Moves(new) /\ (new = To("create") => step = "list")
    BY <1>2, <1>12 DEF List, Goto, Done, Begun, Idle
  <2>3. k \in Cloud /\ step = "list" => Total(old) <= now
    BY <1>1 DEF InstanceInv, RoomToCreate
  <2>4. /\ new \in {Idle} \union {To(s) : s \in InEnsure}
        /\ new # To("list")
    BY <2>2 DEF InEnsure, Idle
  <2> HIDE DEF To
  <2>5. QED
    BY <1>3, <1>8, <1>9, <2>1, <2>2, <2>3, <2>4
<1>13. CASE Create(r, k)
  <2>1. step = "create" /\ step \in InEnsure
    BY <1>2, <1>13 DEF Create, At, InEnsure
  <2>2. k \in Cloud => Total(old) <= now
    BY <1>1, <2>1 DEF InstanceInv, RoomToCreate
  <2> DEFINE b == IF k \in Cloud THEN Box(old.stopped, old.booting + 1, old.running)
                  ELSE IF old = Gone THEN Box(1, 0, 0) ELSE old
  <2>3. boxes' = [boxes EXCEPT ![k] = b] /\ left' = [left EXCEPT ![k] = now]
    BY <1>7, <1>13 DEF Create
  <2>4. b \in Boxes /\ Total(b) <= 1 + now
    <3>1. CASE k \in Cloud
      BY <1>3, <2>2, <3>1 DEF Box, Boxes, Total
    <3>2. CASE k \notin Cloud
      BY <1>3, <3>2 DEF Box, Gone, Boxes, Total
    <3>3. QED
      BY <3>1, <3>2
  <2>5. PICK s \in {"note", "start"} : Moves(To(s))
    BY <1>13 DEF Create, Goto, Begun
  <2>6. To(s) \in {To(t) : t \in InEnsure} /\ To(s) \notin {To("list"), To("create")}
    BY DEF InEnsure
  <2> HIDE DEF To, b
  <2>7. QED
    BY <1>3, <1>8, <1>9, <2>1, <2>3, <2>4, <2>5, <2>6
<1>14. CASE StartBox(r, k)
  <2> DEFINE b == Box(0, old.booting, old.running + old.stopped)
  <2>1. step = "start" /\ step \in InEnsure
    BY <1>2, <1>14 DEF StartBox, At, InEnsure
  <2>2. /\ boxes' = [boxes EXCEPT ![k] = b] /\ left' = [left EXCEPT ![k] = now]
        /\ b \in Boxes /\ Total(b) <= 1 + now
    BY <1>3, <1>7, <1>14 DEF StartBox, Box, Boxes, Total
  <2>3. PICK new \in {Idle, To("note")} : Moves(new)
    BY <1>14 DEF StartBox, Goto, Done
  <2>4. new \in {Idle} \union {To(t) : t \in InEnsure} /\ new \notin {To("list"), To("create")}
    BY <2>3 DEF InEnsure, Idle
  <2> HIDE DEF To, b
  <2>5. QED
    BY <1>3, <1>8, <1>9, <2>1, <2>2, <2>3, <2>4
<1>15. CASE Note(r, k) \/ Probe(r, k) \/ Forget(r, k)
  <2>1. boxes' = [boxes EXCEPT ![k] = old] /\ left' = [left EXCEPT ![k] = now] /\ Moves(Idle)
    BY <1>7, <1>15 DEF Note, Probe, Forget, Done, backend
  <2>2. Idle \notin {To("list"), To("create")} /\ Idle \in {Idle} \union {To(t) : t \in InEnsure}
    BY DEF Idle
  <2> HIDE DEF To
  <2>3. QED
    BY <1>3, <1>8, <2>1, <2>2
<1>16. QED
  BY <1>10, <1>11, <1>12, <1>13, <1>14, <1>15 DEF Serve

\* The server restarts: no request and no memory is left, every instance is.
LEMMA RestartStep ==
    ASSUME InstanceInv, Restart
    PROVE  InstanceInv'
<1>1. /\ request' = [r \in Requests |-> Idle] /\ UNCHANGED <<product, boxes, left>>
      /\ MemoryType' /\ ReaperType' /\ RequestType'
  BY InstanceTypes, AgesFacts DEF Restart, MemoryType, ReaperType, RequestType, Forgotten, Inactive, backend
<1>2. TypeOK'
  BY <1>1, InstanceTypes, TypePrimed
<1>3. OneAtATime' /\ RoomToCreate' /\ NamesAreUnique' /\ OneInstance'
  BY <1>1 DEF InstanceInv, OneAtATime, RoomToCreate, NamesAreUnique, OneInstance, Ensuring, At,
              Cloud, Idle
<1>4. QED
  BY <1>2, <1>3 DEF InstanceInv

\* Every step keeps it.
LEMMA InstanceInvStep == InstanceInv /\ [Next]_vars => InstanceInv'
<1> SUFFICES ASSUME InstanceInv, [Next]_vars
             PROVE  InstanceInv'
  OBVIOUS
<1>1. CASE UNCHANGED vars
  <2>1. MemoryType' /\ ReaperType'
    BY <1>1, InstanceTypes DEF vars, MemoryType, ReaperType
  <2>2. QED
    BY <1>1, <2>1, CalmStep DEF vars, backend
<1>2. CASE Next
  BY <1>2, SignStep, PassStep, ReleaseStep, BeginStep, ServeStep, RestartStep DEF Next, Reaper
<1>3. QED
  BY <1>1, <1>2

\* The invariant of the instances holds always.
LEMMA InstanceInvAlways == Spec => []InstanceInv
BY InstanceInvInit, InstanceInvStep, PTL DEF Spec

\* Every reachable state is well-typed: instances, dictionaries, requests and
\* the reaper's place in its pass (workspace.py).
THEOREM TypeCorrect == Spec => []TypeOK
<1>1. InstanceInv => TypeOK
  BY DEF InstanceInv
<1>2. QED
  BY <1>1, InstanceInvAlways, PTL

\* However many requests open a workspace at once, and whatever stops, dies,
\* boots or restarts in between, it has one instance, and on ECI as many more
\* as the request that created it had failed to delete (_ensure_lock).
THEOREM OneInstanceAndTheUndeleted == Spec => []OneInstance
<1>1. InstanceInv => OneInstance
  BY DEF InstanceInv
<1>2. QED
  BY <1>1, InstanceInvAlways, PTL

-----------------------------------------------------------------------------
\* What a step leaves alone of one workspace and its place in the pass.
Untouched(k) ==
    /\ reclaimAsked'[k] = reclaimAsked[k] /\ warned'[k] = warned[k]
    /\ userActive'[k] = userActive[k] /\ startedAt'[k] = startedAt[k]
    /\ lastSeen'[k] = lastSeen[k]
    /\ agentSeen' = agentSeen /\ product' = product
SamePlace(k) == Pending(k)' = Pending(k)
StillRuns(k) ==
    boxes[k].running > 0 \/ (reaper.step = "forget" /\ reaper.key = k) =>
        (boxes[k].running > 0 \/ (reaper.step = "forget" /\ reaper.key = k))'

\* A workspace whose signs a step does not touch stays as silent as it was.
LEMMA UntouchedStaysSilent ==
    ASSUME SilenceInv, NEW k \in Keys, Untouched(k), SamePlace(k), StillRuns(k)
    PROVE  Silent(k)'
<1>1. Present(k)' = Present(k)
  BY DEF Untouched, SamePlace, Present, Recent, Remembered, Reports
<1>2. Silent(k)
  BY DEF SilenceInv
<1>3. QED
  BY <1>1, <1>2 DEF Silent, Standing, Untouched, StillRuns

\* A step that leaves the reaper alone.
LEMMA ReaperAside ==
    ASSUME NEW k \in Keys, reaper' = reaper
    PROVE  /\ SamePlace(k)
           /\ (boxes[k].running > 0 => boxes'[k].running > 0) => StillRuns(k)
BY DEF SamePlace, Pending, StillRuns

\* Signs of presence, and steps that only ask for the moment.
LEMMA SignSilence ==
    ASSUME InstanceInv, SilenceInv,
           \/ \E k \in Keys : Keep(k) \/ Heartbeat(k) \/ Active(k) \/ FastRoute(k)
           \/ AgentCalls \/ Money
    PROVE  SilenceInv'
<1> USE InstanceTypes DEF MemoryType
<1> SUFFICES ASSUME NEW k \in Keys
             PROVE  Silent(k)'
  BY DEF SilenceInv
<1>1. UNCHANGED <<product, boxes, reaper>>
  BY DEF Keep, Heartbeat, Here, Active, FastRoute, AgentCalls, Money, world, backend
<1>2. SamePlace(k) /\ StillRuns(k)
  BY <1>1, ReaperAside
<1>3. ASSUME NEW h \in Keys, Here(h)
      PROVE  Silent(k)'
  <2>1. CASE h = k
    BY <1>3, <2>1 DEF Here, Drop, Silent, Standing
  <2>2. CASE h # k
    <3>1. Untouched(k)
      BY <1>3, <2>2 DEF Here, Drop, Now, Untouched, world
    <3>2. QED
      BY <1>2, <3>1, UntouchedStaysSilent
  <2>3. QED
    BY <2>1, <2>2
<1>4. Silent(k)
  BY DEF SilenceInv
<1>5. ASSUME NEW h \in Keys, Active(h)
      PROVE  Silent(k)'
  <2>1. CASE h = k
    <3>1. /\ userActive'[k] = 0 /\ warned'[k] \in {Void, Absent}
          /\ UNCHANGED <<boxes, reclaimAsked, reaper>>
          /\ warned[k] = Void => warned'[k] = Void
      BY <1>5, <2>1 DEF backend, Active, Now, Spoken, Broken
    <3>2. Present(k)'
      BY <3>1 DEF Present, Recent
    <3>3. QED
      BY <1>4, <3>1, <3>2 DEF Silent, Standing
  <2>2. CASE h # k
    <3>1. Untouched(k)
      BY <1>5, <2>2 DEF Active, Now, Spoken, Untouched, world
    <3>2. QED
      BY <1>2, <3>1, UntouchedStaysSilent
  <2>3. QED
    BY <2>1, <2>2
<1>6. ASSUME NEW h \in Keys, FastRoute(h)
      PROVE  Silent(k)'
  <2>1. CASE Untouched(k)
    BY <1>2, <2>1, UntouchedStaysSilent
  <2>2. CASE ~Untouched(k)
    <3>1. UNCHANGED <<dicts, world>>
      BY <1>6 DEF FastRoute
    <3>2. h = k /\ k \notin Reports /\ Spoken(k) /\ lastSeen[k] = 0
      BY <1>6, <2>2, <3>1 DEF FastRoute, Spoken, Untouched, dicts, world
    <3>3. warned'[k] \in {Void, Absent} /\ (warned[k] = Void => warned'[k] = Void)
      BY <3>2 DEF Spoken, Broken
    <3>4. Present(k)'
      BY <3>1, <3>2 DEF Present, Remembered, Recent, Reports, dicts, world
    <3>5. QED
      BY <1>1, <1>4, <3>1, <3>3, <3>4 DEF Silent, Standing, dicts
  <2>3. QED
    BY <2>1, <2>2
<1>7. CASE AgentCalls
  <2>1. /\ warned'[k] \in {Void, Absent} /\ (warned[k] = Void => warned'[k] = Void)
        /\ agentSeen' = 0 /\ UNCHANGED <<boxes, reclaimAsked, reaper>>
    BY <1>7 DEF AgentCalls, Broken, dicts, backend
  <2>2. Present(k)'
    BY <2>1 DEF Present, Recent
  <2>3. QED
    BY <1>4, <2>1, <2>2 DEF Silent, Standing
<1>8. CASE Money
  <2>1. Untouched(k)
    BY <1>8 DEF Money, memory, dicts, Untouched
  <2>2. QED
    BY <1>2, <2>1, UntouchedStaysSilent
<1>9. QED
  BY <1>3, <1>5, <1>6, <1>7, <1>8 DEF Keep, Heartbeat

\* What takes the instance of h away marks a question that stands as void.
LEMMA LossSilence ==
    ASSUME InstanceInv, SilenceInv, NEW h \in Keys,
           \A k \in Keys : k # h => boxes'[k] = boxes[k], Outlived(h), UNCHANGED <<dicts, world, reaper>>
    PROVE  SilenceInv'
<1> USE InstanceTypes DEF MemoryType
<1> SUFFICES ASSUME NEW k \in Keys
             PROVE  Silent(k)'
  BY DEF SilenceInv
<1>1. CASE k = h
  <2>1. CASE reclaimAsked[k] = Absent
    BY <1>1, <2>1 DEF Silent, Standing, dicts
  <2>2. CASE reclaimAsked[k] # Absent /\ boxes'[k].running > 0
    <3>1. Untouched(k)
      BY <1>1, <2>2 DEF Outlived, Untouched, dicts, world
    <3>2. QED
      BY <2>2, <3>1, ReaperAside, UntouchedStaysSilent
  <2>3. CASE reclaimAsked[k] # Absent /\ ~(boxes'[k].running > 0)
    BY <1>1, <2>3 DEF Outlived, Silent, Standing, dicts
  <2>4. QED
    BY <2>1, <2>2, <2>3
<1>2. CASE k # h
  <2>1. boxes'[k] = boxes[k]
    BY <1>2
  <2>2. Untouched(k)
    BY <1>2 DEF Outlived, Untouched, dicts, world
  <2>3. QED
    BY <2>1, <2>2, ReaperAside, UntouchedStaysSilent
<1>3. QED
  BY <1>1, <1>2

\* What leaves running instances running, and all memory alone.
LEMMA BuildSilence ==
    ASSUME InstanceInv, SilenceInv, UNCHANGED <<memory, world, reaper>>,
           \A k \in Keys : boxes[k].running > 0 => boxes'[k].running > 0
    PROVE  SilenceInv'
<1> SUFFICES ASSUME NEW k \in Keys
             PROVE  Silent(k)'
  BY DEF SilenceInv
<1>1. Untouched(k)
  BY DEF Untouched, memory, dicts, world
<1>2. QED
  BY <1>1, ReaperAside, UntouchedStaysSilent

\* The steps of a request.
LEMMA RequestSilence ==
    ASSUME InstanceInv, SilenceInv, NEW r \in Requests, NEW h \in Keys,
           Open(r, h) \/ Stop(r, h) \/ Serve(r, h)
    PROVE  SilenceInv'
<1> USE InstanceTypes DEF MemoryType
<1> DEFINE old == boxes[h]
<1>1. old \in Boxes
  OBVIOUS
<1>2. CASE Open(r, h) \/ List(r, h)
  BY <1>2, BuildSilence DEF Open, List, backend
<1>3. CASE Stop(r, h)
  <2>1. \A k \in Keys : k # h => boxes'[k] = boxes[k]
    BY <1>3 DEF Stop, Becomes
  <2>2. QED
    BY <1>3, <2>1, LossSilence DEF Stop
<1>4. CASE Destroy(r, h)
  <2>1. \A k \in Keys : k # h => boxes'[k] = boxes[k]
    BY <1>4 DEF Destroy
  <2>2. QED
    BY <1>4, <2>1, LossSilence DEF Destroy
<1>5. CASE Inspect(r, h)
  <2>1. \A k \in Keys : k # h => boxes'[k] = boxes[k]
    BY <1>5 DEF Inspect
  <2>2. QED
    BY <1>5, <2>1, LossSilence DEF Inspect
<1>6. CASE Create(r, h)
  <2> DEFINE b == IF h \in Cloud THEN Box(old.stopped, old.booting + 1, old.running)
                  ELSE IF old = Gone THEN Box(1, 0, 0) ELSE old
  <2>1. boxes' = [boxes EXCEPT ![h] = b]
    BY <1>6 DEF Create
  <2>2. old.running > 0 => b.running > 0
    BY <1>1 DEF Box, Gone, Boxes
  <2> HIDE DEF b
  <2>3. \A k \in Keys : boxes[k].running > 0 => boxes'[k].running > 0
    BY <2>1, <2>2
  <2>4. QED
    BY <1>6, <2>3, BuildSilence DEF Create
<1>7. CASE StartBox(r, h)
  <2> DEFINE b == Box(0, old.booting, old.running + old.stopped)
  <2>1. boxes' = [boxes EXCEPT ![h] = b]
    BY <1>7 DEF StartBox
  <2>2. old.running > 0 => b.running > 0
    BY <1>1 DEF Box, Boxes
  <2> HIDE DEF b
  <2>3. \A k \in Keys : boxes[k].running > 0 => boxes'[k].running > 0
    BY <2>1, <2>2
  <2>4. QED
    BY <1>7, <2>3, BuildSilence DEF StartBox
<1>8. ASSUME NEW k \in Keys, Note(r, h) \/ Probe(r, h) \/ Forget(r, h)
      PROVE  Silent(k)'
  <2>1. UNCHANGED <<product, agentSeen, boxes, reaper, reclaimAsked>> /\ Silent(k)
    BY <1>8 DEF Note, Probe, Forget, world, backend, SilenceInv
  <2>2. SamePlace(k) /\ StillRuns(k)
    BY <2>1, ReaperAside
  <2>3. CASE Untouched(k)
    BY <2>2, <2>3, UntouchedStaysSilent
  <2>4. CASE ~Untouched(k) /\ Note(r, h)
    <3>1. k = h /\ startedAt'[k] = 0 /\ Spoken(h)
      BY <2>1, <2>4 DEF Note, Now, Spoken, Untouched
    <3>2. warned'[k] \in {Void, Absent} /\ (warned[k] = Void => warned'[k] = Void)
      BY <3>1 DEF Spoken, Broken
    <3>3. Present(k)'
      BY <3>1 DEF Present, Remembered, Recent
    <3>4. QED
      BY <2>1, <3>2, <3>3 DEF Silent, Standing
  <2>5. CASE ~Untouched(k) /\ Probe(r, h)
    <3>1. k = h /\ userActive' = userActive /\ startedAt' = startedAt
      BY <2>1, <2>5 DEF Probe, Now, Spoken, Untouched
    <3>2. CASE k \in Reports
      <4>1. warned' = warned
        BY <2>5, <3>1, <3>2 DEF Probe
      <4>2. Present(k)' = Present(k)
        BY <2>1, <2>2, <3>1, <3>2 DEF Present, Recent, Remembered, Reports, SamePlace
      <4>3. QED
        BY <2>1, <4>1, <4>2 DEF Silent, Standing
    <3>3. CASE k \notin Reports
      <4>1. lastSeen'[k] = 0 /\ Spoken(k)
        BY <2>1, <2>5, <3>1, <3>3 DEF Probe, Now, Untouched
      <4>2. warned'[k] \in {Void, Absent} /\ (warned[k] = Void => warned'[k] = Void)
        BY <4>1 DEF Spoken, Broken
      <4>3. Present(k)'
        BY <2>1, <3>3, <4>1 DEF Present, Remembered, Recent, Reports
      <4>4. QED
        BY <2>1, <4>2, <4>3 DEF Silent, Standing
    <3>4. QED
      BY <3>2, <3>3
  <2>6. CASE ~Untouched(k) /\ Forget(r, h)
    <3>1. k = h /\ startedAt'[k] = Absent /\ warned' = warned
      BY <2>1, <2>6 DEF Forget, Drop, Untouched
    <3>2. Present(k)'
      BY <3>1 DEF Present, Remembered
    <3>3. QED
      BY <2>1, <3>1, <3>2 DEF Silent, Standing
  <2>7. QED
    BY <1>8, <2>3, <2>4, <2>5, <2>6
<1>9. QED
  BY <1>2, <1>3, <1>4, <1>5, <1>6, <1>7, <1>8 DEF Serve, SilenceInv

\* The backend on its own, and the restart that forgets every question.
LEMMA BackendSilence ==
    ASSUME InstanceInv, SilenceInv, Restart \/ \E h \in Keys : Boot(h) \/ Die(h)
    PROVE  SilenceInv'
<1> USE InstanceTypes DEF MemoryType
<1>1. CASE Restart
  BY <1>1 DEF Restart, Forgotten, SilenceInv, Silent, Standing
<1>2. ASSUME NEW h \in Keys, Die(h)
      PROVE  SilenceInv'
  <2>1. \A k \in Keys : k # h => boxes'[k] = boxes[k]
    BY <1>2 DEF Die
  <2>2. QED
    BY <1>2, <2>1, LossSilence DEF Die
<1>3. ASSUME NEW h \in Keys, Boot(h)
      PROVE  SilenceInv'
  <2> DEFINE old == boxes[h]
             b == Box(old.stopped, old.booting - 1, old.running + 1)
  <2>1. boxes' = [boxes EXCEPT ![h] = b] /\ old \in Boxes
    BY <1>3 DEF Boot
  <2>2. b.running > 0
    BY <2>1 DEF Box, Boxes
  <2> HIDE DEF b
  <2>3. \A k \in Keys : boxes[k].running > 0 => boxes'[k].running > 0
    BY <2>1, <2>2
  <2>4. QED
    BY <1>3, <2>3, BuildSilence DEF Boot
<1>4. QED
  BY <1>1, <1>2, <1>3

\* A user with money whose presence the reaper can still see is spared.
LEMMA PresentIsSpared ==
    ASSUME InstanceInv, NEW k \in Keys, Pending(k), Present(k), ShouldStop(k)
    PROVE  broke
<1>1. /\ userActive[k] \in Ages /\ startedAt[k] \in Ages /\ lastSeen[k] \in Ages
      /\ agentSeen \in Ages
  BY InstanceTypes DEF MemoryType
<1>2. /\ Grace \in Nat \ {0} /\ IdleStop \in Nat \ {0} /\ AgentIdle \in Nat \ {0}
      /\ Old \in Nat
  BY TimesAssumption, AgesFacts
<1> DEFINE last    == Seeded(lastSeen, k)
           started == Seeded(startedAt, k)
           limit   == IF last > Grace THEN Grace ELSE IdleStop
           traffic == IF k \in Reports THEN Old ELSE last
           active  == userActive[k]
           present == Smaller(Smaller(active, started), traffic)
           agent   == Smaller(Smaller(agentSeen, started), traffic)
<1>3. limit \in Nat /\ limit >= 1 /\ AgentIdle >= 1
  BY <1>2
<1>4. \/ active \in 0..1 \/ agentSeen \in 0..1
      \/ started \in 0..1
      \/ traffic \in 0..1
  BY DEF Present, Recent, Remembered, Seeded, Absent
<1>5. started \in Nat /\ traffic \in Nat /\ active \in Int /\ agentSeen \in Int
  BY <1>1, <1>2, AgesFacts DEF Seeded, Ages, Absent
<1>6. ~(present > limit /\ agent > AgentIdle)
  <2> HIDE DEF limit, started, traffic, active
  <2>1. present <= 1 \/ agent <= 1
    BY <1>4, <1>5 DEF Smaller
  <2>2. present \in Int /\ agent \in Int
    BY <1>5 DEF Smaller
  <2>3. QED
    BY <1>2, <1>3, <2>1, <2>2
<1>7. QED
  BY <1>6 DEF ShouldStop

\* A workspace the reaper is not at keeps its place as the pass goes on.
LEMMA GoOnPlace ==
    ASSUME ReaperType, reaper.step \in {"sweep", "forget"}, GoOn
    PROVE  /\ reaper'.step \in {"sleep", "sweep"}
           /\ \A k \in Keys : k # reaper.key => SamePlace(k)
<1>1. CASE reaper.todo = {}
  <2>1. reaper' = Asleep
    BY <1>1 DEF GoOn
  <2>2. QED
    BY <1>1, <2>1 DEF SamePlace, Pending, Asleep
<1>2. CASE reaper.todo # {}
  <2>1. PICK h \in reaper.todo :
           reaper' = [step |-> "sweep", todo |-> reaper.todo \ {h}, key |-> h]
    BY <1>2 DEF GoOn
  <2>2. reaper'.step = "sweep" /\ reaper'.todo \union {reaper'.key} = reaper.todo
    BY <2>1
  <2>3. QED
    BY <2>2 DEF SamePlace, Pending
<1>3. QED
  BY <1>1, <1>2

\* The minute of sleep: every age grows by one, and the next pass is to come.
LEMMA WakeSilence ==
    ASSUME InstanceInv, SilenceInv, Wake
    PROVE  SilenceInv'
<1> SUFFICES ASSUME NEW k \in Keys, Standing(k)'
             PROVE  /\ boxes'[k].running > 0
                    /\ \/ warned'[k] = reclaimAsked'[k]
                       \/ warned'[k] = Absent /\ Present(k)'
  BY DEF SilenceInv, Silent
<1>1. /\ lastSeen'[k] = Older(lastSeen[k]) /\ userActive'[k] = Older(userActive[k])
      /\ startedAt'[k] = Older(startedAt[k]) /\ reclaimAsked'[k] = Older(reclaimAsked[k])
      /\ warned'[k] = Older(warned[k]) /\ agentSeen' = Older(agentSeen)
      /\ reaper = Asleep /\ reaper'.step = "list"
      /\ UNCHANGED <<product, boxes>>
  BY DEF Wake, Aged, backend
<1>2. reclaimAsked[k] \in Ages /\ warned[k] \in {Void} \union Ages
  BY InstanceTypes DEF MemoryType
<1>3. Standing(k) /\ (warned[k] = Absent => warned'[k] = Absent)
  BY <1>1, <1>2, AgesFacts DEF Standing
<1>4. reaper.step = "sleep" /\ ~Pending(k) /\ Pending(k)'
  BY <1>1 DEF Pending, Asleep
<1>5. \A a : (Recent(a, k) => Recent(Older(a), k)') /\ (Remembered(a, k) => Remembered(Older(a), k)')
  <2>1. Older(Absent) = Absent /\ Older(0) = 1
    BY AgesFacts
  <2>2. QED
    BY <1>4, <2>1 DEF Recent, Remembered
<1>6. Present(k) => Present(k)'
  BY <1>1, <1>5 DEF Present, Reports
<1>7. QED
  BY <1>1, <1>3, <1>4, <1>6 DEF SilenceInv, Silent

\* The pass begins with the workspaces that run: every question that stands.
LEMMA SurveySilence ==
    ASSUME InstanceInv, SilenceInv, Survey
    PROVE  SilenceInv'
<1> SUFFICES ASSUME NEW k \in Keys
             PROVE  Silent(k)'
  BY DEF SilenceInv
<1>1. UNCHANGED <<boxes, memory, world>> /\ reaper.step = "list"
  BY DEF Survey, backend
<1>2. Untouched(k)
  BY <1>1 DEF Untouched, memory, dicts, world
<1>3. StillRuns(k)
  BY <1>1 DEF StillRuns
<1>4. CASE k \in Running
  <2>1. PICK h \in Running : reaper' = [step |-> "sweep", todo |-> Running \ {h}, key |-> h]
    BY <1>4 DEF Survey
  <2>2. Pending(k) /\ Pending(k)'
    BY <1>1, <1>4, <2>1 DEF Pending
  <2>3. QED
    BY <1>2, <1>3, <2>2, UntouchedStaysSilent DEF SamePlace
<1>5. CASE k \notin Running
  BY <1>1, <1>2, <1>5 DEF SilenceInv, Silent, Standing, Running, Untouched
<1>6. QED
  BY <1>4, <1>5

\* What the reaper decides of h: a sign it can see takes the question down.
LEMMA SweepSilence ==
    ASSUME InstanceInv, SilenceInv, NEW h \in Keys,
           Spare(h) \/ Ask(h) \/ Wait(h) \/ Condemn(h)
    PROVE  SilenceInv'
<1> USE InstanceTypes DEF MemoryType
<1> SUFFICES ASSUME NEW k \in Keys
             PROVE  Silent(k)'
  BY DEF SilenceInv
<1>1. /\ Judge(h) /\ reaper.step = "sweep" /\ reaper.key = h /\ Pending(h)
      /\ UNCHANGED <<boxes, userActive, agentSeen, broke, product>>
  BY DEF Spare, Ask, Wait, Condemn, Judge, Pending, world, backend
<1>2. /\ lastSeen' = [lastSeen EXCEPT ![h] = Seeded(lastSeen, h)]
      /\ startedAt' = [startedAt EXCEPT ![h] = Seeded(startedAt, h)]
  BY <1>1 DEF Judge
<1>3. StillRuns(k)
  BY <1>1 DEF StillRuns
<1>4. Silent(k)
  BY DEF SilenceInv
<1>5. CASE k # h
  <2>1. reclaimAsked'[k] = reclaimAsked[k] /\ warned'[k] = warned[k]
    BY <1>5 DEF Spare, Ask, Wait, Condemn, Drop, Now
  <2>2. Untouched(k)
    BY <1>1, <1>2, <1>5, <2>1 DEF Untouched
  <2>3. SamePlace(k)
    <3>1. CASE Condemn(h)
      <4>1. reaper \in Pass /\ reaper' = [reaper EXCEPT !.step = "release"]
        BY <1>1, <3>1, PassFacts DEF Condemn
      <4>2. reaper'.step = "release" /\ reaper'.todo = reaper.todo /\ reaper'.key = reaper.key
        BY <4>1 DEF Pass
      <4>3. QED
        BY <1>1, <4>2 DEF SamePlace, Pending
    <3>2. CASE GoOn
      BY <1>1, <1>5, <3>2, GoOnPlace
    <3>3. QED
      BY <3>1, <3>2 DEF Spare, Ask, Wait
  <2>4. QED
    BY <1>3, <2>2, <2>3, UntouchedStaysSilent
<1>6. CASE k = h /\ Spare(h)
  BY <1>6 DEF Spare, Drop, Silent, Standing
<1>7. CASE k = h /\ Ask(h)
  BY <1>1, <1>7 DEF Ask, Now, Running, Silent, Standing
<1>8. CASE k = h /\ Wait(h)
  <2>1. ~Present(k) /\ UNCHANGED <<reclaimAsked, warned>>
    BY <1>1, <1>8, PresentIsSpared DEF Wait
  <2>2. QED
    BY <1>1, <1>4, <2>1 DEF Silent, Standing
<1>9. CASE k = h /\ Condemn(h)
  <2>1. reaper \in Pass /\ reaper' = [reaper EXCEPT !.step = "release"]
    BY <1>1, <1>9, PassFacts DEF Condemn
  <2>2. reaper'.step = "release" /\ reaper'.key = reaper.key
    BY <2>1 DEF Pass
  <2>3. Pending(k) /\ Pending(k)'
    BY <1>1, <1>9, <2>2 DEF Pending
  <2>4. Present(k) => Present(k)'
    BY <1>1, <1>2, <2>3 DEF Present, Recent, Remembered, Seeded, Reports
  <2>5. UNCHANGED <<reclaimAsked, warned>>
    BY <1>9 DEF Condemn
  <2>6. QED
    BY <1>1, <1>4, <2>4, <2>5 DEF Silent, Standing
<1>10. QED
  BY <1>5, <1>6, <1>7, <1>8, <1>9

\* The stop itself, and what is forgotten after it.
LEMMA StopSilence ==
    ASSUME InstanceInv, SilenceInv, ReaperRelease \/ ReaperForget
    PROVE  SilenceInv'
<1> USE InstanceTypes DEF MemoryType
<1> SUFFICES ASSUME NEW k \in Keys
             PROVE  Silent(k)'
  BY DEF SilenceInv
<1>1. reaper \in Pass /\ reaper.key \in Keys
  BY PassFacts DEF ReaperRelease, ReaperForget
<1>2. CASE ReaperRelease
  <2>1. \A h \in Keys : h # reaper.key => boxes'[h] = boxes[h]
    BY <1>1, <1>2 DEF ReaperRelease, Becomes
  <2>2. reaper.step = "release" /\ UNCHANGED <<memory, world>>
    BY <1>2 DEF ReaperRelease
  <2>3. reaper'.step = "forget" /\ reaper'.todo = reaper.todo /\ reaper'.key = reaper.key
    BY <1>1, <1>2 DEF ReaperRelease, Pass
  <2>4. SamePlace(k)
    BY <2>2, <2>3 DEF SamePlace, Pending
  <2>5. StillRuns(k)
    BY <2>1, <2>2, <2>3 DEF StillRuns
  <2>6. Untouched(k)
    BY <2>2 DEF Untouched, memory, dicts, world
  <2>7. QED
    BY <2>4, <2>5, <2>6, UntouchedStaysSilent
<1>3. CASE ReaperForget
  <2>1. reaper.step = "forget" /\ GoOn /\ UNCHANGED <<boxes, world>>
    BY <1>3 DEF ReaperForget, backend
  <2>2. CASE k = reaper.key
    BY <1>3, <2>2 DEF ReaperForget, Drop, Silent, Standing
  <2>3. CASE k # reaper.key
    <3>1. Untouched(k)
      BY <1>3, <2>3 DEF ReaperForget, Drop, Untouched, world
    <3>2. SamePlace(k)
      BY <2>1, <2>3, GoOnPlace
    <3>3. StillRuns(k)
      BY <2>1, <2>3 DEF StillRuns
    <3>4. QED
      BY <3>1, <3>2, <3>3, UntouchedStaysSilent
  <2>4. QED
    BY <2>2, <2>3
<1>4. QED
  BY <1>2, <1>3

\* No question has been put yet.
LEMMA WorkspaceInvInit == Init => WorkspaceInv
<1>1. Init => SilenceInv
  BY DEF Init, SilenceInv, Silent, Standing, Forgotten
<1>2. QED
  BY <1>1, InstanceInvInit DEF WorkspaceInv

\* Every step keeps both invariants.
LEMMA WorkspaceInvStep == WorkspaceInv /\ [Next]_vars => WorkspaceInv'
<1> SUFFICES ASSUME InstanceInv, SilenceInv, [Next]_vars
             PROVE  SilenceInv'
  BY InstanceInvStep DEF WorkspaceInv
<1>1. CASE UNCHANGED vars
  <2>1. UNCHANGED <<memory, world, reaper, boxes>>
    BY <1>1 DEF vars, memory, dicts, world
  <2>2. QED
    BY <2>1, BuildSilence
<1>2. CASE Next
  BY <1>2, SignSilence, RequestSilence, BackendSilence, WakeSilence, SurveySilence,
     SweepSilence, StopSilence DEF Next, Reaper
<1>3. QED
  BY <1>1, <1>2

\* Both invariants hold always.
LEMMA WorkspaceInvAlways == Spec => []WorkspaceInv
BY WorkspaceInvInit, WorkspaceInvStep, PTL DEF Spec

\* Only Condemn takes the reaper from its sweep to a stop.
LEMMA CondemnedBySweep ==
    ASSUME InstanceInv, [Next]_vars, NEW k \in Keys, Condemned(k)
    PROVE  Condemn(k)
<1>1. reaper.step = "sweep" /\ reaper.key = k /\ reaper'.step = "release"
  BY DEF Condemned
<1>2. reaper' # reaper
  BY <1>1
<1>3. ~GoOn
  BY <1>1, InstanceTypes, GoOnPlace
<1>4. ~Restart
  BY <1>1 DEF Restart, Asleep
<1>5. Reaper
  <2>1. ASSUME NEW h \in Keys,
               Keep(h) \/ Heartbeat(h) \/ Active(h) \/ FastRoute(h) \/ Boot(h) \/ Die(h)
        PROVE  FALSE
    BY <1>2, <2>1 DEF Keep, Heartbeat, Here, Active, FastRoute, Boot, Die
  <2>2. ASSUME NEW r \in Requests, NEW h \in Keys, Open(r, h) \/ Stop(r, h) \/ Serve(r, h)
        PROVE  FALSE
    BY <1>2, <2>2
       DEF Open, Stop, Serve, Inspect, Destroy, List, Create, StartBox, Note, Probe, Forget
  <2>3. ~AgentCalls /\ ~Money
    BY <1>2 DEF AgentCalls, Money
  <2>4. QED
    BY <1>2, <1>4, <2>1, <2>2, <2>3 DEF Next, vars
<1>6. PICK h \in Keys : Condemn(h)
  <2>1. reaper.step # "sleep" /\ reaper.step # "list"
    BY <1>1
  <2>2. QED
    BY <1>1, <1>3, <1>5, <2>1
       DEF Reaper, Wake, Survey, ReaperRelease, ReaperForget, Spare, Ask, Wait, Asleep
<1>7. QED
  BY <1>1, <1>6 DEF Condemn, Judge

\* The reaper stops the instance of a user who can pay only when the question
\* put while it ran has stood unanswered for the whole window; a question older
\* than its instance is the one exception (workspace.py: WORK_RECLAIM_ASK_SEC).
THEOREM NobodyIsStoppedUnasked == Spec => AskedInSilence
<1> DEFINE Asked == \A k \in Keys :
              Condemned(k) /\ ~broke => warned[k] \in {Void} \union Window..Larger(Old, Window)
<1>1. WorkspaceInv /\ [Next]_vars => Asked
  <2> SUFFICES ASSUME WorkspaceInv, [Next]_vars, NEW k \in Keys, Condemned(k), ~broke
               PROVE  warned[k] \in {Void} \union Window..Larger(Old, Window)
    OBVIOUS
  <2>1. Condemn(k) /\ InstanceInv /\ Silent(k)
    BY CondemnedBySweep DEF WorkspaceInv, SilenceInv
  <2>2. ShouldStop(k) /\ reclaimAsked[k] >= Window /\ Pending(k)
    BY <2>1 DEF Condemn, Judge, Pending
  <2>3. reclaimAsked[k] \in Ages
    BY <2>1, InstanceTypes DEF MemoryType
  <2>4. ~Present(k)
    BY <2>1, <2>2, PresentIsSpared
  <2>5. Window \in Nat \ {0} /\ Larger(Old, Window) \in Nat
    BY TimesAssumption, AgesFacts
  <2>6. reclaimAsked[k] # Absent /\ reclaimAsked[k] \in Window..Larger(Old, Window)
    BY <2>2, <2>3, <2>5 DEF Ages, Absent
  <2>7. QED
    BY <2>1, <2>4, <2>6 DEF Silent, Standing
<1>2. WorkspaceInv /\ [Next]_vars => [Asked]_vars
  BY <1>1
<1>3. QED
  BY <1>2, WorkspaceInvAlways, PTL DEF Spec, AskedInSilence
=============================================================================
