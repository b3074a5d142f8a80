---------------------------- MODULE Gateway_proofs ----------------------------
(***************************************************************************)
(* Proofs about Gateway, for any finite number of calls, any users, any    *)
(* limit of calls in flight, any prices and any number of failures of the  *)
(* database, with streams that break off anywhere and a process that       *)
(* starts anew at any moment; and about Intake, which stands before it.     *)
(***************************************************************************)
EXTENDS Gateway, FiniteSetTheorems, TLAPS

\* What the bounds of an instance are.
Bounds == /\ IsFiniteSet(Calls)
          /\ MaxPrice \in Nat /\ MaxFaults \in Nat /\ MaxBalance \in Nat \ {0}

Call == [step : Steps, user : Users, face : Face, begun : BOOLEAN, given : BOOLEAN]

\* The types, but for the depth of the debts, which follows from what is open.
Typed ==
    /\ balance \in [Users -> Int] /\ \A u \in Users : balance[u] <= MaxBalance
    /\ inflight \in [Users -> Nat]
    /\ call \in [Calls -> {Nobody} \union Call]
    /\ faults \in 0..MaxFaults
    /\ bills \in [Calls -> Nat] /\ wasted \subseteq Calls

\* A call is not billed before its end, and has begun when, and only when, it
\* streams or has been answered.
BillInv ==
    \A c \in Calls :
        /\ ~At(c, "ended") => bills[c] = 0 /\ c \notin wasted
        /\ call[c].step \in {"body", "ready", "asked", "asked again"}
              => ~call[c].begun /\ ~call[c].given
        /\ At(c, "streaming") => call[c].begun

GatewayInv == Typed /\ SlotsMatch /\ BillInv /\ BilledTruthfully /\ OverdraftIsPending

-----------------------------------------------------------------------------
(* What a step makes of one call: r is the record it leaves behind.         *)

Holds(r, u)   == r.step \in Serving /\ r.user = u /\ r.face.slot
IsOpen(r, u)  == r.step \in {"body", "ready"} \union Serving /\ r.user = u
Becomes(c, r) == call' = [call EXCEPT ![c] = r]
Settled(r, n, w) ==
    /\ n <= 1
    /\ r.given /\ ~w /\ ~r.face.free => n = 1
    /\ ~r.begun => n = 0

\* Every face a call can have is one.
LEMMA FacesAreFaces == Faces \subseteq Face
<1>1. Plain \in Face
  BY DEF Plain, Face
<1>2. /\ [Plain EXCEPT !.stream = TRUE] \in Face /\ [Plain EXCEPT !.retry = TRUE] \in Face
      /\ [Plain EXCEPT !.free = TRUE] \in Face
  BY DEF Plain, Face
<1>3. [Plain EXCEPT !.retry = TRUE, !.stream = TRUE] \in Face
  BY DEF Plain, Face
<1>4. [Plain EXCEPT !.slot = FALSE, !.twice = TRUE] \in Face
  BY DEF Plain, Face
<1>5. QED
  BY <1>1, <1>2, <1>3, <1>4
  DEF Faces, ChatPlain, ChatStream, ResponsesPlain, ResponsesStream, Embedding, AnthropicPlain,
      AnthropicStream, WebSearch, GeminiPlain, GeminiCount, GeminiStream, Image

\* A call that is anywhere is a full record.
LEMMA Underway ==
    ASSUME Typed, NEW c \in Calls, call[c].step # "idle"
    PROVE  call[c] \in Call
BY DEF Typed, Nobody

\* What a call owes cannot be more for a longer list of reasons.
LEMMA MoreReasons ==
    ASSUME NEW p \in Nat, NEW m \in Nat, NEW n \in Nat, m <= n
    PROVE  p * m <= p * n /\ p * (m + 1) = p * m + p /\ p * m \in Nat
<1>1. PICK d \in Nat : n = m + d
  <2>1. n - m \in Nat /\ n = m + (n - m)
    OBVIOUS
  <2>2. QED
    BY <2>1
<1>2. p * n = p * m + p * d
  BY <1>1
<1>3. p * d \in Nat /\ p * m \in Nat
  OBVIOUS
<1>4. QED
  BY <1>2, <1>3

-----------------------------------------------------------------------------
(* Slots.                                                                   *)

Holders(u) == {c \in Calls : Holds(call[c], u)}

\* The calls that hold a slot of u are finitely many.
LEMMA SlotsAreCounted ==
    ASSUME Bounds, SlotsMatch, NEW u \in Users
    PROVE  IsFiniteSet(Holders(u)) /\ inflight[u] = Cardinality(Holders(u))
<1>1. Holders(u) \in SUBSET Calls
  BY DEF Holders
<1>2. IsFiniteSet(Holders(u))
  BY <1>1, FS_Subset DEF Bounds
<1>3. QED
  BY <1>2 DEF SlotsMatch, Holders, Holds

\* A step that moves one call and neither takes a slot nor gives one back.
LEMMA SlotsKept ==
    ASSUME Typed, SlotsMatch, NEW c \in Calls, NEW r, Becomes(c, r),
           \A u \in Users : Holds(r, u) = Holds(call[c], u), UNCHANGED inflight
    PROVE  SlotsMatch'
<1>1. \A d \in Calls, u \in Users : Holds(call'[d], u) = Holds(call[d], u)
  BY DEF Becomes, Typed
<1>2. \A u \in Users : {d \in Calls : Holds(call'[d], u)} = {d \in Calls : Holds(call[d], u)}
  BY <1>1
<1>3. QED
  BY <1>2 DEF SlotsMatch, Holds

\* _Slot.__enter__: the counter rises with the calls that hold a slot.
LEMMA SlotTaken ==
    ASSUME Bounds, Typed, SlotsMatch, NEW c \in Calls, NEW r, Becomes(c, r), Enter(c),
           call[c] \in Call, call[c].step \notin Serving,
           r.step \in Serving, r.user = call[c].user, r.face = call[c].face
    PROVE  SlotsMatch'
<1> SUFFICES ASSUME NEW u \in Users
             PROVE  inflight'[u] = Cardinality({d \in Calls : Holds(call'[d], u)})
  BY DEF SlotsMatch, Holds
<1>1. IsFiniteSet(Holders(u)) /\ inflight[u] = Cardinality(Holders(u))
  BY SlotsAreCounted
<1>2. c \notin Holders(u)
  BY DEF Holders, Holds
<1>3. \A d \in Calls : d # c => Holds(call'[d], u) = Holds(call[d], u)
  BY DEF Becomes, Typed
<1>4. Holds(call'[c], u) <=> call[c].user = u /\ call[c].face.slot
  BY DEF Becomes, Typed, Holds
<1>5. CASE call[c].user = u /\ call[c].face.slot
  <2>1. {d \in Calls : Holds(call'[d], u)} = Holders(u) \union {c}
    BY <1>3, <1>4, <1>5 DEF Holders
  <2>2. inflight'[u] = inflight[u] + 1
    BY <1>5 DEF Enter, Typed
  <2>3. Cardinality(Holders(u) \union {c}) = Cardinality(Holders(u)) + 1
    BY ONLY <1>1, <1>2, FS_AddElement
  <2>4. QED
    BY ONLY <1>1, <2>1, <2>2, <2>3
<1>6. CASE ~(call[c].user = u /\ call[c].face.slot)
  <2>1. {d \in Calls : Holds(call'[d], u)} = Holders(u)
    BY <1>2, <1>3, <1>4, <1>6 DEF Holders
  <2>2. inflight'[u] = inflight[u]
    BY <1>6 DEF Enter, Typed
  <2>3. QED
    BY <1>1, <2>1, <2>2
<1>7. QED
  BY <1>5, <1>6

\* The counter stays a natural number.
LEMMA LeaveTyped ==
    ASSUME Typed, NEW c \in Calls, call[c] \in Call, Leave(c)
    PROVE  inflight' \in [Users -> Nat]
<1>1. call[c].user \in Users /\ inflight \in [Users -> Nat]
  BY DEF Call, Typed
<1>2. inflight[call[c].user] \in Nat
  BY <1>1
<1>3. QED
  BY <1>1, <1>2 DEF Leave

\* _Slot.__exit__: it falls with them, and the floor at zero is never reached.
LEMMA SlotReturned ==
    ASSUME Bounds, Typed, SlotsMatch, NEW c \in Calls, NEW r, Becomes(c, r), Leave(c),
           call[c] \in Call, call[c].step \in Serving, r.step \notin Serving
    PROVE  SlotsMatch'
<1> SUFFICES ASSUME NEW u \in Users
             PROVE  inflight'[u] = Cardinality({d \in Calls : Holds(call'[d], u)})
  BY DEF SlotsMatch, Holds
<1>1. IsFiniteSet(Holders(u)) /\ inflight[u] = Cardinality(Holders(u)) /\ inflight[u] \in Nat
  BY SlotsAreCounted DEF Typed
<1>2. c \in Holders(u) <=> call[c].user = u /\ call[c].face.slot
  BY DEF Holders, Holds
<1>3. \A d \in Calls : d # c => Holds(call'[d], u) = Holds(call[d], u)
  BY DEF Becomes, Typed
<1>4. ~Holds(call'[c], u)
  BY DEF Becomes, Typed, Holds
<1>5. {d \in Calls : Holds(call'[d], u)} = Holders(u) \ {c}
  BY <1>3, <1>4 DEF Holders
<1>6. CASE call[c].user = u /\ call[c].face.slot
  <2>1. Cardinality(Holders(u)) # 0
    BY <1>1, <1>2, <1>6, FS_EmptySet
  <2>2. inflight'[u] = inflight[u] - 1
    BY <1>1, <1>6, <2>1 DEF Leave, Typed
  <2>3. Cardinality(Holders(u) \ {c}) = Cardinality(Holders(u)) - 1
    <3>1. c \in Holders(u)
      BY <1>2, <1>6
    <3>2. QED
      BY ONLY <1>1, <3>1, FS_RemoveElement
  <2>4. QED
    BY ONLY <1>1, <1>5, <2>2, <2>3
<1>7. CASE ~(call[c].user = u /\ call[c].face.slot)
  <2>1. Holders(u) \ {c} = Holders(u)
    BY <1>2, <1>7
  <2>2. inflight'[u] = inflight[u]
    BY <1>7 DEF Leave, Typed
  <2>3. QED
    BY <1>1, <1>5, <2>1, <2>2
<1>8. QED
  BY <1>6, <1>7

-----------------------------------------------------------------------------
(* Debts.                                                                   *)

Reasons(u) == Cardinality(Calls \ Open(u)) + faults

\* Reasons can be counted.
LEMMA ReasonsAreNat ==
    ASSUME Bounds, Typed, NEW u \in Users
    PROVE  /\ IsFiniteSet(Calls \ Open(u)) /\ Cardinality(Calls \ Open(u)) \in Nat
           /\ faults \in Nat /\ Reasons(u) \in Nat
<1>1. IsFiniteSet(Calls \ Open(u))
  BY FS_Difference DEF Bounds
<1>2. Cardinality(Calls \ Open(u)) \in Nat
  BY <1>1, FS_CardinalityType
<1>3. QED
  BY <1>1, <1>2 DEF Reasons, Typed, Bounds

\* What is closed, and every failure, is one more reason for a debt.
LEMMA ReasonsStay ==
    ASSUME Bounds, Typed, Typed', NEW u \in Users, Open(u)' \subseteq Open(u), faults' >= faults
    PROVE  Reasons(u)' >= Reasons(u)
<1>1. /\ IsFiniteSet(Calls \ Open(u)) /\ Cardinality(Calls \ Open(u)) \in Nat
      /\ faults \in Nat
  BY ReasonsAreNat
<1>2. IsFiniteSet(Calls \ Open(u)')
  BY FS_Difference DEF Bounds
<1>3. Cardinality(Calls \ Open(u)') \in Nat /\ faults' \in Nat
  BY <1>2, FS_CardinalityType DEF Typed, Bounds
<1>4. Calls \ Open(u) \in SUBSET (Calls \ Open(u)')
  OBVIOUS
<1>5. Cardinality(Calls \ Open(u)) <= Cardinality(Calls \ Open(u)')
  BY <1>2, <1>4, FS_Subset
<1>6. QED
  BY <1>1, <1>3, <1>5 DEF Reasons

\* A debt stays covered by as many reasons.
LEMMA OwesNoMore ==
    ASSUME Bounds, Typed, Typed', OverdraftIsPending,
           \A u \in Users : balance'[u] <= 0 =>
               balance'[u] >= balance[u] /\ Reasons(u)' >= Reasons(u)
    PROVE  OverdraftIsPending'
<1> SUFFICES ASSUME NEW u \in Users, balance'[u] <= 0
             PROVE  balance'[u] > 0 - MaxPrice * Reasons(u)'
  BY DEF OverdraftIsPending, Reasons
<1>1. Reasons(u) \in Nat
  BY ReasonsAreNat
<1>2. Reasons(u)' \in Nat
  <2>1. IsFiniteSet(Calls \ Open(u)')
    BY FS_Difference DEF Bounds
  <2>2. Cardinality(Calls \ Open(u)') \in Nat
    BY <2>1, FS_CardinalityType
  <2>3. QED
    BY <2>2 DEF Reasons, Typed, Bounds
<1>3. MaxPrice * Reasons(u) <= MaxPrice * Reasons(u)' /\ MaxPrice * Reasons(u)' \in Nat
      /\ MaxPrice * Reasons(u) \in Nat
  BY <1>1, <1>2, MoreReasons DEF Bounds
<1>4. balance[u] <= balance'[u] /\ balance[u] \in Int /\ balance'[u] \in Int
  BY DEF Typed
<1>5. balance[u] > 0 - MaxPrice * Reasons(u)
  BY <1>4 DEF OverdraftIsPending, Reasons
<1>6. QED
  BY <1>3, <1>4, <1>5

\* A bill closes the call it is for, and costs at most what one call may.
LEMMA OwesForTheCall ==
    ASSUME Bounds, Typed, Typed', OverdraftIsPending,
           NEW c \in Calls, NEW r, Becomes(c, r), \A u \in Users : ~IsOpen(r, u),
           call[c] \in Call, IsOpen(call[c], call[c].user),
           NEW price \in 1..MaxPrice, Pays(c, price)
    PROVE  OverdraftIsPending'
<1> SUFFICES ASSUME NEW u \in Users, balance'[u] <= 0
             PROVE  balance'[u] > 0 - MaxPrice * Reasons(u)'
  BY DEF OverdraftIsPending, Reasons
<1>1. /\ IsFiniteSet(Calls \ Open(u)) /\ Cardinality(Calls \ Open(u)) \in Nat
      /\ faults \in Nat /\ Reasons(u) \in Nat /\ faults' = faults
  BY ReasonsAreNat DEF Pays
<1>2. \A d \in Calls : IsOpen(call'[d], u) <=> d # c /\ IsOpen(call[d], u)
  BY DEF Becomes, Typed
<1>3. Open(u)' = Open(u) \ {c}
  BY <1>2 DEF Open, IsOpen
<1>4. CASE u = call[c].user
  <2>1. c \in Open(u)
    BY <1>4 DEF Open, IsOpen
  <2>2. Calls \ Open(u)' = (Calls \ Open(u)) \union {c} /\ c \notin Calls \ Open(u)
    BY <1>3, <2>1
  <2>3. Cardinality(Calls \ Open(u)') = Cardinality(Calls \ Open(u)) + 1
    BY <1>1, <2>2, FS_AddElement
  <2>4. Reasons(u)' = Reasons(u) + 1
    BY <1>1, <2>3 DEF Reasons
  <2>5. MaxPrice * Reasons(u)' = MaxPrice * Reasons(u) + MaxPrice /\ MaxPrice * Reasons(u) \in Nat
    BY <1>1, <2>4, MoreReasons DEF Bounds
  <2>6. balance'[u] = balance[u] - price /\ balance[u] \in Int
    BY <1>4 DEF Pays, Typed
  <2>7. balance[u] <= 0 => balance[u] > 0 - MaxPrice * Reasons(u)
    BY DEF OverdraftIsPending, Reasons
  <2>8. QED
    BY <2>5, <2>6, <2>7 DEF Bounds
<1>5. CASE u # call[c].user
  <2>1. balance'[u] = balance[u]
    BY <1>5 DEF Pays, Typed
  <2>2. Open(u)' = Open(u)
    BY <1>3, <1>5 DEF Open
  <2>3. Reasons(u)' = Reasons(u)
    BY <1>1, <2>2 DEF Reasons
  <2>4. QED
    BY <2>1, <2>3 DEF OverdraftIsPending, Reasons
<1>6. QED
  BY <1>4, <1>5

-----------------------------------------------------------------------------
(* Bills.                                                                   *)

\* A step that moves one call, billed as its new record says.
LEMMA BilledAsItEnds ==
    ASSUME Typed, BillInv, BilledTruthfully, NEW c \in Calls, NEW r, Becomes(c, r),
           \A d \in Calls \ {c} : bills'[d] = bills[d] /\ (d \in wasted' <=> d \in wasted),
           r.step # "ended" => bills'[c] = 0 /\ c \notin wasted',
           r.step \in {"body", "ready", "asked", "asked again"} => ~r.begun /\ ~r.given,
           r.step = "streaming" => r.begun,
           r.step = "ended" => Settled(r, bills'[c], c \in wasted')
    PROVE  BillInv' /\ BilledTruthfully'
<1>1. call'[c] = r /\ \A d \in Calls \ {c} : call'[d] = call[d]
  BY DEF Becomes, Typed
<1>2. BillInv'
  BY <1>1 DEF BillInv, At
<1>3. BilledTruthfully'
  BY <1>1 DEF BilledTruthfully, At, Settled
<1>4. QED
  BY <1>2, <1>3

\* A step that moves one call without a bill.
LEMMA MovedUnbilled ==
    ASSUME Typed, BillInv, BilledTruthfully, NEW c \in Calls, NEW r, Becomes(c, r),
           call[c].step # "ended", UNCHANGED <<bills, wasted>>,
           r.step \in {"body", "ready", "asked", "asked again"} => ~r.begun /\ ~r.given,
           r.step = "streaming" => r.begun,
           r.step = "ended" => ~r.given \/ r.face.free
    PROVE  BillInv' /\ BilledTruthfully'
<1>1. bills[c] = 0 /\ c \notin wasted
  BY DEF BillInv, At
<1>2. r.step = "ended" => Settled(r, bills'[c], c \in wasted')
  BY <1>1 DEF Settled
<1>3. QED
  BY <1>1, <1>2, BilledAsItEnds

\* The types of a step that moves one call and leaves the accounts alone.
LEMMA MovedTyped ==
    ASSUME Bounds, Typed, NEW c \in Calls, NEW r \in {Nobody} \union Call, Becomes(c, r), Unbilled,
           inflight' = inflight \/ Enter(c) \/ Leave(c), call[c] \in Call
    PROVE  Typed'
<1>1. inflight' \in [Users -> Nat]
  BY DEF Typed, Enter, Leave
<1>2. call' \in [Calls -> {Nobody} \union Call]
  BY DEF Becomes, Typed
<1>3. QED
  BY <1>1, <1>2 DEF Typed, Unbilled

\* And its debts: what is open is closed, or stays open for its user.
LEMMA MovedOwesNoMore ==
    ASSUME Bounds, Typed, Typed', OverdraftIsPending, NEW c \in Calls, NEW r, Becomes(c, r),
           \A u \in Users : IsOpen(r, u) => IsOpen(call[c], u),
           UNCHANGED balance, faults' = faults \/ faults' = faults + 1
    PROVE  OverdraftIsPending'
<1>1. \A d \in Calls, u \in Users : IsOpen(call'[d], u) => IsOpen(call[d], u)
  BY DEF Becomes, Typed
<1>2. \A u \in Users : Open(u)' \subseteq Open(u)
  BY <1>1 DEF Open, IsOpen
<1>3. \A u \in Users : Reasons(u)' >= Reasons(u)
  <2>1. faults' >= faults
    BY DEF Typed, Bounds
  <2>2. QED
    BY <1>2, <2>1, ReasonsStay
<1>4. \A u \in Users : balance'[u] >= balance[u]
  BY DEF Typed
<1>5. QED
  BY <1>3, <1>4, OwesNoMore

-----------------------------------------------------------------------------
(* The actions, one by one.                                                 *)

\* The record of a call at a later step.
Later(c, step) == [step |-> step, user |-> call[c].user, face |-> call[c].face,
                   begun |-> call[c].begun, given |-> call[c].given]

\* Going to a step changes nothing else of the call.
LEMMA GoneTo ==
    ASSUME Typed, NEW c \in Calls, call[c] \in Call, NEW step \in Steps, Goto(c, step)
    PROVE  Becomes(c, Later(c, step)) /\ Later(c, step) \in Call
<1>1. Later(c, step) \in Call
  BY DEF Later, Call
<1>2. [call[c] EXCEPT !.step = step] = Later(c, step)
  BY DEF Later, Call
<1>3. Becomes(c, [call[c] EXCEPT !.step = step])
  BY DEF Goto, Becomes
<1>4. QED
  BY <1>1, <1>2, <1>3

\* _admit: while the account is in credit, or blindly when the check has failed.
LEMMA AdmitStep ==
    ASSUME Bounds, GatewayInv, NEW c \in Calls, NEW u \in Users, NEW f \in Faces, Admit(c, u, f)
    PROVE  GatewayInv'
<1> DEFINE r == [step |-> "body", user |-> u, face |-> f, begun |-> FALSE, given |-> FALSE]
<1>1. Typed /\ SlotsMatch /\ BillInv /\ BilledTruthfully /\ OverdraftIsPending
  BY DEF GatewayInv
<1>2. r \in Call /\ Becomes(c, r) /\ call[c].step = "idle"
  BY FacesAreFaces DEF Call, Steps, Admit, Becomes, At
<1>3. Typed'
  BY <1>1, <1>2 DEF Typed, Admit, Fails, Becomes, Bounds
<1>4. SlotsMatch'
  <2>1. \A v \in Users : Holds(r, v) = Holds(call[c], v)
    BY <1>2 DEF Holds, Serving
  <2>2. UNCHANGED inflight
    BY DEF Admit
  <2> HIDE DEF r
  <2>3. QED
    BY ONLY <1>1, <1>2, <2>1, <2>2, SlotsKept, c \in Calls
<1>5. BillInv' /\ BilledTruthfully'
  <2>1. call[c].step # "ended" /\ UNCHANGED <<bills, wasted>>
    BY <1>2 DEF Admit
  <2>2. QED
    BY <1>1, <1>2, <2>1, MovedUnbilled
<1>6. OverdraftIsPending'
  <2>1. \A d \in Calls, v \in Users :
           IsOpen(call'[d], v) <=> IsOpen(call[d], v) \/ (d = c /\ v = u)
    BY <1>1, <1>2 DEF Becomes, Typed, IsOpen, Serving
  <2>2. \A v \in Users : v # u => Open(v)' \subseteq Open(v)
    BY <2>1 DEF Open, IsOpen
  <2>3. \A v \in Users : v # u => Reasons(v)' >= Reasons(v)
    <3>1. faults' >= faults
      BY <1>1 DEF Admit, Fails, Typed, Bounds
    <3>2. QED
      BY <1>1, <1>3, <2>2, <3>1, ReasonsStay
  <2>4. balance[u] <= 0 => Reasons(u)' >= Reasons(u)
    <3> SUFFICES ASSUME balance[u] <= 0 PROVE Reasons(u)' >= Reasons(u)
      OBVIOUS
    <3>1. faults' = faults + 1
      BY DEF Admit, Blocked, Fails
    <3>2. /\ IsFiniteSet(Calls \ Open(u)) /\ Cardinality(Calls \ Open(u)) \in Nat
          /\ faults \in Nat
      BY <1>1, ReasonsAreNat
    <3>3. Open(u)' = Open(u) \union {c}
      BY <2>1 DEF Open, IsOpen
    <3>4. Calls \ Open(u)' = (Calls \ Open(u)) \ {c}
      BY <3>3
    <3>5. Cardinality(Calls \ Open(u)') >= Cardinality(Calls \ Open(u)) - 1
      <4>1. CASE c \in Calls \ Open(u)
        <5>1. Cardinality((Calls \ Open(u)) \ {c}) = Cardinality(Calls \ Open(u)) - 1
          BY ONLY <3>2, <4>1, FS_RemoveElement
        <5>2. QED
          BY ONLY <3>2, <3>4, <5>1
      <4>2. CASE c \notin Calls \ Open(u)
        <5>1. Calls \ Open(u)' = Calls \ Open(u)
          BY <3>4, <4>2
        <5>2. QED
          BY ONLY <3>2, <5>1
      <4>3. QED
        BY <4>1, <4>2
    <3>6. IsFiniteSet(Calls \ Open(u)')
      BY <3>2, <3>4, FS_RemoveElement
    <3>7. Cardinality(Calls \ Open(u)') \in Nat
      BY <3>6, FS_CardinalityType
    <3>8. QED
      BY <3>1, <3>2, <3>5, <3>7 DEF Reasons
  <2>5. UNCHANGED balance /\ \A v \in Users : balance[v] >= balance[v]
    BY <1>1 DEF Admit, Typed
  <2>6. QED
    BY <1>1, <1>3, <2>3, <2>4, <2>5, OwesNoMore
<1>7. QED
  BY <1>3, <1>4, <1>5, <1>6 DEF GatewayInv

\* A step of a call that neither enters nor leaves its slot and is not billed.
LEMMA QuietStep ==
    ASSUME Bounds, GatewayInv, NEW c \in Calls, NEW r \in Call, Becomes(c, r),
           call[c] \in Call, call[c].step # "ended", Unbilled, UNCHANGED inflight,
           r.step \in Serving <=> call[c].step \in Serving,
           r.step \in {"body", "ready"} => call[c].step \in {"body", "ready"},
           r.user = call[c].user, r.face = call[c].face,
           r.step \in {"body", "ready", "asked", "asked again"} => ~r.begun /\ ~r.given,
           r.step = "streaming" => r.begun,
           r.step = "ended" => ~r.given
    PROVE  GatewayInv'
<1>1. Typed /\ SlotsMatch /\ BillInv /\ BilledTruthfully /\ OverdraftIsPending
  BY DEF GatewayInv
<1>2. Typed'
  BY <1>1, MovedTyped
<1>3. SlotsMatch'
  <2>1. \A u \in Users : Holds(r, u) = Holds(call[c], u)
    BY DEF Holds
  <2>2. QED
    BY <1>1, <2>1, SlotsKept
<1>4. BillInv' /\ BilledTruthfully'
  BY <1>1, MovedUnbilled DEF Unbilled
<1>5. OverdraftIsPending'
  <2>1. UNCHANGED balance /\ UNCHANGED faults
    BY DEF Unbilled
  <2>2. \A u \in Users : IsOpen(r, u) => IsOpen(call[c], u)
    BY DEF IsOpen
  <2>3. QED
    BY <1>1, <1>2, <2>1, <2>2, MovedOwesNoMore
<1>6. QED
  BY <1>2, <1>3, <1>4, <1>5 DEF GatewayInv

\* A body that has come, or has not.
LEMMA ReadBodyStep ==
    ASSUME Bounds, GatewayInv, NEW c \in Calls, ReadBody(c)
    PROVE  GatewayInv'
<1>1. call[c].step = "body" /\ call[c] \in Call /\ ~call[c].begun /\ ~call[c].given
  BY Underway DEF ReadBody, At, GatewayInv, BillInv
<1>2. PICK step \in {"ready", "ended"} : Goto(c, step)
  BY DEF ReadBody, End
<1>3. Becomes(c, Later(c, step)) /\ Later(c, step) \in Call
  BY <1>1, <1>2, GoneTo DEF Steps, GatewayInv
<1>4. QED
  BY <1>1, <1>3, QuietStep DEF ReadBody, Later, Serving

\* Entering the slot, or a stream that never takes its first step.
LEMMA AskStep ==
    ASSUME Bounds, GatewayInv, NEW c \in Calls, Ask(c)
    PROVE  GatewayInv'
<1>1. call[c].step = "ready" /\ call[c] \in Call /\ ~call[c].begun /\ ~call[c].given
  BY Underway DEF Ask, At, GatewayInv, BillInv
<1>2. CASE Enter(c) /\ Goto(c, "asked")
  <2>1. Typed /\ SlotsMatch /\ BillInv /\ BilledTruthfully /\ OverdraftIsPending
    BY DEF GatewayInv
  <2>2. Becomes(c, Later(c, "asked")) /\ Later(c, "asked") \in Call
    BY <1>1, <1>2, <2>1, GoneTo DEF Steps
  <2>3. /\ Unbilled /\ UNCHANGED <<bills, wasted, balance>>
        /\ UNCHANGED faults
    BY DEF Ask, Unbilled
  <2>4. Typed'
    BY <1>1, <1>2, <2>1, <2>2, <2>3, MovedTyped
  <2>5. SlotsMatch'
    BY <1>1, <1>2, <2>1, <2>2, SlotTaken DEF Later, Serving
  <2>6. BillInv' /\ BilledTruthfully'
    BY <1>1, <2>1, <2>2, <2>3, MovedUnbilled DEF Later
  <2>7. OverdraftIsPending'
    <3>1. \A u \in Users : IsOpen(Later(c, "asked"), u) => IsOpen(call[c], u)
      BY <1>1 DEF Later, IsOpen, Serving
    <3>2. QED
      BY <2>1, <2>2, <2>3, <2>4, <3>1, MovedOwesNoMore
  <2>8. QED
    BY <2>4, <2>5, <2>6, <2>7 DEF GatewayInv
<1>3. CASE UNCHANGED inflight /\ End(c)
  <2>1. Becomes(c, Later(c, "ended")) /\ Later(c, "ended") \in Call
    BY <1>1, <1>3, GoneTo DEF Steps, GatewayInv, End
  <2>2. QED
    BY <1>1, <1>3, <2>1, QuietStep DEF Ask, Later, Serving
<1>4. QED
  BY <1>2, <1>3 DEF Ask

\* A second try keeps the slot.
LEMMA TryAgainStep ==
    ASSUME Bounds, GatewayInv, NEW c \in Calls, TryAgain(c)
    PROVE  GatewayInv'
<1>1. call[c].step = "asked" /\ call[c] \in Call /\ ~call[c].begun /\ ~call[c].given
  BY Underway DEF TryAgain, At, GatewayInv, BillInv
<1>2. Becomes(c, Later(c, "asked again")) /\ Later(c, "asked again") \in Call
  BY <1>1, GoneTo DEF Steps, GatewayInv, TryAgain
<1>3. QED
  BY <1>1, <1>2, QuietStep DEF TryAgain, Later, Serving

\* A stream that begins keeps the slot and is not billed yet.
LEMMA StreamBeginsStep ==
    ASSUME Bounds, GatewayInv, NEW c \in Calls, StreamBegins(c)
    PROVE  GatewayInv'
<1> DEFINE r == [call[c] EXCEPT !.step = "streaming", !.begun = TRUE]
<1>1. call[c].step \in {"asked", "asked again"} /\ call[c] \in Call
  BY Underway DEF StreamBegins, At, GatewayInv
<1>2. /\ r \in Call /\ r.step = "streaming" /\ r.begun
      /\ r.user = call[c].user /\ r.face = call[c].face
  BY <1>1 DEF Call, Steps
<1>3. Becomes(c, r)
  BY DEF Becomes, StreamBegins, GatewayInv, Typed
<1> HIDE DEF r
<1>4. QED
  BY <1>1, <1>2, <1>3, QuietStep DEF StreamBegins, Serving

\* Nor does it leave the slot when it forwards something.
LEMMA ForwardStep ==
    ASSUME Bounds, GatewayInv, NEW c \in Calls, Forward(c)
    PROVE  GatewayInv'
<1> DEFINE r == [call[c] EXCEPT !.given = TRUE]
<1>1. call[c].step = "streaming" /\ call[c] \in Call /\ call[c].begun
  BY Underway DEF Forward, At, GatewayInv, BillInv
<1>2. /\ r \in Call /\ r.step = "streaming" /\ r.begun
      /\ r.user = call[c].user /\ r.face = call[c].face
  BY <1>1 DEF Call, Steps
<1>3. Becomes(c, r)
  BY DEF Becomes, Forward
<1> HIDE DEF r
<1>4. QED
  BY <1>1, <1>2, <1>3, QuietStep DEF Forward, Serving

\* Every way to end gives the slot back; what the step says of the bill decides
\* the rest.
LEMMA EndStep ==
    ASSUME Bounds, GatewayInv, NEW c \in Calls, NEW r \in Call, Becomes(c, r), Leave(c),
           call[c] \in Call, call[c].step \in Serving, r.step = "ended",
           \/ Unbilled /\ (r.given => r.face.free)
           \/ Bill(c) /\ r.begun
    PROVE  GatewayInv'
<1>1. Typed /\ SlotsMatch /\ BillInv /\ BilledTruthfully /\ OverdraftIsPending
  BY DEF GatewayInv
<1>2. SlotsMatch'
  BY <1>1, SlotReturned DEF Serving
<1>3. bills[c] = 0 /\ c \notin wasted
  BY <1>1 DEF BillInv, At, Serving
<1>4. inflight' \in [Users -> Nat] /\ call' \in [Calls -> {Nobody} \union Call]
  <2>1. inflight' \in [Users -> Nat]
    BY <1>1, LeaveTyped
  <2>2. call' \in [Calls -> {Nobody} \union Call]
    BY <1>1 DEF Becomes, Typed
  <2>3. QED
    BY <2>1, <2>2
<1>5. /\ \A u \in Users : IsOpen(r, u) => IsOpen(call[c], u)
      /\ \A u \in Users : ~IsOpen(r, u)
      /\ IsOpen(call[c], call[c].user) /\ call[c].user \in Users
  BY DEF IsOpen, Serving, Call
<1>6. CASE Unbilled /\ (r.given => r.face.free)
  <2>1. UNCHANGED <<bills, wasted>> /\ UNCHANGED balance /\ UNCHANGED faults
    BY <1>6 DEF Unbilled
  <2>2. Typed'
    BY <1>1, <1>4, <2>1 DEF Typed
  <2>3. BillInv' /\ BilledTruthfully'
    <3>1. call[c].step # "ended"
      BY DEF Serving
    <3>2. QED
      BY <1>1, <1>6, <2>1, <3>1, MovedUnbilled
  <2>4. OverdraftIsPending'
    BY <1>1, <1>5, <2>1, <2>2, MovedOwesNoMore
  <2>5. QED
    BY <1>2, <2>2, <2>3, <2>4 DEF GatewayInv
<1>7. ASSUME NEW price \in 1..MaxPrice, Pays(c, price), r.begun
      PROVE  GatewayInv'
  <2>1. /\ bills' = [bills EXCEPT ![c] = bills[c] + 1] /\ UNCHANGED wasted /\ UNCHANGED faults
        /\ balance' = [balance EXCEPT ![call[c].user] = balance[call[c].user] - price]
    BY <1>7 DEF Pays
  <2>2. Typed'
    BY <1>1, <1>4, <1>5, <2>1 DEF Typed, Bounds
  <2>3. bills'[c] = 1 /\ \A d \in Calls \ {c} : bills'[d] = bills[d]
    BY <1>1, <1>3, <2>1 DEF Typed
  <2>4. Settled(r, bills'[c], c \in wasted')
    BY <1>7, <2>3 DEF Settled
  <2>5. BillInv' /\ BilledTruthfully'
    BY <1>1, <2>1, <2>3, <2>4, BilledAsItEnds
  <2>6. OverdraftIsPending'
    BY <1>1, <1>5, <1>7, <2>2, OwesForTheCall
  <2>7. QED
    BY <1>2, <2>2, <2>5, <2>6 DEF GatewayInv
<1>8. CASE Fails /\ wasted' = wasted \union {c} /\ UNCHANGED <<balance, bills>>
  <2>1. UNCHANGED balance /\ UNCHANGED bills /\ faults' = faults + 1 /\ faults < MaxFaults
    BY <1>8 DEF Fails
  <2>2. Typed'
    BY <1>1, <1>4, <1>8, <2>1 DEF Typed, Bounds
  <2>3. Settled(r, bills'[c], c \in wasted')
    BY <1>3, <1>8, <2>1 DEF Settled
  <2>4. BillInv' /\ BilledTruthfully'
    BY <1>1, <1>8, <2>1, <2>3, BilledAsItEnds
  <2>5. OverdraftIsPending'
    BY <1>1, <1>5, <2>1, <2>2, MovedOwesNoMore
  <2>6. QED
    BY <1>2, <2>2, <2>4, <2>5 DEF GatewayInv
<1>9. QED
  BY <1>6, <1>7, <1>8 DEF Bill

\* What was refused never began and costs nothing.
LEMMA RefusedStep ==
    ASSUME Bounds, GatewayInv, NEW c \in Calls, Refused(c)
    PROVE  GatewayInv'
<1>1. /\ call[c].step \in {"asked", "asked again"} /\ call[c] \in Call
      /\ ~call[c].begun /\ ~call[c].given
  BY Underway DEF Refused, At, GatewayInv, BillInv
<1>2. Becomes(c, Later(c, "ended")) /\ Later(c, "ended") \in Call
  BY <1>1, GoneTo DEF Steps, GatewayInv, Refused, End
<1>3. QED
  BY <1>1, <1>2, EndStep DEF Refused, Later, Serving

\* A whole answer is billed before it is given, and not given when its bill is lost.
LEMMA AnsweredStep ==
    ASSUME Bounds, GatewayInv, NEW c \in Calls, Answered(c)
    PROVE  GatewayInv'
<1> DEFINE r == [call[c] EXCEPT !.step = "ended", !.begun = TRUE, !.given = wasted' = wasted]
<1>1. call[c].step \in {"asked", "asked again"} /\ call[c] \in Call
  BY Underway DEF Answered, At, GatewayInv
<1>2. r \in Call /\ r.step = "ended" /\ r.begun /\ r.face = call[c].face
  BY <1>1 DEF Call, Steps
<1>3. Becomes(c, r)
  BY DEF Becomes, Answered, GatewayInv, Typed
<1> HIDE DEF r
<1>4. (Unbilled /\ call[c].face.free) \/ Bill(c)
  BY DEF Answered
<1>5. Leave(c) /\ call[c].step \in Serving
  BY <1>1 DEF Answered, Serving
<1>6. QED
  BY <1>1, <1>2, <1>3, <1>4, <1>5, EndStep

\* A stream is billed however it ends, unless it ran dry without a byte.
LEMMA StreamEndsStep ==
    ASSUME Bounds, GatewayInv, NEW c \in Calls, StreamEnds(c)
    PROVE  GatewayInv'
<1>1. call[c].step = "streaming" /\ call[c] \in Call /\ call[c].begun
  BY Underway DEF StreamEnds, At, GatewayInv, BillInv
<1>2. Becomes(c, Later(c, "ended")) /\ Later(c, "ended") \in Call
  BY <1>1, GoneTo DEF Steps, GatewayInv, StreamEnds, End
<1>3. /\ Later(c, "ended").given = call[c].given /\ Later(c, "ended").begun = call[c].begun
      /\ Later(c, "ended").step = "ended"
  BY DEF Later
<1>4. Bill(c) \/ (Unbilled /\ ~call[c].given)
  BY DEF StreamEnds
<1>5. Leave(c) /\ call[c].step \in Serving
  BY <1>1 DEF StreamEnds, Serving
<1>6. QED
  BY <1>1, <1>2, <1>3, <1>4, <1>5, EndStep

\* The place of a call that has ended is free for another.
LEMMA HangupStep ==
    ASSUME Bounds, GatewayInv, NEW c \in Calls, Hangup(c)
    PROVE  GatewayInv'
<1>1. Typed /\ SlotsMatch /\ BillInv /\ BilledTruthfully /\ OverdraftIsPending
  BY DEF GatewayInv
<1>2. Becomes(c, Nobody) /\ Nobody.step = "idle" /\ call[c].step = "ended"
  BY DEF Hangup, Becomes, Nobody, At
<1>3. Typed'
  BY <1>1 DEF Typed, Hangup
<1>4. SlotsMatch'
  <2>1. \A u \in Users : Holds(Nobody, u) = Holds(call[c], u)
    BY <1>2 DEF Holds, Serving
  <2>2. QED
    BY <1>1, <1>2, <2>1, SlotsKept DEF Hangup
<1>5. BillInv' /\ BilledTruthfully'
  <2>1. /\ bills'[c] = 0 /\ c \notin wasted'
        /\ \A d \in Calls \ {c} : bills'[d] = bills[d] /\ (d \in wasted' <=> d \in wasted)
    BY <1>1 DEF Hangup, Typed
  <2>2. QED
    BY <1>1, <1>2, <2>1, BilledAsItEnds
<1>6. OverdraftIsPending'
  <2>1. \A u \in Users : IsOpen(Nobody, u) => IsOpen(call[c], u)
    BY <1>2 DEF IsOpen, Serving
  <2>2. QED
    BY <1>1, <1>2, <1>3, <2>1, MovedOwesNoMore DEF Hangup
<1>7. QED
  BY <1>3, <1>4, <1>5, <1>6 DEF GatewayInv

\* Money that comes in makes no debt deeper.
LEMMA TopUpStep ==
    ASSUME Bounds, GatewayInv, NEW u \in Users, TopUp(u)
    PROVE  GatewayInv'
<1>1. Typed /\ SlotsMatch /\ BillInv /\ BilledTruthfully /\ OverdraftIsPending
  BY DEF GatewayInv
<1>2. PICK b \in balance[u] + 1..MaxBalance : balance' = [balance EXCEPT ![u] = b]
  BY DEF TopUp
<1>3. b \in Int /\ b <= MaxBalance /\ b >= balance[u]
  BY <1>1, <1>2 DEF Typed, Bounds
<1>4. Typed'
  BY <1>1, <1>2, <1>3 DEF Typed, TopUp
<1>5. SlotsMatch' /\ BillInv' /\ BilledTruthfully'
  BY <1>1 DEF TopUp, SlotsMatch, BillInv, BilledTruthfully, At
<1>6. OverdraftIsPending'
  <2>1. \A v \in Users : balance'[v] >= balance[v]
    BY <1>1, <1>2, <1>3 DEF Typed
  <2>2. \A v \in Users : Reasons(v)' = Reasons(v) /\ Reasons(v) \in Nat
    BY <1>1, ReasonsAreNat DEF TopUp, Reasons, Open
  <2>3. \A v \in Users : Reasons(v)' >= Reasons(v)
    BY <2>2
  <2>4. QED
    BY <1>1, <1>4, <2>1, <2>3, OwesNoMore
<1>7. QED
  BY <1>4, <1>5, <1>6 DEF GatewayInv

\* A restart frees every slot, together with the calls that held them.
LEMMA RestartStep ==
    ASSUME Bounds, GatewayInv, Restart
    PROVE  GatewayInv'
<1>1. Typed /\ OverdraftIsPending
  BY DEF GatewayInv
<1>2. \A c \in Calls : call'[c].step = "idle"
  BY DEF Restart, Nobody
<1>3. Typed'
  BY <1>1 DEF Typed, Restart
<1>4. SlotsMatch'
  <2>1. \A u \in Users : {c \in Calls : Holds(call'[c], u)} = {}
    BY <1>2 DEF Holds, Serving
  <2>2. \A u \in Users : inflight'[u] = 0
    BY DEF Restart
  <2>3. QED
    BY <2>1, <2>2, FS_EmptySet DEF SlotsMatch, Holds
<1>5. BillInv' /\ BilledTruthfully'
  BY <1>2 DEF BillInv, BilledTruthfully, At, Restart
<1>6. OverdraftIsPending'
  <2>1. \A u \in Users : Open(u)' = {}
    BY <1>2 DEF Open, Serving
  <2>2. faults' >= faults
    BY <1>1 DEF Restart, Typed, Bounds
  <2>3. \A u \in Users : Reasons(u)' >= Reasons(u)
    BY <1>1, <1>3, <2>1, <2>2, ReasonsStay
  <2>4. \A u \in Users : balance'[u] >= balance[u]
    BY <1>1 DEF Restart, Typed
  <2>5. QED
    BY <1>1, <1>3, <2>3, <2>4, OwesNoMore
<1>7. QED
  BY <1>3, <1>4, <1>5, <1>6 DEF GatewayInv

-----------------------------------------------------------------------------
(* The theorems.                                                            *)

\* Nothing is in flight and everybody is in credit when the gateway starts.
LEMMA GatewayInvInit == ASSUME Bounds, Init PROVE GatewayInv
<1>1. \A c \in Calls : call[c].step = "idle"
  BY DEF Init, Nobody
<1>2. Typed
  BY DEF Init, Typed, Bounds
<1>3. SlotsMatch
  <2>1. \A u \in Users : {c \in Calls : Holds(call[c], u)} = {}
    BY <1>1 DEF Holds, Serving
  <2>2. \A u \in Users : inflight[u] = 0
    BY DEF Init
  <2>3. QED
    BY <2>1, <2>2, FS_EmptySet DEF SlotsMatch, Holds
<1>4. BillInv /\ BilledTruthfully
  BY <1>1 DEF BillInv, BilledTruthfully, At, Init
<1>5. OverdraftIsPending
  <2>1. \A u \in Users : balance[u] > 0
    BY DEF Init, Bounds
  <2>2. QED
    BY <1>2, <2>1 DEF OverdraftIsPending, Typed
<1>6. QED
  BY <1>2, <1>3, <1>4, <1>5 DEF GatewayInv

\* Every step keeps the invariant.
LEMMA GatewayInvStep == ASSUME Bounds, GatewayInv, [Next]_gatewayVars PROVE GatewayInv'
<1>1. CASE UNCHANGED gatewayVars
  BY <1>1 DEF gatewayVars, GatewayInv, Typed, SlotsMatch, BillInv, BilledTruthfully,
      OverdraftIsPending, Open, At
<1>2. ASSUME NEW c \in Calls, Serve(c) PROVE GatewayInv'
  BY <1>2, ReadBodyStep, AskStep, RefusedStep, TryAgainStep, AnsweredStep, StreamBeginsStep,
     ForwardStep, StreamEndsStep, HangupStep DEF Serve
<1>3. QED
  BY <1>1, <1>2, AdmitStep, TopUpStep, RestartStep DEF Next

\* The invariant holds in every reachable state.
LEMMA GatewayInvAlways == ASSUME Bounds PROVE Spec => []GatewayInv
<1>1. Init => GatewayInv
  BY GatewayInvInit
<1>2. GatewayInv /\ [Next]_gatewayVars => GatewayInv'
  BY GatewayInvStep
<1>3. QED
  BY <1>1, <1>2, PTL DEF Spec

\* Every reachable state of the gateway is well-typed; debts are bounded, since
\* each has its reason in a call or in a failure.
THEOREM TypeCorrect == ASSUME Bounds PROVE Spec => []TypeOK
<1>1. GatewayInv => TypeOK
  <2> SUFFICES ASSUME GatewayInv PROVE TypeOK
    OBVIOUS
  <2>1. Typed /\ OverdraftIsPending
    BY DEF GatewayInv
  <2>2. ASSUME NEW u \in Users PROVE balance[u] \in Balances
    <3>1. /\ IsFiniteSet(Calls \ Open(u)) /\ Cardinality(Calls \ Open(u)) \in Nat
          /\ faults \in Nat /\ Reasons(u) \in Nat
      BY <2>1, ReasonsAreNat
    <3>2. Cardinality(Calls \ Open(u)) <= Cardinality(Calls) /\ Cardinality(Calls) \in Nat
      <4>1. Calls \ Open(u) \in SUBSET Calls
        OBVIOUS
      <4>2. QED
        BY <4>1, FS_Subset, FS_CardinalityType DEF Bounds
    <3>3. Reasons(u) <= Cardinality(Calls) + MaxFaults
      BY <2>1, <3>1, <3>2 DEF Reasons, Typed, Bounds
    <3>4. /\ MaxPrice * Reasons(u) <= MaxPrice * (Cardinality(Calls) + MaxFaults)
          /\ MaxPrice * Reasons(u) \in Nat /\ MaxPrice * (Cardinality(Calls) + MaxFaults) \in Nat
      <4>1. Cardinality(Calls) + MaxFaults \in Nat
        BY <3>2 DEF Bounds
      <4>2. QED
        BY <3>1, <3>3, <4>1, MoreReasons DEF Bounds
    <3>5. balance[u] <= 0 => balance[u] > 0 - MaxPrice * Reasons(u)
      BY <2>1 DEF OverdraftIsPending, Reasons
    <3>6. balance[u] \in Int /\ balance[u] <= MaxBalance
      BY <2>1 DEF Typed
    <3>7. QED
      BY <3>4, <3>5, <3>6 DEF Balances, Bounds
  <2>3. QED
    BY <2>1, <2>2 DEF TypeOK, Typed, Call
<1>2. Spec => []GatewayInv
  BY GatewayInvAlways
<1>3. QED
  BY <1>1, <1>2, PTL

\* _Slot: the counter that decides over admission is the number of calls that
\* hold a slot, for any number of calls, however and in whatever order they end.
THEOREM EverySlotIsGivenBack == ASSUME Bounds PROVE Spec => []SlotsMatch
<1>1. GatewayInv => SlotsMatch
  BY DEF GatewayInv
<1>2. Spec => []GatewayInv
  BY GatewayInvAlways
<1>3. QED
  BY <1>1, <1>2, PTL

\* gateway.py:18-21: what was given is billed once, and what never began is not.
THEOREM BilledOnce == ASSUME Bounds PROVE Spec => []BilledTruthfully
<1>1. GatewayInv => BilledTruthfully
  BY DEF GatewayInv
<1>2. Spec => []GatewayInv
  BY GatewayInvAlways
<1>3. QED
  BY <1>1, <1>2, PTL

\* gateway.py:18-21: an overdraft is never deeper than what was asked for while
\* the account was in credit, or let in by a failed check.
THEOREM OverdraftIsBounded == ASSUME Bounds PROVE Spec => []OverdraftIsPending
<1>1. GatewayInv => OverdraftIsPending
  BY DEF GatewayInv
<1>2. Spec => []GatewayInv
  BY GatewayInvAlways
<1>3. QED
  BY <1>1, <1>2, PTL

-----------------------------------------------------------------------------
(* Intake.                                                                  *)

CONSTANTS Transfers, Clients, MAX_CONCURRENT, PER_IP, Requests, Small, Large
VARIABLES active, transfer, slow, request, open
Door == INSTANCE Intake

\* There are finitely many downloads and addresses, and the limits are numbers.
Doors ==
    /\ IsFiniteSet(Transfers) /\ IsFiniteSet(Clients)
    /\ MAX_CONCURRENT \in Nat /\ PER_IP \in Nat /\ Small \in Nat

Loads == [step : {"sending", "sent"}, ip : Clients, old : BOOLEAN]
Bodies == [step : {"read", "handle", "forward", "pipe"}, kind : Door!Kinds, seen : Int, known : BOOLEAN]

\* As long as no download went on for too long, the slots are the downloads.
DoorInv ==
    /\ active \in [Clients -> [fresh : Nat, stale : Nat]]
    /\ transfer \in [Transfers -> {Door!NoTransfer} \union Loads]
    /\ slow \in BOOLEAN
    /\ ~slow => /\ Cardinality(Door!Slots) = Cardinality(Door!Sending)
                /\ \A a \in Clients : active[a].fresh = Cardinality(Door!From(a))
                /\ Cardinality(Door!Sending) <= MAX_CONCURRENT
                /\ \A a \in Clients : Cardinality(Door!From(a)) <= PER_IP

\* What a stranger's call has read: nothing, or a small body.
BodyInv ==
    /\ request \in [Requests -> {Door!NoRequest} \union Bodies]
    /\ \A r \in Requests : request[r] # Door!NoRequest /\ ~request[r].known =>
          IF request[r].kind = "gateway" THEN request[r].step = "handle" /\ request[r].seen = 0
          ELSE request[r].seen <= Small
    /\ open \subseteq Requests /\ \A r \in open : request[r].step \in {"forward", "pipe"}

\* The instance counts as this module does.
LEMMA SameCount == \A S : Door!Cardinality(S) = Cardinality(S)
BY DEF Door!Cardinality, Cardinality

\* Downloads are finitely many.
LEMMA LoadsAreFinite ==
    ASSUME Doors, DoorInv
    PROVE  /\ IsFiniteSet(Door!Sending) /\ IsFiniteSet(Door!Slots)
           /\ \A a \in Clients : /\ IsFiniteSet(Door!From(a)) /\ Door!From(a) \subseteq Door!Sending
                                 /\ Cardinality(Door!From(a)) <= Cardinality(Transfers)
           /\ Cardinality(Transfers) \in Nat
<1>1. IsFiniteSet(Door!Sending)
  BY FS_Subset DEF Door!Sending, Doors
<1>2. ASSUME NEW a \in Clients
      PROVE  /\ IsFiniteSet(Door!From(a)) /\ Door!From(a) \subseteq Door!Sending
             /\ Cardinality(Door!From(a)) <= Cardinality(Transfers)
  <2>1. Door!From(a) \subseteq Transfers /\ Door!From(a) \subseteq Door!Sending
    BY DEF Door!From, Door!Sending
  <2>2. QED
    BY <2>1, FS_Subset DEF Doors
<1>3. Cardinality(Transfers) \in Nat
  BY FS_CardinalityType DEF Doors
<1>4. IsFiniteSet(Clients \X (1..Cardinality(Transfers)))
  <2>1. IsFiniteSet(1..Cardinality(Transfers))
    BY <1>3, FS_Interval
  <2>2. IsFiniteSet(Clients)
    BY DEF Doors
  <2>3. QED
    BY <2>1, <2>2, FS_Product
<1>5. IsFiniteSet(Door!Slots)
  <2>1. Door!Slots \subseteq Clients \X (1..Cardinality(Transfers))
    BY SameCount DEF Door!Slots
  <2>2. QED
    BY <1>4, <2>1, FS_Subset
<1>6. QED
  BY <1>1, <1>2, <1>3, <1>5

\* Nothing goes on yet.
LEMMA DoorBegins == Doors /\ Door!Init => DoorInv
<1>1. SUFFICES ASSUME Doors, Door!Init PROVE DoorInv
  OBVIOUS
<1>2. Door!Sending = {} /\ Door!Slots = {} /\ \A a \in Clients : Door!From(a) = {}
  BY <1>1 DEF Door!Init, Door!Sending, Door!Slots, Door!From, Door!NoTransfer
<1>3. Cardinality({}) = 0
  BY FS_EmptySet
<1>4. active \in [Clients -> [fresh : Nat, stale : Nat]] /\ \A a \in Clients : active[a].fresh = 0
  BY <1>1 DEF Door!Init
<1>5. transfer \in [Transfers -> {Door!NoTransfer} \union Loads] /\ slow \in BOOLEAN
  BY <1>1 DEF Door!Init
<1>6. MAX_CONCURRENT >= 0 /\ PER_IP >= 0
  BY <1>1 DEF Doors
<1>7. QED
  BY <1>2, <1>3, <1>4, <1>5, <1>6 DEF DoorInv

LEMMA BodyBegins == Door!Init => BodyInv
BY DEF Door!Init, BodyInv

\* A download is let in only where there is room, and takes a slot.
LEMMA DoorArrives ==
    ASSUME Doors, DoorInv, NEW t \in Transfers, NEW ip \in Clients, Door!Arrive(t, ip)
    PROVE  DoorInv'
<1>1. UNCHANGED slow /\ slow \in BOOLEAN /\ transfer[t] = Door!NoTransfer
  BY DEF DoorInv, Door!Arrive
<1>2. CASE Door!Refused(ip)
  <2>1. /\ active' \in [Clients -> [fresh : Nat, stale : Nat]] /\ UNCHANGED transfer
        /\ \A a \in Clients : active'[a].fresh = active[a].fresh
    BY <1>2 DEF DoorInv, Door!Arrive, Door!Fresh
  <2>2. Door!Slots' = Door!Slots
    BY <2>1 DEF Door!Slots
  <2>3. Door!Sending' = Door!Sending /\ \A a \in Clients : Door!From(a)' = Door!From(a)
    BY <2>1 DEF Door!Sending, Door!From
  <2>4. QED
    BY <1>1, <2>1, <2>2, <2>3 DEF DoorInv
<1>3. CASE ~Door!Refused(ip)
  <2> DEFINE new == [step |-> "sending", ip |-> ip, old |-> FALSE]
  <2>1. new \in Loads /\ new.step = "sending" /\ new.ip = ip
    BY DEF Loads
  <2>2. transfer' = [transfer EXCEPT ![t] = new] /\ active' = [Door!Fresh EXCEPT ![ip].fresh = @ + 1]
    BY <1>3 DEF Door!Arrive
  <2> HIDE DEF new
  <2>3. /\ transfer' \in [Transfers -> {Door!NoTransfer} \union Loads] /\ transfer'[t] = new
        /\ \A u \in Transfers \ {t} : transfer'[u] = transfer[u]
    BY <2>1, <2>2 DEF DoorInv
  <2>4. /\ active' \in [Clients -> [fresh : Nat, stale : Nat]]
        /\ active'[ip].fresh = active[ip].fresh + 1
        /\ \A a \in Clients \ {ip} : active'[a].fresh = active[a].fresh
    BY <2>2 DEF DoorInv, Door!Fresh
  <2>5. /\ Door!Sending' = Door!Sending \union {t} /\ t \notin Door!Sending
        /\ Door!From(ip)' = Door!From(ip) \union {t} /\ t \notin Door!From(ip)
        /\ \A a \in Clients \ {ip} : Door!From(a)' = Door!From(a)
    BY <1>1, <2>1, <2>3 DEF Door!Sending, Door!From, Door!NoTransfer
  <2>6. ASSUME ~slow
        PROVE  /\ Cardinality(Door!Slots)' = Cardinality(Door!Sending)'
               /\ \A a \in Clients : active'[a].fresh = Cardinality(Door!From(a))'
               /\ Cardinality(Door!Sending)' <= MAX_CONCURRENT
               /\ \A a \in Clients : Cardinality(Door!From(a))' <= PER_IP
    <3>1. /\ IsFiniteSet(Door!Sending) /\ IsFiniteSet(Door!Slots) /\ IsFiniteSet(Door!From(ip))
          /\ Cardinality(Transfers) \in Nat
      BY LoadsAreFinite
    <3>2. /\ Cardinality(Door!Slots) = Cardinality(Door!Sending)
          /\ \A a \in Clients : active[a].fresh = Cardinality(Door!From(a))
          /\ Cardinality(Door!Sending) < MAX_CONCURRENT /\ Cardinality(Door!From(ip)) < PER_IP
          /\ Cardinality(Door!Sending) \in Nat /\ Cardinality(Door!From(ip)) \in Nat
      <4>1. Cardinality(Door!Sending) \in Nat /\ Cardinality(Door!From(ip)) \in Nat
        BY <3>1, FS_CardinalityType
      <4>2. /\ Cardinality(Door!Slots) = Cardinality(Door!Sending)
            /\ \A a \in Clients : active[a].fresh = Cardinality(Door!From(a))
        BY <2>6 DEF DoorInv
      <4>3. ~(Cardinality(Door!Slots) >= MAX_CONCURRENT) /\ ~(active[ip].fresh >= PER_IP)
        BY <1>3, SameCount DEF Door!Refused
      <4>4. QED
        BY <4>1, <4>2, <4>3 DEF Doors
    <3>3. /\ Cardinality(Door!Sending)' = Cardinality(Door!Sending) + 1
          /\ Cardinality(Door!From(ip))' = Cardinality(Door!From(ip)) + 1
      BY <2>5, <3>1, FS_AddElement
    <3>4. active[ip].fresh + 1 \in 1..Cardinality(Transfers)
      <4>1. Door!From(ip)' \subseteq Transfers
        BY DEF Door!From, Door!Sending
      <4>2. Cardinality(Door!From(ip))' <= Cardinality(Transfers)
        BY <4>1, FS_Subset DEF Doors
      <4>3. QED
        BY <3>1, <3>2, <3>3, <4>2
    <3>5. /\ Door!Slots' = Door!Slots \union {<<ip, active[ip].fresh + 1>>}
          /\ <<ip, active[ip].fresh + 1>> \notin Door!Slots
      BY <2>4, <3>1, <3>4, SameCount DEF Door!Slots, DoorInv
    <3>6. Cardinality(Door!Slots)' = Cardinality(Door!Slots) + 1
      BY <3>1, <3>5, FS_AddElement
    <3>7. \A a \in Clients : active'[a].fresh = Cardinality(Door!From(a))'
      BY <2>4, <2>5, <3>2, <3>3
    <3>8. Cardinality(Door!Sending)' <= MAX_CONCURRENT
      BY <3>2, <3>3 DEF Doors
    <3>9. ASSUME NEW a \in Clients PROVE Cardinality(Door!From(a))' <= PER_IP
      <4>1. CASE a = ip
        BY <3>2, <3>3, <4>1 DEF Doors
      <4>2. CASE a # ip
        BY <2>5, <2>6, <4>2 DEF DoorInv
      <4>3. QED
        BY <4>1, <4>2
    <3>10. QED
      BY <3>2, <3>3, <3>6, <3>7, <3>8, <3>9
  <2>7. QED
    BY <1>1, <2>3, <2>4, <2>6 DEF DoorInv
<1>4. QED
  BY <1>2, <1>3

\* A download ends, once, and gives a slot of its address back.
LEMMA DoorEnds ==
    ASSUME Doors, DoorInv, NEW t \in Transfers, transfer[t].step = "sending",
           Door!Release(transfer[t].ip), NEW new \in {Door!NoTransfer} \union Loads,
           transfer' = [transfer EXCEPT ![t] = new], new.step # "sending", UNCHANGED slow
    PROVE  DoorInv'
<1>1. PICK ip \in Clients : ip = transfer[t].ip
  <2>1. transfer[t] \in Loads
    BY DEF DoorInv, Door!NoTransfer
  <2>2. QED
    BY <2>1 DEF Loads
<1>2. /\ transfer' \in [Transfers -> {Door!NoTransfer} \union Loads] /\ transfer'[t] = new
      /\ \A u \in Transfers \ {t} : transfer'[u] = transfer[u]
  BY DEF DoorInv
<1>3. /\ Door!Sending' = Door!Sending \ {t} /\ t \in Door!Sending
      /\ Door!From(ip)' = Door!From(ip) \ {t} /\ t \in Door!From(ip)
      /\ \A a \in Clients \ {ip} : Door!From(a)' = Door!From(a)
  <2>1. /\ Door!Sending' = Door!Sending \ {t} /\ t \in Door!Sending
    BY <1>2 DEF Door!Sending
  <2>2. \A u \in Door!Sending' : u \in Door!Sending /\ transfer'[u] = transfer[u]
    BY <1>2, <2>1 DEF Door!Sending
  <2>3. /\ Door!From(ip)' = Door!From(ip) \ {t} /\ t \in Door!From(ip)
        /\ \A a \in Clients \ {ip} : Door!From(a)' = Door!From(a)
    BY <1>1, <2>1, <2>2 DEF Door!From
  <2>4. QED
    BY <2>1, <2>3
<1>0. Door!Release(ip)
  BY <1>1
<1>4. /\ active' \in [Clients -> [fresh : Nat, stale : Nat]]
      /\ active[ip].fresh > 0 => active'[ip].fresh = active[ip].fresh - 1
      /\ \A a \in Clients \ {ip} : active'[a].fresh = active[a].fresh
  <2>1. active[ip].fresh \in Nat /\ active[ip].stale \in Nat
    BY <1>1 DEF DoorInv
  <2>2. CASE active[ip].fresh > 0 /\ active' = [active EXCEPT ![ip].fresh = @ - 1]
    BY <1>1, <2>1, <2>2 DEF DoorInv
  <2>3. CASE active[ip].fresh = 0 /\ active[ip].stale > 0 /\ active' = [active EXCEPT ![ip].stale = @ - 1]
    BY <1>1, <2>1, <2>3 DEF DoorInv
  <2>4. CASE active[ip].fresh = 0 /\ active' = active
    BY <1>1, <2>1, <2>4 DEF DoorInv
  <2> DEFINE young == [active EXCEPT ![ip].fresh = @ - 1]
             other == [active EXCEPT ![ip].stale = @ - 1]
  <2>5. active' = CASE active[ip].fresh > 0 -> young
                    [] active[ip].fresh = 0 /\ active[ip].stale > 0 -> other
                    [] OTHER -> active
    BY <1>0 DEF Door!Release
  <2>6. (active[ip].fresh > 0) \/ (active[ip].fresh = 0 /\ active[ip].stale > 0)
        \/ (active[ip].fresh = 0 /\ active[ip].stale = 0)
    BY <2>1
  <2> HIDE DEF young, other
  <2>7. \/ active[ip].fresh > 0 /\ active' = young
        \/ active[ip].fresh = 0 /\ active[ip].stale > 0 /\ active' = other
        \/ active[ip].fresh = 0 /\ active' = active
    BY <2>1, <2>5, <2>6
  <2>8. QED
    BY <2>1, <2>2, <2>3, <2>4, <2>7 DEF young, other
<1>5. ASSUME ~slow
      PROVE  /\ Cardinality(Door!Slots)' = Cardinality(Door!Sending)'
             /\ \A a \in Clients : active'[a].fresh = Cardinality(Door!From(a))'
             /\ Cardinality(Door!Sending)' <= MAX_CONCURRENT
             /\ \A a \in Clients : Cardinality(Door!From(a))' <= PER_IP
  <2>1. /\ IsFiniteSet(Door!Sending) /\ IsFiniteSet(Door!Slots) /\ IsFiniteSet(Door!From(ip))
        /\ Cardinality(Transfers) \in Nat /\ Cardinality(Door!From(ip)) <= Cardinality(Transfers)
    BY <1>1, LoadsAreFinite
  <2>2. /\ Cardinality(Door!Slots) = Cardinality(Door!Sending)
        /\ \A a \in Clients : active[a].fresh = Cardinality(Door!From(a))
        /\ Cardinality(Door!Sending) \in Nat /\ Cardinality(Door!From(ip)) \in Nat
    BY <1>5, <2>1, FS_CardinalityType DEF DoorInv
  <2>3. /\ Cardinality(Door!Sending)' = Cardinality(Door!Sending) - 1
        /\ Cardinality(Door!From(ip))' = Cardinality(Door!From(ip)) - 1
    <3>1. /\ t \in Door!Sending /\ Door!Sending' = Door!Sending \ {t}
          /\ t \in Door!From(ip) /\ Door!From(ip)' = Door!From(ip) \ {t}
      BY <1>3
    <3>2. Cardinality(Door!Sending)' = Cardinality(Door!Sending) - 1
      BY ONLY <2>1, <3>1, FS_RemoveElement
    <3>3. Cardinality(Door!From(ip))' = Cardinality(Door!From(ip)) - 1
      BY ONLY <2>1, <3>1, FS_RemoveElement
    <3>4. QED
      BY ONLY <3>2, <3>3
  <2>4. active[ip].fresh \in 1..Cardinality(Transfers)
    <3>1. Cardinality(Door!From(ip)) # 0
      BY <1>3, <2>1, FS_EmptySet
    <3>2. QED
      BY <1>1, <2>1, <2>2, <3>1
  <2>5. /\ Door!Slots' = Door!Slots \ {<<ip, active[ip].fresh>>}
        /\ <<ip, active[ip].fresh>> \in Door!Slots
    <3> DEFINE last == active[ip].fresh
    <3>1. \A a \in Clients : active[a].fresh \in Int
      BY DEF DoorInv
    <3>2. active'[ip].fresh = last - 1 /\ last \in Int
      BY <1>1, <1>4, <2>4, <3>1
    <3>3. ASSUME NEW a \in Clients, NEW n \in 1..Cardinality(Transfers)
          PROVE  n <= active'[a].fresh <=> n <= active[a].fresh /\ <<a, n>> # <<ip, last>>
      <4>1. n \in Int
        BY <2>1
      <4>2. CASE a = ip
        <5>1. n <= last - 1 <=> n <= last /\ n # last
          BY <3>2, <4>1
        <5>2. QED
          BY <3>2, <4>2, <5>1
      <4>3. CASE a # ip
        BY <1>4, <4>3
      <4>4. QED
        BY <4>2, <4>3
    <3>4. <<ip, last>> \in Door!Slots
      BY <1>1, <2>4, <3>2, SameCount DEF Door!Slots
    <3>5. Door!Slots = {s \in Clients \X (1..Cardinality(Transfers)) : s[2] <= active[s[1]].fresh}
      BY SameCount DEF Door!Slots
    <3>6. Door!Slots' = {s \in Clients \X (1..Cardinality(Transfers)) : s[2] <= active'[s[1]].fresh}
      BY SameCount DEF Door!Slots
    <3> HIDE DEF last
    <3>7. ASSUME NEW s \in Clients \X (1..Cardinality(Transfers))
          PROVE  s \in Door!Slots' <=> s \in Door!Slots /\ s # <<ip, last>>
      <4>1. s = <<s[1], s[2]>> /\ s[1] \in Clients /\ s[2] \in 1..Cardinality(Transfers)
        OBVIOUS
      <4>2. s[2] <= active'[s[1]].fresh <=> s[2] <= active[s[1]].fresh /\ s # <<ip, last>>
        BY <3>3, <4>1
      <4>3. s \in Door!Slots' <=> s[2] <= active'[s[1]].fresh
        BY <3>6
      <4>4. s \in Door!Slots <=> s[2] <= active[s[1]].fresh
        BY <3>5
      <4>5. QED
        BY <4>2, <4>3, <4>4
    <3>8. /\ Door!Slots \subseteq Clients \X (1..Cardinality(Transfers))
          /\ Door!Slots' \subseteq Clients \X (1..Cardinality(Transfers))
      BY <3>5, <3>6
    <3>9. Door!Slots' = Door!Slots \ {<<ip, last>>}
      BY <3>7, <3>8
    <3>10. QED
      BY <3>4, <3>9 DEF last
  <2>6. Cardinality(Door!Slots)' = Cardinality(Door!Slots) - 1
    <3>1. PICK s \in Door!Slots : Door!Slots' = Door!Slots \ {s}
      BY ONLY <2>5
    <3>2. QED
      BY ONLY <2>1, <3>1, FS_RemoveElement
  <2>7. ASSUME NEW a \in Clients
        PROVE  active'[a].fresh = Cardinality(Door!From(a))' /\ Cardinality(Door!From(a))' <= PER_IP
    <3>1. CASE a = ip
      BY <1>1, <1>4, <1>5, <2>1, <2>2, <2>3, <2>4, <3>1 DEF Doors, DoorInv
    <3>2. CASE a # ip
      BY <1>3, <1>4, <1>5, <3>2 DEF DoorInv
    <3>3. QED
      BY <3>1, <3>2
  <2>8. Cardinality(Door!Sending)' <= MAX_CONCURRENT
    BY <1>5, <2>2, <2>3 DEF Doors, DoorInv
  <2>9. QED
    BY <2>2, <2>3, <2>6, <2>7, <2>8
<1>6. QED
  BY <1>2, <1>4, <1>5 DEF DoorInv

\* Half an hour goes by: there is nothing more to say about the limits.
LEMMA DoorAges == ASSUME DoorInv, Door!Age PROVE DoorInv'
<1>1. slow' = TRUE
  BY DEF Door!Age
<1>2. active' \in [Clients -> [fresh : Nat, stale : Nat]]
  BY DEF Door!Age, DoorInv
<1>3. ASSUME NEW u \in Transfers PROVE transfer'[u] \in {Door!NoTransfer} \union Loads
  <2>1. transfer[u] \in {Door!NoTransfer} \union Loads
    BY DEF DoorInv
  <2>2. CASE transfer[u].step = "sending"
    <3>1. transfer[u] \in Loads /\ transfer'[u] = [transfer[u] EXCEPT !.old = TRUE]
      BY <2>1, <2>2 DEF Door!Age, Door!NoTransfer
    <3>2. QED
      BY <3>1 DEF Loads
  <2>3. CASE transfer[u].step # "sending"
    BY <2>1, <2>3 DEF Door!Age
  <2>4. QED
    BY <2>2, <2>3
<1>4. transfer' \in [Transfers -> {Door!NoTransfer} \union Loads]
  BY <1>3 DEF Door!Age
<1>5. QED
  BY <1>1, <1>2, <1>4 DEF DoorInv

\* One that has sent everything leaves, and there is nothing to give back.
LEMMA DoorCloses ==
    ASSUME DoorInv, NEW t \in Transfers, transfer[t].step # "sending", UNCHANGED <<active, slow>>,
           transfer' = [transfer EXCEPT ![t] = Door!NoTransfer]
    PROVE  DoorInv'
<1>1. /\ transfer' \in [Transfers -> {Door!NoTransfer} \union Loads] /\ transfer'[t] = Door!NoTransfer
      /\ \A u \in Transfers \ {t} : transfer'[u] = transfer[u]
  BY DEF DoorInv
<1>2. /\ Door!Sending' = Door!Sending /\ Door!Slots' = Door!Slots
      /\ \A a \in Clients : Door!From(a)' = Door!From(a)
  BY <1>1 DEF Door!Sending, Door!From, Door!Slots, Door!NoTransfer
<1>3. QED
  BY <1>1, <1>2 DEF DoorInv

LEMMA DoorStaysShut == ASSUME DoorInv, UNCHANGED Door!downloads PROVE DoorInv'
<1>1. /\ Door!Sending' = Door!Sending /\ Door!Slots' = Door!Slots
      /\ \A a \in Clients : Door!From(a)' = Door!From(a)
  BY DEF Door!downloads, Door!Sending, Door!From, Door!Slots
<1>2. QED
  BY <1>1 DEF DoorInv, Door!downloads

LEMMA DoorStep == ASSUME Doors, DoorInv, [Door!Next]_(Door!intakeVars) PROVE DoorInv'
<1>1. ASSUME NEW t \in Transfers, Door!LastBytes(t) PROVE DoorInv'
  <2> DEFINE new == [transfer[t] EXCEPT !.step = "sent"]
  <2>1. transfer[t] \in Loads
    BY <1>1 DEF DoorInv, Door!LastBytes, Door!NoTransfer
  <2>2. new \in Loads /\ new.step = "sent"
    BY <2>1 DEF Loads
  <2>3. transfer' = [transfer EXCEPT ![t] = new]
    BY <1>1 DEF Door!LastBytes
  <2> HIDE DEF new
  <2>4. new \in {Door!NoTransfer} \union Loads /\ new.step # "sending"
    BY <2>2
  <2>5. transfer[t].step = "sending" /\ Door!Release(transfer[t].ip) /\ UNCHANGED slow
    BY <1>1 DEF Door!LastBytes
  <2>6. QED
    BY <2>3, <2>4, <2>5, DoorEnds
<1>2. ASSUME NEW t \in Transfers, Door!Leave(t) PROVE DoorInv'
  <2>1. transfer' = [transfer EXCEPT ![t] = Door!NoTransfer] /\ UNCHANGED slow
    BY <1>2 DEF Door!Leave
  <2>2. CASE transfer[t].step = "sending"
    <3>1. Door!Release(transfer[t].ip)
      BY <1>2, <2>2 DEF Door!Leave
    <3>2. Door!NoTransfer \in {Door!NoTransfer} \union Loads /\ Door!NoTransfer.step # "sending"
      BY DEF Door!NoTransfer
    <3>3. QED
      BY <2>1, <2>2, <3>1, <3>2, DoorEnds
  <2>3. CASE transfer[t].step # "sending"
    <3>1. UNCHANGED <<active, slow>>
      BY <1>2, <2>3 DEF Door!Leave
    <3>2. QED
      BY <2>1, <2>3, <3>1, DoorCloses
  <2>4. QED
    BY <2>2, <2>3
<1>3. ASSUME NEW r \in Requests,
             \/ Door!Chunk(r) \/ Door!Whole(r) \/ Door!GiveUp(r) \/ Door!Authenticate(r)
             \/ Door!Answer(r) \/ Door!PipeEnds(r)
             \/ \E kind \in Door!Kinds : Door!Ask(r, kind)
             \/ \E ok \in BOOLEAN : Door!Connect(r, ok) \/ Door!Forwarded(r, ok)
      PROVE  DoorInv'
  <2>1. UNCHANGED Door!downloads
    BY <1>3 DEF Door!Chunk, Door!Whole, Door!GiveUp, Door!Authenticate, Door!Answer, Door!PipeEnds,
       Door!Ask, Door!Connect, Door!Forwarded, Door!downloads
  <2>2. QED
    BY <2>1, DoorStaysShut
<1>4. CASE UNCHANGED Door!intakeVars
  <2>1. UNCHANGED Door!downloads
    BY <1>4 DEF Door!intakeVars, Door!downloads
  <2>2. QED
    BY <2>1, DoorStaysShut
<1>5. QED
  BY <1>1, <1>2, <1>3, <1>4, DoorArrives, DoorAges DEF Door!Next

\* What is expected of the record of one call.
Proper(body) ==
    \/ body = Door!NoRequest
    \/ /\ body \in Bodies
       /\ ~body.known => IF body.kind = "gateway" THEN body.step = "handle" /\ body.seen = 0
                         ELSE body.seen <= Small

\* A call changes, and none of the others does.
LEMMA BodyChanges ==
    ASSUME BodyInv, NEW r \in Requests, NEW new, Proper(new),
           request' = [request EXCEPT ![r] = new], open' \subseteq open \union {r},
           r \in open' => new.step \in {"forward", "pipe"}
    PROVE  BodyInv'
<1>1. /\ request' \in [Requests -> {Door!NoRequest} \union Bodies] /\ request'[r] = new
      /\ \A q \in Requests \ {r} : request'[q] = request[q]
  BY DEF BodyInv, Proper
<1>2. QED
  BY <1>1 DEF BodyInv, Proper

LEMMA BodyStep == ASSUME Doors, BodyInv, [Door!Next]_(Door!intakeVars) PROVE BodyInv'
<1>1. ASSUME NEW r \in Requests, request[r] # Door!NoRequest PROVE request[r] \in Bodies
  BY <1>1 DEF BodyInv
<1>2. Proper(Door!NoRequest)
  BY DEF Proper
<1>3. ASSUME NEW r \in Requests, Door!End(r), open' \subseteq open \ {r} PROVE BodyInv'
  <2>1. request' = [request EXCEPT ![r] = Door!NoRequest]
    BY <1>3 DEF Door!End
  <2>2. open' \subseteq open \union {r} /\ r \notin open'
    BY <1>3
  <2>3. QED
    BY <1>2, <2>1, <2>2, BodyChanges
<1>4. ASSUME NEW r \in Requests, NEW kind \in Door!Kinds, Door!Ask(r, kind) PROVE BodyInv'
  <2> DEFINE new == [step |-> IF Door!ReadAfterAuth(kind) THEN "handle" ELSE "read",
                     kind |-> kind, seen |-> 0, known |-> FALSE]
  <2>1. Proper(new)
    BY DEF Proper, Bodies, Doors, Door!ReadAfterAuth
  <2>2. request' = [request EXCEPT ![r] = new] /\ open' = open /\ request[r] = Door!NoRequest
    BY <1>4 DEF Door!Ask
  <2> HIDE DEF new
  <2>3. r \notin open
    BY <2>2 DEF BodyInv, Door!NoRequest
  <2>4. QED
    BY <2>1, <2>2, <2>3, BodyChanges
<1>5. ASSUME NEW r \in Requests, Door!Chunk(r) PROVE BodyInv'
  <2>1. request[r] \in Bodies /\ open' = open /\ r \notin open /\ request[r].step = "read"
    BY <1>1, <1>5 DEF Door!Chunk, Door!NoRequest, BodyInv
  <2>2. CASE request[r].seen + 1 > Door!Limit(request[r].kind)
    BY <1>3, <1>5, <2>1, <2>2 DEF Door!Chunk
  <2>3. CASE ~(request[r].seen + 1 > Door!Limit(request[r].kind))
    <3> DEFINE new == [request[r] EXCEPT !.seen = @ + 1]
    <3>1. request' = [request EXCEPT ![r] = new]
      BY <1>5, <2>3 DEF Door!Chunk
    <3>2. /\ new \in Bodies /\ new.known = request[r].known /\ new.kind = request[r].kind
          /\ new.seen = request[r].seen + 1
      BY <2>1 DEF Bodies
    <3>3. ~request[r].known => request[r].kind # "gateway"
      BY <2>1 DEF BodyInv, Door!NoRequest, Bodies
    <3>4. request[r].kind # "gateway" => request[r].seen + 1 <= Small
      BY <2>1, <2>3 DEF Door!Limit, Doors, Bodies
    <3> HIDE DEF new
    <3>5. Proper(new)
      BY <3>2, <3>3, <3>4 DEF Proper
    <3>6. QED
      BY <2>1, <3>1, <3>5, BodyChanges
  <2>4. QED
    BY <2>2, <2>3
<1>6. ASSUME NEW r \in Requests, Door!Whole(r) PROVE BodyInv'
  <2>1. request[r] \in Bodies /\ open' = open /\ r \notin open
    BY <1>1, <1>6 DEF Door!Whole, Door!NoRequest, BodyInv
  <2> DEFINE new == [request[r] EXCEPT !.step = "handle"]
  <2>2. /\ new \in Bodies /\ new.known = request[r].known /\ new.kind = request[r].kind
        /\ new.seen = request[r].seen /\ new.step = "handle"
    BY <2>1 DEF Bodies
  <2>3. request' = [request EXCEPT ![r] = new] /\ request[r] # Door!NoRequest
    BY <1>6 DEF Door!Whole, Door!NoRequest
  <2> HIDE DEF new
  <2>4. Proper(new)
    BY <2>2, <2>3 DEF Proper, BodyInv
  <2>5. QED
    BY <2>1, <2>3, <2>4, BodyChanges
<1>7. ASSUME NEW r \in Requests, Door!GiveUp(r) \/ Door!Answer(r) PROVE BodyInv'
  <2>1. Door!End(r) /\ open' = open /\ r \notin open
    BY <1>7 DEF Door!GiveUp, Door!Answer, BodyInv
  <2>2. QED
    BY <1>3, <2>1
<1>8. ASSUME NEW r \in Requests, Door!Authenticate(r) PROVE BodyInv'
  <2>1. /\ request[r] \in Bodies /\ request[r] # Door!NoRequest /\ open' = open /\ r \notin open
        /\ ~request[r].known
    BY <1>1, <1>8 DEF Door!Authenticate, Door!NoRequest, BodyInv
  <2>2. CASE Door!End(r)
    BY <1>3, <2>1, <2>2
  <2>3. CASE ~Door!End(r)
    <3> DEFINE next == IF Door!ReadAfterAuth(request[r].kind) THEN "read"
                       ELSE IF request[r].kind = "forwarded" THEN "forward" ELSE "handle"
               new  == [request[r] EXCEPT !.known = TRUE, !.step = next]
    <3>1. next \in {"read", "handle", "forward"}
      OBVIOUS
    <3>2. request' = [request EXCEPT ![r].known = TRUE, ![r].step = next]
      BY <1>8, <2>3 DEF Door!Authenticate
    <3> HIDE DEF next
    <3>3. request' = [request EXCEPT ![r] = new]
      BY <3>2 DEF BodyInv
    <3>4. new \in Bodies /\ new.known
      BY <2>1, <3>1 DEF Bodies
    <3> HIDE DEF new
    <3>5. Proper(new)
      BY <3>4 DEF Proper
    <3>6. QED
      BY <2>1, <3>3, <3>5, BodyChanges
  <2>4. QED
    BY <2>2, <2>3
<1>9. ASSUME NEW r \in Requests, NEW ok \in BOOLEAN, Door!Connect(r, ok) PROVE BodyInv'
  <2>1. r \notin open /\ request[r].step = "forward"
    BY <1>9 DEF Door!Connect
  <2>2. CASE ok
    <3>1. open' = open \union {r} /\ request' = request
      BY <1>9, <2>2 DEF Door!Connect
    <3>2. QED
      BY <2>1, <3>1 DEF BodyInv
  <2>3. CASE ~ok
    <3>1. open' = open /\ Door!End(r)
      BY <1>9, <2>3 DEF Door!Connect
    <3>2. QED
      BY <1>3, <2>1, <3>1
  <2>4. QED
    BY <2>2, <2>3
<1>10. ASSUME NEW r \in Requests, NEW stream \in BOOLEAN, Door!Forwarded(r, stream) PROVE BodyInv'
  <2>1. /\ r \in open /\ request[r].step = "forward" /\ request[r] # Door!NoRequest
        /\ request[r] \in Bodies
    BY <1>1, <1>10 DEF Door!Forwarded, Door!NoRequest
  <2>2. CASE stream
    <3> DEFINE new == [request[r] EXCEPT !.step = "pipe"]
    <3>1. request' = [request EXCEPT ![r] = new] /\ open' = open
      BY <1>10, <2>2 DEF Door!Forwarded
    <3>2. /\ new \in Bodies /\ new.known = request[r].known /\ new.kind = request[r].kind
          /\ new.seen = request[r].seen /\ new.step = "pipe"
      BY <2>1 DEF Bodies
    <3> HIDE DEF new
    <3>3. Proper(new)
      BY <2>1, <3>2 DEF Proper, BodyInv
    <3>4. QED
      BY <3>1, <3>2, <3>3, BodyChanges
  <2>3. CASE ~stream
    <3>1. open' = open \ {r} /\ Door!End(r)
      BY <1>10, <2>3 DEF Door!Forwarded
    <3>2. QED
      BY <1>3, <3>1
  <2>4. QED
    BY <2>2, <2>3
<1>11. ASSUME NEW r \in Requests, Door!PipeEnds(r) PROVE BodyInv'
  <2>1. open' = open \ {r} /\ Door!End(r)
    BY <1>11 DEF Door!PipeEnds
  <2>2. QED
    BY <1>3, <2>1
<1>12. ASSUME UNCHANGED Door!bodies PROVE BodyInv'
  BY <1>12 DEF BodyInv, Door!bodies
<1>13. ASSUME NEW t \in Transfers,
              Door!LastBytes(t) \/ Door!Leave(t) \/ \E ip \in Clients : Door!Arrive(t, ip)
       PROVE  BodyInv'
  <2>1. UNCHANGED Door!bodies
    BY <1>13 DEF Door!LastBytes, Door!Leave, Door!Arrive
  <2>2. QED
    BY <1>12, <2>1
<1>14. CASE Door!Age
  <2>1. UNCHANGED Door!bodies
    BY <1>14 DEF Door!Age
  <2>2. QED
    BY <1>12, <2>1
<1>15. CASE UNCHANGED Door!intakeVars
  <2>1. UNCHANGED Door!bodies
    BY <1>15 DEF Door!intakeVars, Door!bodies
  <2>2. QED
    BY <1>12, <2>1
<1>16. QED
  BY <1>4, <1>5, <1>6, <1>7, <1>8, <1>9, <1>10, <1>11, <1>13, <1>14, <1>15 DEF Door!Next

\* However downloads of the installers end, no more of them run at a time than
\* the limits allow, in all and from one address, as long as each takes less
\* than half an hour (release_throttle.py).
THEOREM DownloadsWithinLimits == Doors /\ Door!Spec => []Door!WithinLimits
<1>1. SUFFICES ASSUME Doors PROVE Door!Spec => []Door!WithinLimits
  OBVIOUS
<1>2. Door!Init => DoorInv
  BY <1>1, DoorBegins
<1>3. DoorInv /\ [Door!Next]_(Door!intakeVars) => DoorInv'
  BY <1>1, DoorStep
<1>4. DoorInv => Door!WithinLimits
  BY SameCount DEF DoorInv, Door!WithinLimits
<1>5. QED
  BY <1>2, <1>3, <1>4, PTL DEF Door!Spec

\* A body whose sender is not known yet stays small, and the connections to
\* the backend belong to calls that are going on (http_limits.py, upstream.py).
THEOREM StrangersBodiesStaySmall == Doors /\ Door!Spec => []Door!StrangersStaySmall
<1>1. SUFFICES ASSUME Doors PROVE Door!Spec => []Door!StrangersStaySmall
  OBVIOUS
<1>2. Door!Init => BodyInv
  BY BodyBegins
<1>3. BodyInv /\ [Door!Next]_(Door!intakeVars) => BodyInv'
  BY <1>1, BodyStep
<1>4. BodyInv => Door!StrangersStaySmall
  BY <1>1 DEF BodyInv, Door!StrangersStaySmall, Doors
<1>5. QED
  BY <1>2, <1>3, <1>4, PTL DEF Door!Spec
=============================================================================
