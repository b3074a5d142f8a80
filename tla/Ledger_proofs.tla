---------------------------- MODULE Ledger_proofs ----------------------------
(***************************************************************************)
(* Proofs about Ledger, for any users, organisations, buckets, prices and  *)
(* number of transactions in flight, with membership changes, refunds and  *)
(* aborts at any moment.  The first part is about who may write: the       *)
(* advisory locks and the check for duplicates under them.  The second is  *)
(* about the credits.                                                      *)
(***************************************************************************)
EXTENDS Ledger, Sums_proofs, TLAPS

\* What the arguments need of the types: the sums are left out.
CtlType ==
    /\ member  \in [Users -> Orgs \union {Nobody}]
    /\ expired \subseteq Buckets
    /\ issued  \subseteq Buckets
    /\ charges \in [Users -> [Requests -> Nat]]
    /\ lock    \in [Holders -> Spenders \union {Nobody}]
    /\ spend   \in [Spenders -> {Idle} \union Spend]

Active(s) == spend[s].step # "idle"
Payers(s) == spend[s].payers
Last(s)   == Len(Payers(s))

\* A spend pays from its user, or from an organisation and then its user.
PayersInv ==
    \A s \in Spenders : Active(s) =>
        \/ Payers(s) = <<spend[s].user>>
        \/ \E o \in Orgs : Payers(s) = <<o, spend[s].user>>

\* A transaction holds the locks it has taken ...
HoldsInv ==
    \A s \in Spenders :
        /\ spend[s].step = "lock" =>
              /\ spend[s].got < Last(s)
              /\ \A i \in 1..Last(s) : i <= spend[s].got => lock[Payers(s)[i]] = s
        /\ spend[s].step \in {"check", "drain", "commit"} =>
              \A i \in 1..Last(s) : lock[Payers(s)[i]] = s
        /\ spend[s].step = "drain" => spend[s].got < Last(s)

\* ... and no others: a lock that is held is held by a transaction that has
\* begun, on one of the payers it has got to.
Reached(t, h) ==
    /\ Active(t)
    /\ \E i \in 1..Last(t) :
          h = Payers(t)[i] /\ (spend[t].step = "lock" => i <= spend[t].got)

HeldInv == \A h \in Holders : \A t \in Spenders : lock[h] = t => Reached(t, h)

\* Past the check, the request has not been charged.
UnpaidInv ==
    \A s \in Spenders : spend[s].step \in {"drain", "commit"} =>
        charges[spend[s].user][spend[s].request] = 0

LedgerInv == CtlType /\ PayersInv /\ HoldsInv /\ HeldInv /\ UnpaidInv /\ ChargedOnce

-----------------------------------------------------------------------------
\* A transaction that has begun is a full record.
LEMMA ActiveRecord ==
    ASSUME CtlType, NEW s \in Spenders, Active(s)
    PROVE  spend[s] \in Spend /\ spend[s].user \in Users /\ spend[s].request \in Requests
BY DEF CtlType, Active, Idle, Spend

\* Its payers are one or two, the last of them its user.
LEMMA PayerFacts ==
    ASSUME CtlType, PayersInv, NEW s \in Spenders, Active(s)
    PROVE  /\ Last(s) \in 1..2
           /\ Payers(s)[Last(s)] = spend[s].user
           /\ \A i \in 1..Last(s) : Payers(s)[i] \in Holders
           /\ Last(s) = 2 => Payers(s)[1] \in Orgs
<1>1. spend[s].user \in Users
  BY ActiveRecord
<1>2. CASE Payers(s) = <<spend[s].user>>
  BY <1>1, <1>2 DEF Last, Holders
<1>3. CASE \E o \in Orgs : Payers(s) = <<o, spend[s].user>>
  BY <1>1, <1>3 DEF Last, Holders
<1>4. QED
  BY <1>2, <1>3 DEF PayersInv

\* Two transactions past their locks never work for the same user.
LEMMA UserIsLocked ==
    ASSUME LedgerInv, NEW s \in Spenders, NEW t \in Spenders,
           spend[s].step \in {"check", "drain", "commit"},
           spend[t].step \in {"check", "drain", "commit"},
           spend[s].user = spend[t].user
    PROVE  s = t
<1>1. Active(s) /\ Active(t)
  BY DEF Active
<1>2. lock[spend[s].user] = s /\ lock[spend[t].user] = t
  BY <1>1, PayerFacts DEF LedgerInv, HoldsInv
<1>3. QED
  BY <1>2

\* Before the first spend no lock is held.
LEMMA LedgerInvInit == Init => LedgerInv
BY NamesAssumption
   DEF Init, LedgerInv, CtlType, PayersInv, HoldsInv, HeldInv, UnpaidInv, ChargedOnce,
       Active, Idle

\* Steps that touch neither the locks, the transactions nor the usage log.
LEMMA BooksStep ==
    ASSUME LedgerInv, UNCHANGED <<lock, spend, charges>>,
           member' \in [Users -> Orgs \union {Nobody}],
           expired' \subseteq Buckets, issued' \subseteq Buckets
    PROVE  LedgerInv'
BY DEF LedgerInv, CtlType, PayersInv, HoldsInv, HeldInv, UnpaidInv, ChargedOnce,
       Active, Payers, Last, Reached

\* A spend that begins holds no lock yet.
LEMMA BeginStep ==
    ASSUME LedgerInv, NEW s \in Spenders, NEW u \in Users, NEW r \in Requests, Begin(s, u, r)
    PROVE  LedgerInv'
<1> USE DEF LedgerInv
<1> DEFINE payers == IF member[u] = Nobody THEN <<u>> ELSE <<member[u], u>>
           new == [step |-> "lock", user |-> u, request |-> r, payers |-> payers,
                   got |-> 0, stale |-> expired]
<1>1. /\ spend' = [spend EXCEPT ![s] = new] /\ ~Active(s)
      /\ UNCHANGED <<member, issued, expired, charges, lock>>
  BY DEF Begin, Pools, Active, Idle, grants, books
<1>2. payers = <<u>> \/ \E o \in Orgs : payers = <<o, u>>
  BY DEF CtlType
<1>3. /\ payers \in UNION {[1..n -> Holders] : n \in 1..2}
      /\ Len(payers) \in 1..2
  <2>1. CASE payers = <<u>>
    BY <2>1 DEF Holders
  <2>2. ASSUME NEW o \in Orgs, payers = <<o, u>>
        PROVE  payers \in [1..2 -> Holders] /\ Len(payers) = 2
    BY <2>2 DEF Holders
  <2>3. QED
    BY <1>2, <2>1, <2>2
<1> HIDE DEF payers
<1>4. new \in Spend
  BY <1>3 DEF Spend, CtlType
<1>5. /\ spend'[s] = new
      /\ \A t \in Spenders : t # s => spend'[t] = spend[t]
  BY <1>1 DEF CtlType
<1>6. CtlType'
  BY <1>1, <1>4 DEF CtlType
<1>7. PayersInv'
  BY <1>2, <1>5 DEF PayersInv, Active, Payers
<1>8. HoldsInv'
  <2>1. /\ spend'[s].step = "lock" /\ spend'[s].got = 0
        /\ Payers(s)' = payers /\ Last(s)' = Len(payers)
    BY <1>5 DEF Payers, Last
  <2>2. \A t \in Spenders : t # s => spend'[t] = spend[t] /\ Payers(t)' = Payers(t) /\ Last(t)' = Last(t)
    BY <1>5 DEF Payers, Last
  <2>3. 0 < Len(payers) /\ \A i \in 1..Len(payers) : ~(i <= 0)
    <3>1. \A n \in 1..2 : 0 < n /\ \A i \in 1..n : ~(i <= 0)
      OBVIOUS
    <3>2. QED
      BY <1>3, <3>1
  <2>4. QED
    BY <1>1, <2>1, <2>2, <2>3 DEF HoldsInv
<1>9. HeldInv'
  <2> SUFFICES ASSUME NEW h \in Holders, NEW t \in Spenders, lock[h] = t
               PROVE  Reached(t, h)'
    BY <1>1 DEF HeldInv
  <2>1. Reached(t, h) /\ t # s
    BY <1>1 DEF HeldInv, Reached
  <2>2. QED
    BY <1>5, <2>1 DEF Reached, Active, Payers, Last
<1>10. UnpaidInv'
  BY <1>1, <1>5 DEF UnpaidInv
<1>11. QED
  BY <1>1, <1>6, <1>7, <1>8, <1>9, <1>10 DEF ChargedOnce

\* A lock is taken only when it is free, so it never has two holders.
LEMMA TakeLockStep ==
    ASSUME LedgerInv, NEW s \in Spenders, TakeLock(s)
    PROVE  LedgerInv'
<1> USE DEF LedgerInv
<1> DEFINE got == spend[s].got + 1
           h == Payers(s)[got]
<1>1. Active(s) /\ spend[s].step = "lock"
  BY DEF TakeLock, Free, Active
<1>2. /\ spend[s] \in Spend /\ spend[s].got \in Nat /\ got \in 1..Last(s)
      /\ h \in Holders /\ Last(s) \in 1..2
  <2>1. spend[s] \in Spend /\ spend[s].got \in 0..2
    BY <1>1, ActiveRecord DEF Spend
  <2>2. spend[s].got < Last(s) /\ Last(s) \in 1..2
    BY <1>1, PayerFacts DEF HoldsInv
  <2>3. got \in 1..Last(s)
    BY <2>1, <2>2
  <2>4. QED
    BY <1>1, <2>1, <2>2, <2>3, PayerFacts
<1>3. /\ lock[h] = Nobody /\ lock' = [lock EXCEPT ![h] = s]
      /\ UNCHANGED <<member, issued, expired, charges>>
  BY DEF TakeLock, Free, Payers, grants, books
<1>4. PICK step \in {"lock", "check"} :
         /\ spend' = [spend EXCEPT ![s] = [spend[s] EXCEPT !.got = got, !.step = step]]
         /\ step = "lock" <=> got # Last(s)
  BY <1>2 DEF TakeLock, Free, Payers, Last, CtlType, Spend
<1>5. /\ spend'[s] = [spend[s] EXCEPT !.got = got, !.step = step]
      /\ \A t \in Spenders : t # s => spend'[t] = spend[t]
  BY <1>4 DEF CtlType
<1>6. /\ spend'[s].got = got /\ spend'[s].step = step
      /\ spend'[s].user = spend[s].user /\ spend'[s].payers = spend[s].payers
      /\ spend'[s].request = spend[s].request
      /\ spend'[s] \in Spend
  <2>1. got \in 0..2
    BY <1>2
  <2> HIDE DEF got
  <2>2. QED
    BY <1>2, <1>5, <2>1 DEF Spend
<1>7. \A t \in Spenders : Payers(t)' = Payers(t) /\ Last(t)' = Last(t) /\ (Active(t)' <=> Active(t))
  BY <1>1, <1>5, <1>6 DEF Payers, Last, Active
<1>8. \A g \in Holders : lock'[g] = IF g = h THEN s ELSE lock[g]
  BY <1>2, <1>3 DEF CtlType
<1>9. CtlType'
  BY <1>2, <1>3, <1>4, <1>6 DEF CtlType
<1>10. PayersInv'
  BY <1>5, <1>6, <1>7 DEF PayersInv
<1>11. HoldsInv'
  <2> SUFFICES ASSUME NEW t \in Spenders
      PROVE /\ spend'[t].step = "lock" =>
                  /\ spend'[t].got < Last(t)
                  /\ \A i \in 1..Last(t) : i <= spend'[t].got => lock'[Payers(t)[i]] = t
            /\ spend'[t].step \in {"check", "drain", "commit"} =>
                  \A i \in 1..Last(t) : lock'[Payers(t)[i]] = t
            /\ spend'[t].step = "drain" => spend'[t].got < Last(t)
    BY <1>7 DEF HoldsInv
  <2>1. CASE t = s
    <3>1. \A i \in 1..Last(s) : i <= got => lock'[Payers(s)[i]] = s
      <4> TAKE i \in 1..Last(s)
      <4> HAVE i <= got
      <4>1. Payers(s)[i] \in Holders
        BY <1>1, PayerFacts
      <4>2. CASE i = got
        BY <1>8, <4>1, <4>2
      <4>3. CASE i <= spend[s].got
        BY <1>1, <1>8, <4>1, <4>3 DEF HoldsInv
      <4>4. QED
        BY <1>2, <4>2, <4>3
    <3>2. step = "lock" => got < Last(s)
      BY <1>2, <1>4
    <3>3. step # "lock" => \A i \in 1..Last(s) : i <= got
      BY <1>2, <1>4
    <3>4. QED
      BY <1>4, <1>6, <2>1, <3>1, <3>2, <3>3
  <2>2. CASE t # s
    <3>1. spend'[t] = spend[t]
      BY <1>5, <2>2
    <3>2. ASSUME Active(t), NEW i \in 1..Last(t), lock[Payers(t)[i]] = t
          PROVE  lock'[Payers(t)[i]] = t
      <4>1. Payers(t)[i] \in Holders
        BY <3>2, PayerFacts
      <4>2. Payers(t)[i] # h
        BY <1>3, <3>2, NamesAssumption
      <4>3. QED
        BY <1>8, <3>2, <4>1, <4>2
    <3>3. QED
      BY <3>1, <3>2 DEF HoldsInv, Active
  <2>3. QED
    BY <2>1, <2>2
<1>12. HeldInv'
  <2> SUFFICES ASSUME NEW g \in Holders, NEW t \in Spenders, lock'[g] = t
               PROVE  Reached(t, g)'
    BY DEF HeldInv
  <2>1. CASE g = h
    BY <1>1, <1>2, <1>6, <1>7, <1>8, <2>1 DEF Reached
  <2>2. CASE g # h
    <3>1. Reached(t, g)
      BY <1>8, <2>2 DEF HeldInv
    <3>2. CASE t = s
      <4>1. PICK i \in 1..Last(s) : g = Payers(s)[i] /\ i <= spend[s].got
        BY <1>1, <3>1, <3>2 DEF Reached
      <4>2. i <= got
        BY <1>2, <4>1
      <4>3. QED
        BY <1>1, <1>6, <1>7, <3>2, <4>1, <4>2 DEF Reached
    <3>3. CASE t # s
      BY <1>5, <1>7, <3>1, <3>3 DEF Reached
    <3>4. QED
      BY <3>2, <3>3
  <2>3. QED
    BY <2>1, <2>2
<1>13. UnpaidInv'
  BY <1>3, <1>5, <1>6, <1>4 DEF UnpaidInv
<1>14. QED
  BY <1>3, <1>9, <1>10, <1>11, <1>12, <1>13 DEF ChargedOnce

\* The end of a transaction frees its locks and nobody else's.
LEMMA EndKeeps ==
    ASSUME LedgerInv, NEW s \in Spenders, End(s), UNCHANGED <<member, issued, expired>>,
           charges' \in [Users -> [Requests -> Nat]]
    PROVE  /\ CtlType' /\ PayersInv' /\ HoldsInv' /\ HeldInv'
           /\ \A t \in Spenders : t # s => spend'[t] = spend[t]
           /\ spend'[s].step = "idle"
<1> USE DEF LedgerInv
<1>1. /\ \A t \in Spenders : t # s => spend'[t] = spend[t]
      /\ spend'[s] = Idle /\ spend'[s].step = "idle"
      /\ spend' \in [Spenders -> {Idle} \union Spend]
  BY DEF End, CtlType, Idle
<1>2. /\ lock' \in [Holders -> Spenders \union {Nobody}]
      /\ \A h \in Holders : lock'[h] = IF lock[h] = s THEN Nobody ELSE lock[h]
  BY DEF End, CtlType
<1>3. CtlType'
  BY <1>1, <1>2 DEF CtlType
<1>4. PayersInv'
  BY <1>1 DEF PayersInv, Active, Payers
<1>5. HoldsInv'
  <2> SUFFICES ASSUME NEW t \in Spenders, t # s, Active(t)
      PROVE /\ spend[t].step = "lock" =>
                  /\ spend[t].got < Last(t)
                  /\ \A i \in 1..Last(t) : i <= spend[t].got => lock'[Payers(t)[i]] = t
            /\ spend[t].step \in {"check", "drain", "commit"} =>
                  \A i \in 1..Last(t) : lock'[Payers(t)[i]] = t
            /\ spend[t].step = "drain" => spend[t].got < Last(t)
    BY <1>1 DEF HoldsInv, Active, Payers, Last
  <2>1. \A i \in 1..Last(t) : lock[Payers(t)[i]] = t => lock'[Payers(t)[i]] = t
    BY <1>2, PayerFacts
  <2>2. QED
    BY <2>1 DEF HoldsInv
<1>6. HeldInv'
  <2> SUFFICES ASSUME NEW h \in Holders, NEW t \in Spenders, lock'[h] = t
               PROVE  Reached(t, h)'
    BY DEF HeldInv
  <2>1. lock[h] = t /\ t # s
    BY <1>2, NamesAssumption
  <2>2. Reached(t, h)
    BY <2>1 DEF HeldInv
  <2>3. spend'[t] = spend[t]
    BY <1>1, <2>1
  <2>4. QED
    BY ONLY <2>2, <2>3 DEF Reached, Active, Payers, Last
<1>7. QED
  BY <1>1, <1>3, <1>4, <1>5, <1>6

\* The look into the usage log: from here on the request is known to be unpaid,
\* and the user's lock keeps it so.
LEMMA CheckStep ==
    ASSUME LedgerInv, NEW s \in Spenders, CheckDuplicate(s)
    PROVE  LedgerInv'
<1> USE DEF LedgerInv
<1>1. /\ UNCHANGED <<member, issued, expired, charges>> /\ Active(s)
      /\ spend[s].step = "check" /\ spend[s] \in Spend
  BY ActiveRecord DEF CheckDuplicate, grants, books, Active
<1>2. CASE End(s)
  <2>1. charges' \in [Users -> [Requests -> Nat]]
    BY <1>1 DEF CtlType
  <2>2. UnpaidInv' /\ ChargedOnce'
    BY <1>1, <1>2, <2>1, EndKeeps DEF UnpaidInv, ChargedOnce
  <2>3. QED
    BY <1>1, <1>2, <2>1, <2>2, EndKeeps
<1>3. CASE ~End(s)
  <2>1. /\ spend' = [spend EXCEPT ![s] = [spend[s] EXCEPT !.step = "drain", !.got = 0]]
        /\ charges[spend[s].user][spend[s].request] = 0
        /\ lock' = lock
    <3>1. charges[spend[s].user][spend[s].request] \in Nat
      BY <1>1, ActiveRecord DEF CtlType
    <3>2. /\ ~(charges[spend[s].user][spend[s].request] > 0)
          /\ spend' = [spend EXCEPT ![s].step = "drain", ![s].got = 0]
          /\ lock' = lock
      BY <1>3 DEF CheckDuplicate
    <3>3. charges[spend[s].user][spend[s].request] = 0
      BY <3>1, <3>2
    <3>4. QED
      BY <3>2, <3>3 DEF CtlType
  <2>2. /\ \A t \in Spenders : t # s => spend'[t] = spend[t]
        /\ spend'[s].step = "drain" /\ spend'[s].got = 0 /\ spend'[s].user = spend[s].user
        /\ spend'[s].request = spend[s].request /\ spend'[s].payers = spend[s].payers
        /\ spend'[s] \in Spend
    <3>1. /\ \A t \in Spenders : t # s => spend'[t] = spend[t]
          /\ spend'[s] = [spend[s] EXCEPT !.step = "drain", !.got = 0]
      BY <2>1 DEF CtlType
    <3>2. spend[s] = [step |-> spend[s].step, user |-> spend[s].user,
                      request |-> spend[s].request, payers |-> spend[s].payers,
                      got |-> spend[s].got, stale |-> spend[s].stale]
      BY <1>1 DEF Spend
    <3>3. spend'[s] = [step |-> "drain", user |-> spend[s].user,
                       request |-> spend[s].request, payers |-> spend[s].payers,
                       got |-> 0, stale |-> spend[s].stale]
      BY <3>1, <3>2
    <3>4. spend'[s] \in Spend
      BY <1>1, <3>3 DEF Spend
    <3>5. QED
      BY <3>1, <3>3, <3>4
  <2>3. \A t \in Spenders : Payers(t)' = Payers(t) /\ Last(t)' = Last(t) /\ (Active(t)' <=> Active(t))
    BY <1>1, <2>2 DEF Payers, Last, Active
  <2>4. CtlType'
    BY <1>1, <2>1, <2>2 DEF CtlType
  <2>5. PayersInv'
    BY <2>2, <2>3 DEF PayersInv
  <2>6. HoldsInv'
    <3>1. 0 < Last(s)
      <4>1. Last(s) \in 1..2
        BY <1>1, PayerFacts
      <4> HIDE DEF LedgerInv
      <4>2. QED
        BY <4>1
    <3>2. \A t \in Spenders : t # s => spend'[t] = spend[t]
      BY <2>2
    <3>3. QED
      BY <1>1, <2>1, <2>2, <2>3, <3>1, <3>2 DEF HoldsInv
  <2>7. HeldInv'
    BY <1>1, <2>1, <2>2, <2>3 DEF HeldInv, Reached
  <2>8. UnpaidInv'
    BY <1>1, <2>1, <2>2 DEF UnpaidInv
  <2>9. QED
    BY <1>1, <2>4, <2>5, <2>6, <2>7, <2>8 DEF ChargedOnce
<1>4. QED
  BY <1>2, <1>3

\* Reading one payer's buckets touches neither locks nor the usage log.
LEMMA DrainStep ==
    ASSUME LedgerInv, NEW s \in Spenders, Drain(s)
    PROVE  LedgerInv'
<1> USE DEF LedgerInv
<1>1. /\ UNCHANGED <<member, issued, expired, charges, lock>> /\ Active(s)
      /\ spend[s].step = "drain" /\ spend[s] \in Spend /\ spend[s].got \in 0..2
  BY ActiveRecord DEF Drain, grants, books, Active, Spend
<1> DEFINE next == spend[s].got + 1
<1>2. next \in 0..2 /\ (next # Last(s) => next < Last(s))
  <2>1. spend[s].got < Last(s) /\ Last(s) \in 1..2
    BY <1>1, PayerFacts DEF HoldsInv
  <2>2. QED
    BY <1>1, <2>1
<1>3. PICK step \in {"drain", "commit"} :
         /\ spend' = [spend EXCEPT ![s] = [spend[s] EXCEPT !.got = next, !.step = step]]
         /\ step = "drain" => next # Last(s)
  BY <1>1 DEF Drain, CtlType, Spend, Payers, Last
<1> HIDE DEF next
<1>4. /\ \A t \in Spenders : t # s => spend'[t] = spend[t]
      /\ spend'[s].step = step /\ spend'[s].got = next
      /\ spend'[s].user = spend[s].user
      /\ spend'[s].request = spend[s].request /\ spend'[s].payers = spend[s].payers
      /\ spend'[s] \in Spend
  BY <1>1, <1>2, <1>3 DEF CtlType, Spend
<1>5. \A t \in Spenders : Payers(t)' = Payers(t) /\ Last(t)' = Last(t) /\ (Active(t)' <=> Active(t))
  BY <1>1, <1>4 DEF Payers, Last, Active
<1>6. CtlType'
  BY <1>1, <1>3, <1>4 DEF CtlType
<1>7. PayersInv'
  BY <1>4, <1>5 DEF PayersInv
<1>8. HoldsInv'
  BY <1>1, <1>2, <1>3, <1>4, <1>5 DEF HoldsInv
<1>9. HeldInv'
  BY <1>1, <1>4, <1>5 DEF HeldInv, Reached
<1>10. UnpaidInv'
  BY <1>1, <1>4 DEF UnpaidInv
<1>11. QED
  BY <1>1, <1>6, <1>7, <1>8, <1>9, <1>10 DEF ChargedOnce

\* The commit is the only step that charges: it takes the count from 0 to 1,
\* and no other transaction past the check is of the same user.
LEMMA CommitStep ==
    ASSUME LedgerInv, NEW s \in Spenders, Commit(s)
    PROVE  LedgerInv'
<1> USE DEF LedgerInv
<1> DEFINE u == spend[s].user
           r == spend[s].request
<1>1. /\ End(s) /\ UNCHANGED <<member, issued, expired>>
      /\ spend[s].step = "commit" /\ u \in Users /\ r \in Requests
  BY ActiveRecord DEF Commit, grants, Active
<1>2. charges[u][r] = 0
  BY <1>1 DEF UnpaidInv
<1>3. charges' = [charges EXCEPT ![u] = [charges[u] EXCEPT ![r] = 1]]
  BY <1>1, <1>2 DEF Commit, CtlType
<1>4. /\ charges' \in [Users -> [Requests -> Nat]]
      /\ \A v \in Users : \A q \in Requests :
            charges'[v][q] = IF v = u /\ q = r THEN 1 ELSE charges[v][q]
  BY <1>1, <1>3 DEF CtlType
<1>5. /\ CtlType' /\ PayersInv' /\ HoldsInv' /\ HeldInv'
      /\ \A t \in Spenders : t # s => spend'[t] = spend[t]
      /\ spend'[s].step = "idle"
  BY <1>1, <1>4, EndKeeps
<1>6. ChargedOnce'
  BY <1>4 DEF ChargedOnce
<1>7. UnpaidInv'
  <2> SUFFICES ASSUME NEW t \in Spenders, t # s, spend[t].step \in {"drain", "commit"}
               PROVE  charges'[spend[t].user][spend[t].request] = 0
    BY <1>5 DEF UnpaidInv
  <2>1. spend[t].user # u /\ spend[t].user \in Users /\ spend[t].request \in Requests
    BY <1>1, UserIsLocked, ActiveRecord DEF Active
  <2>2. QED
    BY <1>4, <2>1 DEF UnpaidInv
<1>8. QED
  BY <1>5, <1>6, <1>7

\* A rollback frees the locks and charges nothing.
LEMMA AbortStep ==
    ASSUME LedgerInv, NEW s \in Spenders, Abort(s)
    PROVE  LedgerInv'
<1>1. End(s) /\ UNCHANGED <<member, issued, expired, charges>>
  BY DEF Abort, grants, books
<1>2. charges' \in [Users -> [Requests -> Nat]]
  BY <1>1 DEF LedgerInv, CtlType
<1>3. UnpaidInv' /\ ChargedOnce'
  BY <1>1, <1>2, EndKeeps DEF LedgerInv, UnpaidInv, ChargedOnce
<1>4. QED
  BY <1>1, <1>2, <1>3, EndKeeps DEF LedgerInv

\* Every action of the ledger keeps the invariant.
LEMMA LedgerInvStep == LedgerInv /\ [Next]_vars => LedgerInv'
<1> SUFFICES ASSUME LedgerInv, [Next]_vars PROVE LedgerInv'
  OBVIOUS
<1>1. ASSUME NEW b \in Buckets, Grant(b) \/ Expire(b) \/ ZeroGrant(b) PROVE LedgerInv'
  BY <1>1, BooksStep DEF Grant, Expire, ZeroGrant, books, grants, LedgerInv, CtlType
<1>2. ASSUME NEW u \in Users, ChangeTeam(u) PROVE LedgerInv'
  BY <1>2, BooksStep DEF ChangeTeam, books, grants, LedgerInv, CtlType
<1>3. CASE UNCHANGED vars
  BY <1>3, BooksStep DEF vars, LedgerInv, CtlType
<1>4. QED
  BY <1>1, <1>2, <1>3, BeginStep, TakeLockStep, CheckStep, DrainStep, CommitStep, AbortStep
  DEF Next, Advance

\* A request id is charged at most once per user, for any number of processes.
THEOREM NeverChargedTwice == Spec => []ChargedOnce
<1>1. LedgerInv => ChargedOnce
  BY DEF LedgerInv
<1>2. QED
  BY <1>1, LedgerInvInit, LedgerInvStep, PTL DEF Spec

\* Of the transactions that have begun, one can go on: whoever waits for an
\* organisation waits for someone who holds it and waits at most for a user,
\* and the holder of a user's lock waits for nobody.
LEMMA SomeoneGoesOn == LedgerInv => NoDeadlock
<1> SUFFICES ASSUME LedgerInv, NEW s \in Spenders, Active(s)
             PROVE  \E t \in Spenders : Active(t) /\ ~Waiting(t)
  BY DEF NoDeadlock, Active, Idle, LedgerInv, CtlType, Spend
<1> USE DEF LedgerInv
<1>1. ASSUME NEW t \in Spenders, Waiting(t)
      PROVE  /\ Active(t) /\ spend[t].got + 1 \in 1..Last(t)
             /\ Payers(t)[spend[t].got + 1] \in Holders
             /\ lock[Payers(t)[spend[t].got + 1]] \in Spenders
  <2>1. Active(t) /\ spend[t].got < Last(t) /\ Last(t) \in 1..2
    BY <1>1, PayerFacts DEF Waiting, Active, HoldsInv
  <2>2. spend[t].got \in 0..2
    BY <2>1, ActiveRecord DEF Spend
  <2>3. spend[t].got + 1 \in 1..Last(t)
    BY <2>1, <2>2
  <2>4. QED
    BY <1>1, <2>1, <2>3, PayerFacts DEF Waiting, CtlType, Payers
<1>2. ASSUME NEW u \in Users, lock[u] \in Spenders
      PROVE  Active(lock[u]) /\ ~Waiting(lock[u])
  <2> DEFINE t == lock[u]
  <2>1. Reached(t, u)
    BY <1>2 DEF HeldInv, Holders
  <2>2. PICK i \in 1..Last(t) : u = Payers(t)[i] /\ (spend[t].step = "lock" => i <= spend[t].got)
    BY <2>1 DEF Reached
  <2>3. Last(t) \in 1..2 /\ (Last(t) = 2 => Payers(t)[1] \in Orgs)
    BY <1>2, <2>1, PayerFacts DEF Reached
  <2>4. i = Last(t)
    <3>1. i = 1 /\ Last(t) = 2 => FALSE
      BY <2>2, <2>3, NamesAssumption
    <3>2. QED
      BY <2>3, <3>1
  <2>5. ~(spend[t].step = "lock")
    <3>1. ASSUME spend[t].step = "lock" PROVE FALSE
      <4>1. spend[t].got < Last(t) /\ i <= spend[t].got /\ spend[t].got \in 0..2
        BY <1>2, <2>1, <2>2, <3>1, ActiveRecord DEF HoldsInv, Reached, Spend
      <4>2. QED
        BY <2>3, <2>4, <4>1
    <3>2. QED
      BY <3>1
  <2>6. QED
    BY <2>1, <2>5 DEF Reached, Waiting
<1>3. ASSUME NEW t \in Spenders, Waiting(t), spend[t].got + 1 = Last(t)
      PROVE  \E v \in Spenders : Active(v) /\ ~Waiting(v)
  <2>1. Payers(t)[spend[t].got + 1] = spend[t].user /\ spend[t].user \in Users
    BY <1>1, <1>3, PayerFacts, ActiveRecord
  <2>2. QED
    BY <1>1, <1>2, <1>3, <2>1
<1>4. CASE Waiting(s) /\ spend[s].got + 1 # Last(s)
  <2> DEFINE t == lock[Payers(s)[spend[s].got + 1]]
  <2>1. t \in Spenders /\ Reached(t, Payers(s)[spend[s].got + 1])
    BY <1>1, <1>4 DEF HeldInv
  <2>2. CASE Waiting(t)
    <3>1. /\ spend[t].got >= 1 /\ spend[t].got + 1 \in 1..Last(t) /\ Last(t) \in 1..2
          /\ spend[t].got \in 0..2
      <4>1. PICK i \in 1..Last(t) : i <= spend[t].got
        BY <2>1, <2>2 DEF Reached, Waiting
      <4>2. /\ spend[t].got + 1 \in 1..Last(t) /\ Last(t) \in 1..2 /\ spend[t].got \in 0..2
        BY <1>1, <2>1, <2>2, PayerFacts, ActiveRecord DEF Spend
      <4> HIDE DEF t
      <4>3. spend[t].got >= 1
        BY ONLY <4>1, <4>2, i \in 1..Last(t)
      <4>4. QED
        BY ONLY <4>2, <4>3
    <3>2. t \in Spenders /\ Waiting(t)
      BY <2>1, <2>2
    <3> HIDE DEF t
    <3>3. spend[t].got + 1 = Last(t)
      BY ONLY <3>1
    <3>4. QED
      BY ONLY <1>3, <3>2, <3>3
  <2>3. QED
    BY <2>1, <2>2 DEF Reached
<1>5. QED
  BY <1>3, <1>4

\* The payers' locks never close a circle of waiting transactions.
THEOREM DeadlockFree == Spec => []NoDeadlock
BY SomeoneGoesOn, LedgerInvInit, LedgerInvStep, PTL DEF Spec

-----------------------------------------------------------------------------
(* The credits: what a spend has set aside from buckets it has only read    *)
(* stays there until it commits, because it holds the locks of their        *)
(* owners; nothing is lost or made up; and the buckets are emptied in       *)
(* their order.                                                             *)

Draining(s) == spend[s].step \in {"drain", "commit"}

\* A transaction sets credits aside only while it drains, and only from
\* buckets that it has read, of payers that it has got to.
BasketInv ==
    \A s \in Spenders :
        /\ ~Draining(s) => basket[s] = Empty
        /\ \A b \in basket[s].read :
              /\ b \in issued
              /\ \E i \in 1..Last(s) :
                    Owner[b] = Payers(s)[i] /\ (spend[s].step = "drain" => i <= spend[s].got)
        /\ \A b \in Buckets : b \notin basket[s].read => basket[s].take[b] = 0

\* What it has set aside is still there, unless a refund took it.
CoveredInv ==
    \A s \in Spenders : \A b \in basket[s].read :
        clawed[b] = 0 => basket[s].take[b] <= remaining[b]

\* A bucket that does not exist holds nothing.
UnissuedInv == \A b \in Buckets \ issued : remaining[b] = 0

\* A spend that has reached a later bucket, or has credits still to find,
\* has set aside all there is in an earlier one.
OrderInv ==
    \A s \in Spenders : \A b \in basket[s].read :
        \/ Left(s) > 0
        \/ \E c \in basket[s].read : Later(c, b, spend[s].user) /\ basket[s].take[c] > 0
        => basket[s].take[b] >= remaining[b]

BooksInv ==
    /\ TypeOK /\ LedgerInv /\ BasketInv /\ UnissuedInv
    /\ CoveredInv /\ NeverDrainedTwice /\ OrderInv /\ Conserved

-----------------------------------------------------------------------------
(* How one payer's buckets are drained: share says what is taken of what   *)
(* each bucket has, when left is to be found and the earlier ones go first. *)

Ahead(U, has, b) == Total(has, {c \in U : c < b})
Greedy(U, has, share, left) ==
    \A b \in U : share[b] = Smaller(has[b], AtLeast0(left - Ahead(U, has, b)))

\* Nothing is taken that is not there ...
LEMMA ShareBounds ==
    ASSUME NEW U \in SUBSET Nat, IsFiniteSet(U), NEW has, \A b \in U : has[b] \in Nat,
           NEW left \in Int, NEW share, Greedy(U, has, share, left)
    PROVE  \A b \in U :
             /\ Ahead(U, has, b) \in Nat
             /\ share[b] \in Nat /\ share[b] <= has[b]
             /\ share[b] > 0 => left > Ahead(U, has, b)
             /\ left - Ahead(U, has, b) >= has[b] => share[b] = has[b]
             /\ share[b] < has[b] => share[b] >= left - Ahead(U, has, b)
<1> TAKE b \in U
<1>1. Ahead(U, has, b) \in Nat
  BY TotalMonotone DEF Ahead
<1>2. share[b] = Smaller(has[b], AtLeast0(left - Ahead(U, has, b))) /\ has[b] \in Nat
  BY DEF Greedy
<1>3. QED
  BY <1>1, <1>2 DEF Smaller, AtLeast0

\* ... a bucket is left with something only when all is found ...
LEMMA ShareIsEnough ==
    ASSUME NEW U \in SUBSET Nat, IsFiniteSet(U), NEW has, \A b \in U : has[b] \in Nat,
           NEW left \in Int, NEW share, Greedy(U, has, share, left),
           NEW e \in U, share[e] < has[e]
    PROVE  Total(share, U) >= left
<1> DEFINE Kept == {b \in U : share[b] < has[b]}
<1>1. PICK m \in Kept : \A x \in Kept : m <= x
  <2>1. Kept \in SUBSET Nat /\ Kept # {} /\ IsFiniteSet(Kept)
    BY FS_Subset
  <2> HIDE DEF Kept
  <2>2. QED
    BY <2>1, LeastOf
<1>2. m \in U /\ m \in Nat /\ share[m] < has[m]
  BY <1>1
<1> DEFINE B == {c \in U : c < m}
<1>3. \A c \in B : has[c] = share[c]
  <2>1. ASSUME NEW c \in B PROVE has[c] = share[c]
    <3>1. c \in U /\ c < m /\ c \in Nat
      BY <2>1
    <3>2. share[c] \in Nat /\ share[c] <= has[c] /\ has[c] \in Nat
      BY <3>1, ShareBounds
    <3>3. c \notin Kept
      <4> HIDE DEF Kept
      <4>1. QED
        BY <1>1, <1>2, <3>1
    <3>4. ~(share[c] < has[c])
      BY <3>1, <3>3
    <3>5. QED
      BY <3>2, <3>4
  <2>2. QED
    BY <2>1
<1>4. Total(has, B) = Total(share, B) /\ IsFiniteSet(B)
  <2>1. IsFiniteSet(B)
    BY FS_Subset
  <2> HIDE DEF B
  <2>2. QED
    BY <1>3, <2>1, TotalEqual
<1>5. share[m] >= left - Total(has, B) /\ share[m] \in Nat /\ Total(has, B) \in Nat
  BY <1>2, ShareBounds DEF Ahead
<1> DEFINE C == B \union {m}
<1>6. \A b \in U : share[b] \in Nat
  BY ShareBounds
<1>7. Total(share, C) = share[m] + Total(share, B)
  <2>1. C \ {m} = B /\ C \subseteq U /\ m \in C
    BY <1>2
  <2>2. IsFiniteSet(C) /\ \A b \in C : share[b] \in Int
    BY <1>6, <2>1, FS_Subset
  <2> HIDE DEF C
  <2>3. Total(share, C) = share[m] + Total(share, C \ {m})
    BY <2>1, <2>2, TotalPick
  <2> HIDE DEF B
  <2>4. QED
    BY <2>1, <2>3
<1>8. Total(share, C) <= Total(share, U) /\ Total(share, C) \in Nat /\ Total(share, U) \in Nat
  <2>1. C \subseteq U
    BY <1>2
  <2> HIDE DEF C
  <2>2. QED
    BY <1>6, <2>1, TotalMonotone
<1> HIDE DEF B, C
<1>9. QED
  BY <1>4, <1>5, <1>7, <1>8

\* ... and a later bucket is touched only when the earlier one is emptied.
LEMMA ShareInOrder ==
    ASSUME NEW U \in SUBSET Nat, IsFiniteSet(U), NEW has, \A b \in U : has[b] \in Nat,
           NEW left \in Int, NEW share, Greedy(U, has, share, left),
           NEW b \in U, NEW c \in U, c > b, share[c] > 0
    PROVE  share[b] = has[b]
<1> DEFINE B == {x \in U : x < b}
           C == {x \in U : x < c}
<1>1. Total(has, B \union {b}) = has[b] + Total(has, B)
  <2> DEFINE D == B \union {b}
  <2>1. D \ {b} = B /\ D \subseteq U /\ b \in D
    OBVIOUS
  <2>2. IsFiniteSet(D) /\ \A x \in D : has[x] \in Int
    BY <2>1, FS_Subset
  <2> HIDE DEF D
  <2>3. Total(has, D) = has[b] + Total(has, D \ {b})
    BY <2>1, <2>2, TotalPick
  <2> HIDE DEF B
  <2>4. QED
    BY <2>1, <2>3 DEF D
<1>2. Total(has, B \union {b}) <= Total(has, C) /\ Total(has, B \union {b}) \in Nat
  <2>1. B \union {b} \subseteq C /\ C \subseteq U
    <3>1. \A x \in U : x \in Nat
      OBVIOUS
    <3>2. b \in Nat /\ c \in Nat /\ b < c
      OBVIOUS
    <3>3. ASSUME NEW x \in B \union {b} PROVE x \in U /\ x < c
      <4>1. x \in U /\ x \in Nat /\ (x < b \/ x = b)
        BY <3>1
      <4>2. QED
        BY <3>2, <4>1
    <3>4. QED
      BY <3>3
  <2>2. IsFiniteSet(C) /\ \A x \in C : has[x] \in Nat
    BY <2>1, FS_Subset
  <2> HIDE DEF B, C
  <2>3. QED
    BY <2>1, <2>2, TotalMonotone
<1>3. left > Total(has, C) /\ Total(has, C) \in Nat
  BY ShareBounds DEF Ahead
<1>4. Total(has, B) \in Nat /\ (left - Total(has, B) >= has[b] => share[b] = has[b])
  BY ShareBounds DEF Ahead
<1> HIDE DEF B, C
<1>5. has[b] \in Nat
  OBVIOUS
<1>6. QED
  BY <1>1, <1>2, <1>3, <1>4, <1>5

-----------------------------------------------------------------------------
(* The steps.                                                              *)

\* The parts of a basket.
LEMMA BasketFacts ==
    ASSUME TypeOK, NEW s \in Spenders
    PROVE  /\ basket[s].read \in SUBSET Buckets
           /\ basket[s].take \in [Buckets -> Nat]
           /\ Empty.read = {} /\ Empty.take = [b \in Buckets |-> 0] /\ Empty \in Basket
BY DEF TypeOK, Basket, Empty

\* What is still to be found of the price is an integer.
LEMMA LeftIsInt ==
    ASSUME TypeOK, NEW s \in Spenders, Active(s)
    PROVE  Left(s) \in Int
<1>1. Price[spend[s].request] \in Nat
  BY PriceAssumption DEF TypeOK, Active, Idle, Spend
<1>2. Total(basket[s].take, Buckets) \in Int
  <2>1. \A b \in Buckets : basket[s].take[b] \in Int
    BY BasketFacts
  <2>2. QED
    BY <2>1, FiniteAssumption, TotalInt
<1>3. QED
  BY <1>1, <1>2 DEF Left

\* The payers of a spend are different holders.
LEMMA PayersDiffer ==
    ASSUME CtlType, PayersInv, NEW s \in Spenders, Active(s),
           NEW i \in 1..Last(s), NEW j \in 1..Last(s), Payers(s)[i] = Payers(s)[j]
    PROVE  i = j
<1>1. /\ Last(s) \in 1..2 /\ Payers(s)[Last(s)] \in Users
      /\ Last(s) = 2 => Payers(s)[1] \in Orgs
  BY PayerFacts, ActiveRecord
<1>2. \/ Last(s) = 1 /\ i = 1 /\ j = 1
      \/ Last(s) = 2 /\ i \in {1, 2} /\ j \in {1, 2}
  BY <1>1
<1>3. QED
  BY <1>1, <1>2, NamesAssumption

\* Two transactions that drain have read no bucket in common: each holds the
\* lock of the owners of what it has read.
LEMMA ReadByOne ==
    ASSUME LedgerInv, BasketInv, NEW s \in Spenders, NEW t \in Spenders,
           NEW b \in basket[s].read, b \in basket[t].read
    PROVE  s = t
<1>1. ASSUME NEW v \in Spenders, b \in basket[v].read
      PROVE  lock[Owner[b]] = v
  <2>1. Draining(v)
    BY <1>1 DEF BasketInv, Empty
  <2>2. PICK i \in 1..Last(v) : Owner[b] = Payers(v)[i]
    BY <1>1 DEF BasketInv
  <2>3. QED
    BY <2>1, <2>2 DEF LedgerInv, HoldsInv, Draining
<1>2. QED
  BY <1>1

\* The columns of the books.
Cost == [ur \in Users \X Requests |-> charges[ur[1]][ur[2]] * Price[ur[2]]]
SumsAreInt ==
    /\ Total(remaining, Buckets) \in Int /\ Total(clawed, Buckets) \in Int
    /\ Total(debt, Users) \in Int /\ Total(Amount, issued) \in Int
    /\ Total(Cost, Users \X Requests) \in Int

\* All the sums are integers.
LEMMA SumsFacts ==
    ASSUME TypeOK
    PROVE  SumsAreInt
<1>1. Total(remaining, Buckets) \in Int /\ Total(clawed, Buckets) \in Int
  BY FiniteAssumption, TotalInt DEF TypeOK
<1>2. Total(debt, Users) \in Int
  BY FiniteAssumption, TotalInt DEF TypeOK
<1>3. Total(Amount, issued) \in Int
  <2>1. IsFiniteSet(issued) /\ \A b \in issued : Amount[b] \in Int
    BY FiniteAssumption, FS_Subset, GrantAssumption DEF TypeOK
  <2>2. QED
    BY <2>1, TotalInt
<1>4. Total(Cost, Users \X Requests) \in Int
  <2>1. \A ur \in Users \X Requests : Cost[ur] \in Int
    BY PriceAssumption DEF TypeOK, Cost
  <2>2. IsFiniteSet(Users \X Requests)
    BY FiniteAssumption, FS_Product
  <2>3. QED
    BY <2>1, <2>2, TotalInt
<1>5. QED
  BY <1>1, <1>2, <1>3, <1>4 DEF SumsAreInt

\* At first there are no credits and no baskets.
LEMMA BooksInvInit == Init => BooksInv
<1> SUFFICES ASSUME Init PROVE BooksInv
  OBVIOUS
<1>1. TypeOK
  BY DEF Init, TypeOK, Basket, Empty
<1>2. LedgerInv
  BY LedgerInvInit
<1>3. BasketInv /\ UnissuedInv /\ CoveredInv /\ NeverDrainedTwice /\ OrderInv
  BY DEF Init, BasketInv, UnissuedInv, CoveredInv, NeverDrainedTwice, OrderInv, Draining, Empty, Idle
<1>4. Conserved
  <2>1. Total(remaining, Buckets) = 0 /\ Total(clawed, Buckets) = 0
    BY FiniteAssumption, TotalZero DEF Init
  <2>2. Total(debt, Users) = 0
    BY FiniteAssumption, TotalZero DEF Init
  <2>3. Total(Amount, issued) = 0
    BY TotalEmpty DEF Init
  <2>4. Total(Cost, Users \X Requests) = 0
    <3>1. \A ur \in Users \X Requests : Cost[ur] = 0
      BY PriceAssumption DEF Init, Cost
    <3>2. IsFiniteSet(Users \X Requests)
      BY FiniteAssumption, FS_Product
    <3>3. QED
      BY <3>1, <3>2, TotalZero
  <2>5. QED
    BY <2>1, <2>2, <2>3, <2>4 DEF Conserved, Cost
<1>5. QED
  BY <1>1, <1>2, <1>3, <1>4 DEF BooksInv

\* Steps that move no credits, and in which every transaction keeps its basket
\* or loses what it has set aside.
LEMMA QuietStep ==
    ASSUME BooksInv, TypeOK', LedgerInv',
           UNCHANGED <<issued, clawed, remaining, debt, charges>>,
           \A t \in Spenders :
              basket'[t] = Empty \/ (basket'[t] = basket[t] /\ spend'[t] = spend[t])
    PROVE  BooksInv'
<1> USE DEF BooksInv
<1>1. ASSUME NEW t \in Spenders, basket'[t] = Empty
      PROVE  basket'[t].read = {} /\ basket'[t].take = [b \in Buckets |-> 0]
  BY <1>1 DEF Empty
<1>2. ASSUME NEW t \in Spenders, basket'[t] # Empty
      PROVE  /\ basket'[t] = basket[t] /\ spend'[t] = spend[t]
             /\ Payers(t)' = Payers(t) /\ Last(t)' = Last(t) /\ Left(t)' = Left(t)
  BY <1>2 DEF Payers, Last, Left
<1>3. BasketInv'
  BY <1>1, <1>2 DEF BasketInv, Draining
<1>4. CoveredInv'
  BY <1>1, <1>2 DEF CoveredInv
<1>5. OrderInv'
  BY <1>1, <1>2 DEF OrderInv, Later
<1>6. UnissuedInv' /\ NeverDrainedTwice' /\ Conserved'
  BY DEF UnissuedInv, NeverDrainedTwice, Conserved
<1>7. QED
  BY <1>3, <1>4, <1>5, <1>6

\* A new bucket is in no basket.
LEMMA GrantBooks ==
    ASSUME BooksInv, LedgerInv', NEW b \in Buckets, Grant(b)
    PROVE  BooksInv'
<1> USE DEF BooksInv
<1>1. /\ b \notin issued /\ issued' = issued \union {b}
      /\ remaining' = [remaining EXCEPT ![b] = Amount[b]]
      /\ UNCHANGED <<member, expired, clawed, debt, charges, lock, spend, basket>>
  BY DEF Grant
<1>2. Amount[b] \in Nat /\ Amount[b] > 0
  BY GrantAssumption
<1>3. /\ remaining' \in [Buckets -> Int]
      /\ remaining'[b] = Amount[b] /\ remaining[b] = 0
      /\ \A c \in Buckets : c # b => remaining'[c] = remaining[c]
  BY <1>1, <1>2 DEF TypeOK, UnissuedInv
<1>4. TypeOK'
  BY <1>1, <1>3 DEF TypeOK
<1>5. \A t \in Spenders : \A c \in basket[t].read : c # b /\ c \in Buckets
  BY <1>1, BasketFacts DEF BasketInv
<1>6. BasketInv'
  BY <1>1 DEF BasketInv, Draining, Payers, Last
<1>7. UnissuedInv' /\ NeverDrainedTwice'
  BY <1>1, <1>2, <1>3 DEF UnissuedInv, NeverDrainedTwice
<1>8. CoveredInv'
  BY <1>1, <1>3, <1>5 DEF CoveredInv
<1>9. OrderInv'
  BY <1>1, <1>3, <1>5 DEF OrderInv, Later, Left
<1>10. Conserved'
  <2>1. Total(remaining', Buckets) = Total(remaining, Buckets) - 0 + Amount[b]
    <3>1. \A c \in Buckets : remaining[c] \in Int /\ remaining'[c] \in Int
      BY <1>3 DEF TypeOK
    <3>2. QED
      BY <1>3, <3>1, FiniteAssumption, TotalUpdate
  <2>2. Total(Amount, issued') = Amount[b] + Total(Amount, issued)
    <3>1. issued' \subseteq Buckets /\ b \in issued' /\ issued' \ {b} = issued
      BY <1>1 DEF TypeOK
    <3>2. IsFiniteSet(issued') /\ \A c \in issued' : Amount[c] \in Int
      BY <3>1, FiniteAssumption, FS_Subset, GrantAssumption
    <3>3. Total(Amount, issued') = Amount[b] + Total(Amount, issued' \ {b})
      BY <3>1, <3>2, TotalPick
    <3>4. QED
      BY <3>1, <3>3
  <2>3. SumsAreInt
    BY SumsFacts
  <2>4. QED
    BY <1>1, <1>2, <2>1, <2>2, <2>3 DEF Conserved, SumsAreInt, Cost
<1>11. QED
  BY <1>4, <1>6, <1>7, <1>8, <1>9, <1>10

\* A refund empties a bucket: what it takes back is what it writes down.
LEMMA ZeroGrantBooks ==
    ASSUME BooksInv, LedgerInv', NEW b \in Buckets, ZeroGrant(b)
    PROVE  BooksInv'
<1> USE DEF BooksInv
<1>1. /\ b \in issued /\ clawed[b] = 0
      /\ remaining' = [remaining EXCEPT ![b] = 0]
      /\ clawed' = [clawed EXCEPT ![b] = @ + remaining[b]]
      /\ UNCHANGED <<member, issued, expired, debt, charges, lock, spend, basket>>
  BY DEF ZeroGrant
<1>2. remaining[b] \in Int /\ remaining[b] >= 0
  BY <1>1 DEF TypeOK, NeverDrainedTwice
<1>3. /\ remaining' \in [Buckets -> Int] /\ clawed' \in [Buckets -> Int]
      /\ remaining'[b] = 0 /\ clawed'[b] = remaining[b]
      /\ \A c \in Buckets : c # b => remaining'[c] = remaining[c] /\ clawed'[c] = clawed[c]
  BY <1>1, <1>2 DEF TypeOK
<1>4. TypeOK'
  BY <1>1, <1>3 DEF TypeOK
<1>5. \A t \in Spenders : \A c \in basket[t].read : c \in Buckets /\ basket[t].take[c] \in Nat
  BY BasketFacts
<1>6. BasketInv'
  BY <1>1 DEF BasketInv, Draining, Payers, Last
<1>7. UnissuedInv' /\ NeverDrainedTwice'
  BY <1>1, <1>3 DEF UnissuedInv, NeverDrainedTwice
<1>8. CoveredInv'
  <2> SUFFICES ASSUME NEW t \in Spenders, NEW c \in basket[t].read, clawed'[c] = 0
               PROVE  basket[t].take[c] <= remaining'[c]
    BY <1>1 DEF CoveredInv
  <2>1. CASE c = b
    BY <1>1, <1>3, <2>1 DEF CoveredInv
  <2>2. CASE c # b
    BY <1>3, <1>5, <2>2 DEF CoveredInv
  <2>3. QED
    BY <2>1, <2>2
<1>9. OrderInv'
  <2> SUFFICES ASSUME NEW t \in Spenders, NEW c \in basket[t].read,
                      basket[t].take[c] >= remaining[c]
               PROVE  basket[t].take[c] >= remaining'[c]
    BY <1>1 DEF OrderInv, Later, Left
  <2>1. CASE c = b
    BY <1>3, <1>5, <2>1
  <2>2. CASE c # b
    BY <1>3, <1>5, <2>2
  <2>3. QED
    BY <2>1, <2>2
<1>10. Conserved'
  <2>1. \A c \in Buckets : /\ remaining[c] \in Int /\ remaining'[c] \in Int
                           /\ clawed[c] \in Int /\ clawed'[c] \in Int
    BY <1>3 DEF TypeOK
  <2>2. Total(remaining', Buckets) = Total(remaining, Buckets) - remaining[b] + 0
    <3>1. /\ \A c \in Buckets : remaining[c] \in Int /\ remaining'[c] \in Int
          /\ \A c \in Buckets : c # b => remaining'[c] = remaining[c]
      BY <1>3, <2>1
    <3>2. remaining'[b] = 0
      BY <1>3
    <3>3. IsFiniteSet(Buckets)
      BY FiniteAssumption
    <3>4. Total(remaining', Buckets) = Total(remaining, Buckets) - remaining[b] + remaining'[b]
      BY ONLY <3>1, <3>3, TotalUpdate, b \in Buckets
    <3>5. QED
      BY <3>2, <3>4
  <2>3. Total(clawed', Buckets) = Total(clawed, Buckets) - clawed[b] + clawed'[b]
    <3>1. \A c \in Buckets : clawed[c] \in Int /\ clawed'[c] \in Int
      BY <2>1
    <3>2. \A c \in Buckets : c # b => clawed'[c] = clawed[c]
      BY <1>3
    <3>3. QED
      BY ONLY <3>1, <3>2, FiniteAssumption, TotalUpdate, b \in Buckets
  <2>4. SumsAreInt
    BY SumsFacts
  <2>5. QED
    BY <1>1, <1>2, <1>3, <2>2, <2>3, <2>4 DEF Conserved, SumsAreInt, Cost
<1>11. QED
  BY <1>4, <1>6, <1>7, <1>8, <1>9, <1>10

\* The end of a transaction, and the steps before it drains.
LEMMA BeforeDrainBooks ==
    ASSUME BooksInv, LedgerInv', NEW s \in Spenders,
           \/ \E u \in Users, r \in Requests : Begin(s, u, r)
           \/ TakeLock(s) \/ CheckDuplicate(s) \/ Abort(s)
    PROVE  BooksInv'
<1> USE DEF BooksInv
<1>1. UNCHANGED <<issued, expired, clawed, remaining, debt, charges>>
  BY DEF Begin, TakeLock, CheckDuplicate, Abort, grants, books
<1>2. /\ basket' = basket \/ basket' = [basket EXCEPT ![s] = Empty]
      /\ basket'[s] = Empty
      /\ \A t \in Spenders : t # s => spend'[t] = spend[t] /\ basket'[t] = basket[t]
  <2>1. CASE End(s)
    BY <2>1 DEF End, TypeOK
  <2>2. CASE ~End(s)
    <3>1. basket' = basket /\ ~Draining(s)
      BY <2>2 DEF Begin, TakeLock, CheckDuplicate, Abort, Draining, Idle
    <3>2. \A t \in Spenders : t # s => spend'[t] = spend[t]
      BY <2>2 DEF Begin, TakeLock, CheckDuplicate, Abort, TypeOK
    <3>3. QED
      BY <3>1, <3>2 DEF BasketInv
  <2>3. QED
    BY <2>1, <2>2
<1>3. basket' \in [Spenders -> Basket]
  BY <1>2, BasketFacts DEF TypeOK
<1>4. TypeOK'
  BY <1>1, <1>3 DEF TypeOK, LedgerInv, CtlType
<1>5. QED
  BY <1>1, <1>2, <1>4, QuietStep

\* One payer's buckets are drained: what is new to the basket is of that payer
\* alone, goes in the order of the buckets, and is there.
LEMMA DrainBooks ==
    ASSUME BooksInv, LedgerInv', NEW s \in Spenders, Drain(s)
    PROVE  BooksInv'
<1> USE DEF BooksInv
<1> DEFINE next == spend[s].got + 1
           h    == Payers(s)[next]
           U    == Usable(s, h)
           R    == basket[s].read
           old  == basket[s].take
           new  == [b \in Buckets |-> IF b \in U THEN Share(s, h, b) ELSE old[b]]
<1>1. /\ spend[s].step = "drain" /\ Active(s) /\ Draining(s)
      /\ UNCHANGED <<member, issued, expired, clawed, remaining, debt, charges, lock>>
      /\ basket' = [basket EXCEPT ![s] = [read |-> R \union U, take |-> new]]
      /\ spend' = [spend EXCEPT ![s].got = next,
                                ![s].step = IF next = Last(s) THEN "commit" ELSE "drain"]
  BY DEF Drain, grants, books, Active, Draining, Payers, Last
<1>2. /\ spend[s].got \in 0..2 /\ next \in 1..Last(s) /\ h \in Holders
      /\ spend[s] \in Spend /\ Last(s) \in 1..2
  <2>1. spend[s].got \in 0..2 /\ spend[s].got < Last(s) /\ Last(s) \in 1..2
    BY <1>1, ActiveRecord, PayerFacts DEF Spend, LedgerInv, HoldsInv
  <2>2. next \in 1..Last(s)
    BY <2>1
  <2>3. QED
    BY <1>1, <2>1, <2>2, ActiveRecord, PayerFacts DEF LedgerInv
<1>3. PICK step \in {"drain", "commit"} :
         /\ spend' = [spend EXCEPT ![s] = [spend[s] EXCEPT !.got = next, !.step = step]]
         /\ step = "drain" => next # Last(s)
  BY <1>1 DEF TypeOK, Spend
<1>4. /\ spend'[s].step = step /\ spend'[s].got = next
      /\ spend'[s].user = spend[s].user /\ spend'[s].request = spend[s].request
      /\ Payers(s)' = Payers(s) /\ Last(s)' = Last(s)
      /\ Active(s)' /\ Draining(s)'
      /\ \A t \in Spenders : t # s => spend'[t] = spend[t]
  <2> HIDE DEF next
  <2>1. /\ spend'[s] = [spend[s] EXCEPT !.got = next, !.step = step]
        /\ \A t \in Spenders : t # s => spend'[t] = spend[t]
    BY <1>3 DEF TypeOK
  <2>2. QED
    BY <1>2, <2>1 DEF Spend, Payers, Last, Active, Draining
<1>5. /\ U \subseteq issued /\ U \in SUBSET Buckets /\ U \in SUBSET Nat /\ IsFiniteSet(U)
      /\ \A b \in U : Owner[b] = h /\ remaining[b] \in Nat /\ remaining[b] > 0
  <2>1. U \subseteq issued /\ U \subseteq Buckets /\ \A b \in U : Owner[b] = h /\ remaining[b] > 0
    BY DEF Usable, TypeOK
  <2>2. \A b \in U : remaining[b] \in Nat
    BY <2>1 DEF TypeOK
  <2>3. U \subseteq Nat /\ IsFiniteSet(U)
    BY <2>1, NamesAssumption, FiniteAssumption, FS_Subset
  <2> HIDE DEF U, h
  <2>4. QED
    BY <2>1, <2>2, <2>3
<1>6. \A b \in R : /\ b \notin U
                   /\ \E i \in 1..Last(s) : i < next /\ Owner[b] = Payers(s)[i]
  <2> SUFFICES ASSUME NEW b \in R
               PROVE  b \notin U /\ \E i \in 1..Last(s) : i < next /\ Owner[b] = Payers(s)[i]
    OBVIOUS
  <2>1. PICK i \in 1..Last(s) : Owner[b] = Payers(s)[i] /\ i <= spend[s].got
    BY <1>1 DEF BasketInv
  <2>2. i < next
    BY <1>2, <2>1
  <2>3. Owner[b] # h
    <3>1. i # next
      BY <1>2, <2>2
    <3>2. QED
      BY <1>1, <1>2, <2>1, <3>1, PayersDiffer DEF LedgerInv
  <2> HIDE DEF h, U, next
  <2>4. QED
    BY <1>5, <2>1, <2>2, <2>3
<1>7. Left(s) \in Int
  BY <1>1, LeftIsInt
<1>8. /\ old \in [Buckets -> Nat] /\ R \in SUBSET Buckets
      /\ \A b \in U : old[b] = 0
  <2>1. old \in [Buckets -> Nat] /\ R \in SUBSET Buckets
    BY BasketFacts
  <2>2. \A b \in U : b \in Buckets /\ b \notin R
    BY <1>5, <1>6
  <2>3. QED
    BY <2>1, <2>2 DEF BasketInv
<1>9. Greedy(U, remaining, new, Left(s))
  BY <1>5 DEF Greedy, Ahead, Share, Before
<1>10. \A b \in U : /\ Ahead(U, remaining, b) \in Nat
                    /\ new[b] \in Nat /\ new[b] <= remaining[b]
                    /\ new[b] > 0 => Left(s) > Ahead(U, remaining, b)
  <2> HIDE DEF U, new
  <2>1. QED
    BY <1>5, <1>7, <1>9, ShareBounds
<1>11. /\ new \in [Buckets -> Nat]
       /\ \A b \in Buckets : b \notin U => new[b] = old[b]
  <2>1. \A b \in Buckets : new[b] \in Nat
    BY <1>8, <1>10
  <2>2. QED
    BY <2>1
<1>12. /\ basket'[s].read = R \union U /\ basket'[s].take = new
       /\ basket'[s] \in Basket
       /\ \A t \in Spenders : t # s => basket'[t] = basket[t]
       /\ basket' \in [Spenders -> Basket]
  <2> HIDE DEF U, new
  <2>1. [read |-> R \union U, take |-> new] \in Basket
    BY <1>5, <1>8, <1>11 DEF Basket
  <2>2. QED
    BY <1>1, <2>1 DEF TypeOK
<1>13. Left(s)' = Left(s) - Total(new, U)
  <2> HIDE DEF U, new
  <2>1. /\ \A b \in Buckets : new[b] \in Int /\ old[b] \in Int
        /\ IsFiniteSet(Buckets \ U)
    BY <1>8, <1>11, FiniteAssumption, FS_Subset
  <2>2. /\ Total(new, Buckets) = Total(new, U) + Total(new, Buckets \ U)
        /\ Total(old, Buckets) = Total(old, U) + Total(old, Buckets \ U)
    BY <1>5, <2>1, FiniteAssumption, TotalSplit
  <2>3. Total(old, U) = 0
    BY <1>5, <1>8, TotalZero
  <2>4. Total(new, Buckets \ U) = Total(old, Buckets \ U)
    BY <1>11, <2>1, TotalEqual
  <2>5. Total(new, U) \in Int /\ Total(old, Buckets \ U) \in Int
    <3>1. (\A b \in U : new[b] \in Int) /\ (\A b \in Buckets \ U : old[b] \in Int)
      BY <1>5, <2>1
    <3>2. QED
      BY <1>5, <2>1, <3>1, TotalInt
  <2>6. Price[spend[s].request] \in Int
    BY <1>2, PriceAssumption DEF Spend
  <2>7. /\ Left(s) = Price[spend[s].request] - Total(old, Buckets)
        /\ Left(s)' = Price[spend[s].request] - Total(new, Buckets)
    BY <1>4, <1>12 DEF Left
  <2>8. QED
    BY <2>2, <2>3, <2>4, <2>5, <2>6, <2>7
<1>14. Total(new, U) \in Nat
  <2> HIDE DEF U, new
  <2>1. \A b \in U : new[b] \in Nat
    BY <1>10
  <2>2. QED
    BY <1>5, <2>1, TotalMonotone
<1>15. TypeOK'
  BY <1>1, <1>12 DEF TypeOK, LedgerInv, CtlType
<1> HIDE DEF U, new, h, next
<1>16. BasketInv'
  <2> SUFFICES ASSUME NEW t \in Spenders
      PROVE /\ ~Draining(t)' => basket'[t] = Empty
            /\ \A b \in basket'[t].read :
                  /\ b \in issued
                  /\ \E i \in 1..Last(t)' : Owner[b] = Payers(t)'[i]
                                            /\ (spend'[t].step = "drain" => i <= spend'[t].got)
            /\ \A b \in Buckets : b \notin basket'[t].read => basket'[t].take[b] = 0
    BY <1>1 DEF BasketInv
  <2>1. CASE t # s
    BY <1>4, <1>12, <2>1 DEF BasketInv, Draining, Last, Payers
  <2>2. CASE t = s
    <3>1. ASSUME NEW b \in R \union U
          PROVE  /\ b \in issued
                 /\ \E i \in 1..Last(s) : Owner[b] = Payers(s)[i] /\ i <= next
      <4>1. CASE b \in R
        <5>1. PICK i \in 1..Last(s) : i < next /\ Owner[b] = Payers(s)[i]
          BY <1>6, <4>1
        <5>2. i <= next
          BY <1>2, <5>1
        <5>3. QED
          BY <4>1, <5>1, <5>2 DEF BasketInv
      <4>2. CASE b \in U
        <5>1. Owner[b] = Payers(s)[next] /\ next \in 1..Last(s) /\ next <= next
          BY <1>2, <1>5, <4>2 DEF h
        <5>2. QED
          BY <1>5, <4>2, <5>1
      <4>3. QED
        BY <4>1, <4>2
    <3>2. \A b \in Buckets : b \notin R \union U => new[b] = 0
      BY <1>11 DEF BasketInv
    <3>3. QED
      BY <1>4, <1>12, <2>2, <3>1, <3>2
  <2>3. QED
    BY <2>1, <2>2
<1>17. CoveredInv'
  <2> SUFFICES ASSUME NEW t \in Spenders, NEW b \in basket'[t].read, clawed[b] = 0
               PROVE  basket'[t].take[b] <= remaining[b]
    BY <1>1 DEF CoveredInv
  <2>1. CASE t = s /\ b \in U
    BY <1>10, <1>12, <2>1
  <2>2. CASE t = s /\ b \in R
    BY <1>6, <1>8, <1>11, <1>12, <2>2 DEF CoveredInv
  <2>3. CASE t # s
    BY <1>12, <2>3 DEF CoveredInv
  <2>4. QED
    BY <1>12, <2>1, <2>2, <2>3
<1>18. OrderInv'
  <2>1. ASSUME NEW t \in Spenders, t # s
        PROVE  spend'[t] = spend[t] /\ basket'[t] = basket[t] /\ Left(t)' = Left(t)
    BY <1>4, <1>12, <2>1 DEF Left
  <2>2. ASSUME NEW b \in R \union U,
               \/ Left(s)' > 0
               \/ \E c \in R \union U : Later(c, b, spend[s].user) /\ new[c] > 0
        PROVE  new[b] >= remaining[b]
    <3>1. CASE b \in R
      <4>1. b \notin U /\ new[b] = old[b]
        BY <1>6, <1>8, <1>11, <3>1
      <4>2. CASE Left(s)' > 0
        <5>1. Left(s) > 0
          BY <1>7, <1>13, <1>14, <4>2
        <5>2. QED
          BY <3>1, <4>1, <5>1 DEF OrderInv
      <4>3. ASSUME NEW c \in R, Later(c, b, spend[s].user), new[c] > 0
            PROVE  new[b] >= remaining[b]
        <5>1. new[c] = old[c]
          BY <1>6, <1>8, <1>11
        <5>2. QED
          BY <3>1, <4>1, <4>3, <5>1 DEF OrderInv
      <4>4. ASSUME NEW c \in U, new[c] > 0
            PROVE  new[b] >= remaining[b]
        <5>1. Left(s) > 0
          BY <1>7, <1>10, <4>4
        <5>2. QED
          BY <3>1, <4>1, <5>1 DEF OrderInv
      <4>5. QED
        BY <2>2, <4>2, <4>3, <4>4
    <3>2. CASE b \in U
      <4>1. remaining[b] \in Nat /\ new[b] \in Nat /\ new[b] <= remaining[b] /\ Owner[b] = h
        BY <1>5, <1>10, <3>2
      <4>2. CASE Left(s)' > 0
        <5>1. ~(Total(new, U) >= Left(s))
          BY <1>7, <1>13, <1>14, <4>2
        <5>2. ~(new[b] < remaining[b])
          BY <1>5, <1>7, <1>9, <3>2, <5>1, ShareIsEnough
        <5>3. QED
          BY <4>1, <5>2
      <4>3. ASSUME NEW c \in R, Later(c, b, spend[s].user)
            PROVE  FALSE
        <5>1. PICK i \in 1..Last(s) : i < next /\ Owner[c] = Payers(s)[i]
          BY <1>6
        <5>2. i # next /\ i # Last(s) /\ Last(s) \in 1..Last(s)
          BY <1>2, <5>1
        <5>3. Owner[c] # h
          BY <1>1, <1>2, <5>1, <5>2, PayersDiffer DEF LedgerInv, h
        <5>4. Owner[c] # spend[s].user
          BY <1>1, <1>2, <5>1, <5>2, PayersDiffer, PayerFacts DEF LedgerInv
        <5>5. QED
          BY <4>1, <4>3, <5>3, <5>4 DEF Later
      <4>4. ASSUME NEW c \in U, Later(c, b, spend[s].user), new[c] > 0
            PROVE  new[b] >= remaining[b]
        <5>1. c > b
          BY <1>5, <4>1, <4>4 DEF Later
        <5>2. new[b] = remaining[b]
          BY <1>5, <1>7, <1>9, <3>2, <4>4, <5>1, ShareInOrder
        <5>3. QED
          BY <4>1, <5>2
      <4>5. QED
        BY <2>2, <4>2, <4>3, <4>4
    <3>3. QED
      BY <3>1, <3>2
  <2>3. QED
    <3> SUFFICES ASSUME NEW t \in Spenders, NEW b \in basket'[t].read,
                        \/ Left(t)' > 0
                        \/ \E c \in basket'[t].read :
                              Later(c, b, spend'[t].user) /\ basket'[t].take[c] > 0
                 PROVE  basket'[t].take[b] >= remaining[b]
      BY <1>1 DEF OrderInv, Later
    <3>1. CASE t = s
      BY <1>4, <1>12, <2>2, <3>1
    <3>2. CASE t # s
      BY <2>1, <3>2 DEF OrderInv
    <3>3. QED
      BY <3>1, <3>2
<1>19. UnissuedInv' /\ NeverDrainedTwice' /\ Conserved'
  BY <1>1 DEF UnissuedInv, NeverDrainedTwice, Conserved
<1>20. QED
  BY <1>15, <1>16, <1>17, <1>18, <1>19

\* What a commit writes, in terms of what was set aside.
LEMMA CommitFacts ==
    ASSUME BooksInv, NEW s \in Spenders, Commit(s)
    PROVE  /\ spend[s].step = "commit" /\ Active(s) /\ Draining(s)
           /\ spend[s].user \in Users /\ spend[s].request \in Requests
           /\ charges[spend[s].user][spend[s].request] = 0
           /\ charges' = [charges EXCEPT ![spend[s].user] =
                            [charges[spend[s].user] EXCEPT ![spend[s].request] = 1]]
           /\ debt' = [debt EXCEPT ![spend[s].user] = debt[spend[s].user] - Left(s)]
           /\ \A b \in Buckets : remaining'[b] = remaining[b] - basket[s].take[b]
           /\ remaining' = [b \in Buckets |-> remaining[b] - basket[s].take[b]]
           /\ End(s) /\ basket'[s] = Empty
           /\ basket' = [basket EXCEPT ![s] = Empty]
           /\ \A t \in Spenders : t # s => spend'[t] = spend[t] /\ basket'[t] = basket[t]
           /\ UNCHANGED <<member, issued, expired, clawed>>
<1> USE DEF BooksInv
<1>1. /\ spend[s].step = "commit" /\ Active(s) /\ Draining(s)
      /\ spend[s].user \in Users /\ spend[s].request \in Requests
  BY ActiveRecord DEF Commit, Active, Draining, LedgerInv
<1>2. charges[spend[s].user][spend[s].request] = 0
  BY <1>1 DEF LedgerInv, UnpaidInv
<1>3. charges' = [charges EXCEPT ![spend[s].user] =
                    [charges[spend[s].user] EXCEPT ![spend[s].request] = 1]]
  BY <1>1, <1>2 DEF Commit, TypeOK
<1>4. debt' = [debt EXCEPT ![spend[s].user] = debt[spend[s].user] - Left(s)]
  BY DEF Commit
<1>5. /\ remaining' = [b \in Buckets |-> remaining[b] - basket[s].take[b]]
      /\ End(s) /\ UNCHANGED <<member, issued, expired, clawed>>
  BY DEF Commit, grants
<1>6. /\ basket' = [basket EXCEPT ![s] = Empty]
      /\ \A t \in Spenders : t # s => spend'[t] = spend[t] /\ basket'[t] = basket[t]
  BY <1>5 DEF End, TypeOK
<1>7. basket'[s] = Empty
  BY <1>6 DEF TypeOK
<1>8. QED
  BY <1>1, <1>2, <1>3, <1>4, <1>5, <1>6, <1>7

\* A commit takes what it has set aside, and nobody else has set it aside.
LEMMA CommitBooks ==
    ASSUME BooksInv, LedgerInv', NEW s \in Spenders, Commit(s)
    PROVE  BooksInv'
<1> USE DEF BooksInv
<1> DEFINE u == spend[s].user
           r == spend[s].request
           R == basket[s].read
           take == basket[s].take
<1>1. /\ u \in Users /\ r \in Requests /\ Active(s)
      /\ charges[u][r] = 0
      /\ charges' = [charges EXCEPT ![u] = [charges[u] EXCEPT ![r] = 1]]
      /\ debt' = [debt EXCEPT ![u] = debt[u] - Left(s)]
      /\ basket'[s] = Empty
      /\ UNCHANGED <<issued, expired, clawed>>
  BY CommitFacts
<1>2. \A b \in Buckets : remaining'[b] = remaining[b] - take[b]
  BY CommitFacts
<1>3. \A t \in Spenders : t # s => spend'[t] = spend[t] /\ basket'[t] = basket[t]
  BY CommitFacts
<1>4. /\ take \in [Buckets -> Nat] /\ R \in SUBSET Buckets
      /\ Empty.read = {} /\ Empty.take = [b \in Buckets |-> 0] /\ Empty \in Basket
  BY BasketFacts
<1>5. Left(s) \in Int
  BY <1>1, LeftIsInt
<1>6. \A b \in Buckets : b \notin R => take[b] = 0
  BY DEF BasketInv
<1>7. /\ remaining' \in [Buckets -> Int] /\ debt' \in [Users -> Int]
      /\ basket' \in [Spenders -> Basket]
  <2>1. remaining' = [b \in Buckets |-> remaining[b] - take[b]]
    BY CommitFacts
  <2>2. remaining' \in [Buckets -> Int]
    BY <1>4, <2>1 DEF TypeOK
  <2>3. debt' \in [Users -> Int]
    BY <1>1, <1>5 DEF TypeOK
  <2>4. basket' = [basket EXCEPT ![s] = Empty]
    BY CommitFacts
  <2>5. QED
    BY <1>4, <2>2, <2>3, <2>4 DEF TypeOK
<1>8. TypeOK'
  BY <1>1, <1>7 DEF TypeOK, LedgerInv, CtlType
<1> HIDE DEF u, r, R, take
<1>9. \A t \in Spenders : t # s =>
         /\ Payers(t)' = Payers(t) /\ Last(t)' = Last(t) /\ Left(t)' = Left(t)
         /\ (Draining(t)' <=> Draining(t))
  BY <1>3 DEF Payers, Last, Left, Draining
<1>10. BasketInv'
  <2> SUFFICES ASSUME NEW t \in Spenders
      PROVE /\ ~Draining(t)' => basket'[t] = Empty
            /\ \A b \in basket'[t].read :
                  /\ b \in issued
                  /\ \E i \in 1..Last(t)' : Owner[b] = Payers(t)'[i]
                                            /\ (spend'[t].step = "drain" => i <= spend'[t].got)
            /\ \A b \in Buckets : b \notin basket'[t].read => basket'[t].take[b] = 0
    BY <1>1 DEF BasketInv
  <2>1. CASE t = s
    BY <1>1, <1>4, <2>1
  <2>2. CASE t # s
    BY <1>3, <1>9, <2>2 DEF BasketInv
  <2>3. QED
    BY <2>1, <2>2
<1>11. UnissuedInv'
  <2> SUFFICES ASSUME NEW b \in Buckets, b \notin issued
               PROVE  remaining'[b] = 0
    BY <1>1 DEF UnissuedInv
  <2>1. take[b] = 0 /\ remaining[b] = 0
    BY <1>6 DEF UnissuedInv, BasketInv, R
  <2>2. QED
    BY <1>2, <2>1
<1>12. NeverDrainedTwice'
  <2> SUFFICES ASSUME NEW b \in Buckets, clawed[b] = 0
               PROVE  remaining'[b] >= 0
    BY <1>1 DEF NeverDrainedTwice
  <2>1. remaining[b] \in Int /\ remaining[b] >= 0 /\ take[b] \in Nat
    BY <1>4 DEF TypeOK, NeverDrainedTwice
  <2>2. take[b] <= remaining[b]
    BY <1>6, <2>1 DEF CoveredInv, R, take
  <2>3. QED
    BY <1>2, <2>1, <2>2
<1>13. ASSUME NEW t \in Spenders, NEW b \in basket'[t].read
       PROVE  /\ t # s /\ b \in basket[t].read /\ b \in Buckets
              /\ remaining'[b] = remaining[b]
  <2>1. t # s /\ b \in basket[t].read
    BY <1>1, <1>3, <1>4, <1>13
  <2>2. b \in Buckets /\ b \notin R
    BY <2>1, BasketFacts, ReadByOne DEF R
  <2>3. remaining[b] \in Int
    BY <2>2 DEF TypeOK
  <2>4. QED
    BY <1>2, <1>6, <2>1, <2>2, <2>3
<1>14. CoveredInv'
  BY <1>1, <1>3, <1>13 DEF CoveredInv
<1>15. OrderInv'
  <2> SUFFICES ASSUME NEW t \in Spenders, NEW b \in basket'[t].read,
                      \/ Left(t)' > 0
                      \/ \E c \in basket'[t].read :
                            Later(c, b, spend'[t].user) /\ basket'[t].take[c] > 0
               PROVE  basket'[t].take[b] >= remaining'[b]
    BY DEF OrderInv, Later
  <2>1. t # s /\ b \in basket[t].read /\ remaining'[b] = remaining[b]
    BY <1>13
  <2>2. QED
    BY <1>3, <1>9, <2>1 DEF OrderInv
<1>16. Conserved'
  <2>1. Total(remaining, Buckets) = Total(remaining', Buckets) + Total(take, Buckets)
    <3>1. \A b \in Buckets : /\ remaining'[b] \in Int /\ take[b] \in Int
                             /\ remaining[b] = remaining'[b] + take[b]
      <4> TAKE b \in Buckets
      <4>1. remaining[b] \in Int /\ take[b] \in Int
        BY <1>4 DEF TypeOK
      <4>2. QED
        BY <1>2, <4>1
    <3>2. QED
      BY <3>1, FiniteAssumption, TotalPlus
  <2>2. Total(debt', Users) = Total(debt, Users) - debt[u] + debt'[u]
    <3>1. \A v \in Users : debt[v] \in Int /\ debt'[v] \in Int
      BY <1>7 DEF TypeOK
    <3>2. \A v \in Users : v # u => debt'[v] = debt[v]
      BY <1>1 DEF TypeOK
    <3>3. QED
      <4>1. u \in Users /\ IsFiniteSet(Users)
        BY <1>1, FiniteAssumption
      <4>2. QED
        BY ONLY <3>1, <3>2, <4>1, TotalUpdate
  <2>3. debt'[u] = debt[u] - Left(s) /\ debt[u] \in Int
    BY <1>1 DEF TypeOK
  <2>4. Total(Cost', Users \X Requests) = Total(Cost, Users \X Requests) + Price[r]
    <3> DEFINE D == Users \X Requests
    <3>1. \A ur \in D : Cost[ur] \in Int /\ Cost'[ur] \in Int
      BY <1>8, PriceAssumption DEF TypeOK, Cost
    <3>2. \A ur \in D : ur # <<u, r>> => Cost'[ur] = Cost[ur]
      <4> SUFFICES ASSUME NEW v \in Users, NEW q \in Requests, <<v, q>> # <<u, r>>
                   PROVE  charges'[v][q] = charges[v][q]
        BY DEF Cost
      <4>1. QED
        BY <1>1 DEF TypeOK
    <3>3. <<u, r>> \in D /\ Cost[<<u, r>>] = 0 /\ Cost'[<<u, r>>] = Price[r]
      <4>1. charges'[u][r] = 1 /\ Price[r] \in Nat
        BY <1>1, PriceAssumption DEF TypeOK
      <4>2. QED
        BY <1>1, <4>1 DEF Cost
    <3>4. IsFiniteSet(D)
      BY FiniteAssumption, FS_Product
    <3> DEFINE x == <<u, r>>
               c == Cost
               d == Cost'
    <3> HIDE DEF D, x, c, d
    <3>5. Total(Cost', D) = Total(Cost, D) - Cost[<<u, r>>] + Cost'[<<u, r>>]
      <4>1. /\ x \in D
            /\ \A y \in D : c[y] \in Int /\ d[y] \in Int
            /\ \A y \in D : y # x => d[y] = c[y]
        BY <3>1, <3>2, <3>3 DEF x, c, d
      <4>2. Total(d, D) = Total(c, D) - c[x] + d[x]
        BY ONLY <3>4, <4>1, TotalUpdate
      <4>3. QED
        BY <4>2 DEF x, c, d
    <3>6. Total(Cost, D) \in Int /\ Price[r] \in Int
      BY <1>1, <3>1, <3>4, TotalInt, PriceAssumption
    <3>7. QED
      BY <3>3, <3>5, <3>6 DEF D
  <2>5. Left(s) = Price[r] - Total(take, Buckets)
    BY DEF Left, r, take
  <2>6. SumsAreInt /\ Total(remaining', Buckets) \in Int
    BY <1>7, SumsFacts, FiniteAssumption, TotalInt
  <2>7. Total(take, Buckets) \in Int /\ Price[r] \in Int
    <3>1. \A b \in Buckets : take[b] \in Int
      BY <1>4
    <3>2. QED
      BY <1>1, <3>1, FiniteAssumption, TotalInt, PriceAssumption
  <2>8. QED
    BY <1>1, <2>1, <2>2, <2>3, <2>4, <2>5, <2>6, <2>7 DEF Conserved, SumsAreInt, Cost
<1>17. QED
  BY <1>8, <1>10, <1>11, <1>12, <1>14, <1>15, <1>16

\* Every action of the ledger keeps the books.
LEMMA BooksInvStep == BooksInv /\ [Next]_vars => BooksInv'
<1> SUFFICES ASSUME BooksInv, [Next]_vars PROVE BooksInv'
  OBVIOUS
<1>1. LedgerInv'
  BY LedgerInvStep DEF BooksInv
<1>2. ASSUME UNCHANGED <<issued, books, clawed, spend, basket>>, expired' \subseteq issued
      PROVE  BooksInv'
  <2>1. TypeOK'
    BY <1>1, <1>2 DEF BooksInv, TypeOK, LedgerInv, CtlType, books
  <2>2. QED
    BY <1>1, <1>2, <2>1, QuietStep DEF books
<1>3. ASSUME NEW b \in Buckets, Expire(b) PROVE BooksInv'
  BY <1>2, <1>3 DEF Expire, BooksInv, TypeOK
<1>4. ASSUME NEW u \in Users, ChangeTeam(u) PROVE BooksInv'
  BY <1>2, <1>4 DEF ChangeTeam, grants, BooksInv, TypeOK
<1>5. CASE UNCHANGED vars
  BY <1>2, <1>5 DEF vars, books, BooksInv, TypeOK
<1>6. QED
  BY <1>1, <1>3, <1>4, <1>5, GrantBooks, ZeroGrantBooks, BeforeDrainBooks, DrainBooks, CommitBooks
  DEF Next, Advance

\* The books are always in order.
LEMMA BooksInvAlways == Spec => []BooksInv
BY BooksInvInit, BooksInvStep, PTL DEF Spec

\* The variables keep their types: amounts taken are natural numbers, and only
\* buckets that exist run out.
THEOREM TypeCorrect == Spec => []TypeOK
<1>1. BooksInv => TypeOK
  BY DEF BooksInv
<1>2. QED
  BY <1>1, BooksInvAlways, PTL

\* No credit is lost or made up by any number of spends at once, with grants,
\* refunds and lost connections at any moment.
THEOREM NoCreditIsLost == Spec => []Conserved
<1>1. BooksInv => Conserved
  BY DEF BooksInv
<1>2. QED
  BY <1>1, BooksInvAlways, PTL

\* Without a refund no bucket is drained below zero, however many processes
\* spend from it and whoever joins or leaves its organisation meanwhile.
THEOREM NothingIsSpentTwice == Spec => []NeverDrainedTwice
<1>1. BooksInv => NeverDrainedTwice
  BY DEF BooksInv
<1>2. QED
  BY <1>1, BooksInvAlways, PTL

\* A step that ends one spend and charges somebody is the commit of that spend.
LEMMA ChargedByItsCommit ==
    ASSUME BooksInv, [Next]_vars, NEW s \in Spenders,
           spend[s].step = "commit", spend'[s] = Idle, charges' # charges
    PROVE  Commit(s)
<1>1. ASSUME NEW t \in Spenders, Commit(t) PROVE t = s
  <2>1. t # s => spend'[s] = spend[s]
    BY <1>1, CommitFacts
  <2>2. QED
    BY <2>1 DEF Idle
<1>2. PICK t \in Spenders : Commit(t)
  BY DEF Next, Advance, vars, books, Grant, Expire, ZeroGrant, ChangeTeam,
         Begin, TakeLock, CheckDuplicate, Drain, Abort
<1>3. QED
  BY <1>1, <1>2

\* The organisation pays before the member and the credits that run out first
\* go first, when the spend commits and not only when it reads.
THEOREM SoonestGoesFirst == Spec => SpendsInOrder
<1> DEFINE Ordered == \A s \in Spenders :
        spend[s].step = "commit" /\ spend'[s] = Idle /\ charges' # charges =>
            LET u == spend[s].user IN
            \A b \in basket[s].read :
                (debt'[u] < debt[u] \/ \E c \in basket[s].read : Later(c, b, u) /\ basket[s].take[c] > 0)
                => remaining'[b] <= 0
<1>1. BooksInv /\ [Next]_vars => Ordered
  <2> SUFFICES ASSUME BooksInv, [Next]_vars, NEW s \in Spenders,
                      spend[s].step = "commit", spend'[s] = Idle, charges' # charges,
                      NEW b \in basket[s].read,
                      \/ debt'[spend[s].user] < debt[spend[s].user]
                      \/ \E c \in basket[s].read :
                            Later(c, b, spend[s].user) /\ basket[s].take[c] > 0
               PROVE  remaining'[b] <= 0
    BY DEF Ordered
  <2>1. Commit(s)
    BY ChargedByItsCommit
  <2>2. /\ b \in Buckets /\ basket[s].take[b] \in Nat /\ remaining[b] \in Int
    BY BasketFacts DEF BooksInv, TypeOK
  <2>3. remaining'[b] = remaining[b] - basket[s].take[b]
    BY <2>1, <2>2, CommitFacts
  <2>4. debt'[spend[s].user] < debt[spend[s].user] => Left(s) > 0
    <3>1. /\ spend[s].user \in Users /\ Active(s)
          /\ debt' = [debt EXCEPT ![spend[s].user] = debt[spend[s].user] - Left(s)]
      BY <2>1, CommitFacts
    <3>2. debt[spend[s].user] \in Int /\ Left(s) \in Int
      BY <3>1, LeftIsInt DEF BooksInv, TypeOK
    <3>3. debt'[spend[s].user] = debt[spend[s].user] - Left(s)
      BY <3>1 DEF BooksInv, TypeOK
    <3>4. QED
      BY <3>2, <3>3
  <2>5. basket[s].take[b] >= remaining[b]
    BY <2>4 DEF BooksInv, OrderInv
  <2>6. QED
    BY <2>2, <2>3, <2>5
<1>2. BooksInv /\ [Next]_vars => [Ordered]_vars
  BY <1>1
<1>3. QED
  BY <1>2, BooksInvAlways, PTL DEF Spec, SpendsInOrder
=============================================================================
