---------------------------- MODULE Orders_proofs ----------------------------
(***************************************************************************)
(* Proofs about Orders, for any set of orders, any number of webhook       *)
(* workers, any mix of items and providers, with or without crashes; and    *)
(* about the catalogue at waffo that some of them are paid from.            *)
(***************************************************************************)
EXTENDS Orders, SequenceTheorems, FiniteSetTheorems, TLAPS

Sold(o) == status[o] \in {"paid", "refunded"}

\* Worker w is handing over order o.
Fulfilling(w, o) == Working(w, FALSE) /\ handler[w].notice.order = o

\* A worker stands inside the plan it is carrying out.
InPlan ==
    \A w \in Workers :
        /\ handler[w].step = "mark" => handler[w].next = 1
        /\ handler[w].step = "work" => handler[w].next \in 1..Size(handler[w].notice)

TypeInv == TypeOK /\ InPlan

\* Fulfilment is a non-empty list of at most five pieces without repetition,
\* and so, but for the bound, is Revocation.
LEMMA PlanFacts ==
    ASSUME NEW kind \in Kinds
    PROVE  /\ Fulfilment(kind) \in Seq(Pieces)
           /\ Len(Fulfilment(kind)) \in 1..5
           /\ \A i, j \in 1..Len(Fulfilment(kind)) :
                 Fulfilment(kind)[i] = Fulfilment(kind)[j] => i = j
           /\ Revocation(kind) \in Seq(Pieces)
           /\ Len(Revocation(kind)) \in 1..5
<1>1. CASE kind = "plan"
  BY <1>1 DEF Fulfilment, Revocation, Pieces
<1>2. CASE kind = "pass"
  BY <1>2 DEF Fulfilment, Revocation, Pieces
<1>3. CASE kind = "pack"
  BY <1>3 DEF Fulfilment, Revocation, Pieces
<1>4. CASE kind = "seats"
  BY <1>4 DEF Fulfilment, Revocation, Pieces
<1>5. QED
  BY <1>1, <1>2, <1>3, <1>4 DEF Kinds

\* The plan of any notice has one to five pieces.
LEMMA NoticePlan ==
    ASSUME NEW n \in Notices
    PROVE  /\ n.order \in Orders
           /\ Plan(n) \in Seq(Pieces)
           /\ Size(n) \in 1..5
BY PlanFacts, KindAssumption DEF Plan, Size, Notices

\* A worker whose record has a step other than "idle" has taken a notice.
LEMMA BusyWorker ==
    ASSUME TypeOK, NEW w \in Workers, handler[w].step # "idle"
    PROVE  /\ handler[w] \in Busy
           /\ handler[w].notice \in Notices
           /\ handler[w].notice.order \in Orders
           /\ handler[w].next \in 1..6
BY DEF TypeOK, Idle, Busy, Notices

\* A worker that is handing over or taking back is at some piece of an order.
LEMMA PieceAtWork ==
    ASSUME TypeInv, NEW w \in Workers, NEW refund \in BOOLEAN, Working(w, refund)
    PROVE  /\ handler[w] \in Busy
           /\ handler[w].notice \in Notices
           /\ handler[w].notice.order \in Orders
           /\ handler[w].next \in 1..Size(handler[w].notice)
           /\ Size(handler[w].notice) \in 1..5
           /\ Plan(handler[w].notice)[handler[w].next] \in Pieces
<1>1. handler[w].step = "work"
  BY DEF Working
<1>2. /\ handler[w] \in Busy /\ handler[w].notice \in Notices
      /\ handler[w].notice.order \in Orders
  BY <1>1, BusyWorker DEF TypeInv
<1>3. handler[w].next \in 1..Size(handler[w].notice)
  BY <1>1 DEF TypeInv, InPlan
<1>4. Plan(handler[w].notice) \in Seq(Pieces) /\ Size(handler[w].notice) \in 1..5
  BY <1>2, NoticePlan
<1>5. Plan(handler[w].notice)[handler[w].next] \in Pieces
  BY <1>3, <1>4, ElementOfSeq DEF Size
<1>6. QED
  BY <1>2, <1>3, <1>4, <1>5

-----------------------------------------------------------------------------
(* Types.                                                                   *)

\* An empty shop is well-typed and nobody is at work.
LEMMA TypeInvInit == Init => TypeInv
BY DEF Init, TypeInv, TypeOK, InPlan, Idle

\* Every action keeps the types, and every worker inside the plan of its notice.
LEMMA TypeInvStep == TypeInv /\ [Next]_vars => TypeInv'
<1> SUFFICES ASSUME TypeInv, [Next]_vars PROVE TypeInv'
  OBVIOUS
<1> USE DEF TypeInv
<1>1. ASSUME NEW o \in Orders, CreateOrder(o) PROVE TypeInv'
  BY <1>1 DEF CreateOrder, TypeOK, InPlan
<1>2. ASSUME NEW o \in Orders, Pay(o) PROVE TypeInv'
  BY <1>2 DEF Pay, Send, TypeOK, InPlan, Notices
<1>3. ASSUME NEW o \in Orders, Refund(o) PROVE TypeInv'
  BY <1>3 DEF Refund, Send, TypeOK, InPlan, Notices
<1>4. ASSUME NEW o \in Orders, AnnounceEarly(o) PROVE TypeInv'
  BY <1>4 DEF AnnounceEarly, Send, TypeOK, InPlan, Notices
<1>5. ASSUME NEW o \in Orders, Resend(o) PROVE TypeInv'
  BY <1>5 DEF Resend, Send, TypeOK, InPlan, Notices
<1>6. ASSUME ExpireStalePending PROVE TypeInv'
  BY <1>6 DEF ExpireStalePending, Unpaid, TypeOK, InPlan
<1>7. ASSUME NEW w \in Workers, NEW n \in Notices, Deliver(w, n) PROVE TypeInv'
  <2>1. PICK step \in {"mark", "ack"} :
          handler' = [handler EXCEPT ![w] = [step |-> step, notice |-> n, next |-> 1]]
    BY <1>7 DEF Deliver
  <2>2. n.order \in Orders
    BY DEF Notices
  <2>3. unanswered' \subseteq Orders
    BY <1>7, <2>2 DEF Deliver, TypeOK
  <2>4. UNCHANGED <<status, trade, outbox, given, taken>>
    BY <1>7 DEF Deliver
  <2>5. QED
    BY <2>1, <2>3, <2>4 DEF TypeOK, InPlan, Busy
<1>8. ASSUME NEW w \in Workers, Mark(w) PROVE TypeInv'
  <2>1. /\ handler[w] \in Busy /\ handler[w].notice \in Notices
        /\ handler[w].notice.order \in Orders /\ handler[w].next = 1
    BY <1>8, BusyWorker DEF Mark, From, InPlan
  <2>2. /\ \E s \in {"work", "ack"} : handler' = [handler EXCEPT ![w].step = s]
        /\ status' \in [Orders -> {"none", "pending", "expired", "paid", "refunded"}]
    BY <1>8, <2>1 DEF Mark, From, TypeOK
  <2>3. TypeOK'
    BY <1>8, <2>1, <2>2 DEF Mark, From, TypeOK, Busy
  <2>4. InPlan'
    <3>1. Size(handler[w].notice) \in 1..5
      BY <2>1, NoticePlan
    <3>2. \A v \in Workers : /\ handler'[v].notice = handler[v].notice
                             /\ handler'[v].next = handler[v].next
                             /\ v # w => handler'[v] = handler[v]
      BY <2>1, <2>2 DEF TypeOK, Busy, Idle
    <3>3. handler'[w].step \in {"work", "ack"}
      BY <2>1, <2>2 DEF TypeOK, Busy
    <3>4. QED
      BY <2>1, <3>1, <3>2, <3>3 DEF InPlan
  <2>5. QED
    BY <2>3, <2>4
<1>9. ASSUME NEW w \in Workers, NEW refund \in BOOLEAN, Working(w, refund), Advance(w)
      PROVE  handler' \in [Workers -> {Idle} \union Busy] /\ InPlan'
  <2>1. /\ handler[w] \in Busy /\ handler[w].notice \in Notices
        /\ handler[w].next \in 1..Size(handler[w].notice)
    BY <1>9, PieceAtWork
  <2>2. Size(handler[w].notice) \in 1..5
    BY <1>9, PieceAtWork
  <2>3. \E s \in {"work", "ack"} :
           /\ handler' = [handler EXCEPT ![w] = [step |-> s, notice |-> handler[w].notice,
                                                 next |-> handler[w].next + 1]]
           /\ s = "work" => handler[w].next # Size(handler[w].notice)
    BY <1>9, <2>1 DEF Advance, TypeOK, Busy
  <2>4. PICK s \in {"work", "ack"} :
           /\ handler' = [handler EXCEPT ![w] = [step |-> s, notice |-> handler[w].notice,
                                                 next |-> handler[w].next + 1]]
           /\ s = "work" => handler[w].next # Size(handler[w].notice)
    BY <2>3
  <2>5. handler[w].next + 1 \in 2..6
    BY <2>1, <2>2
  <2>6. [step |-> s, notice |-> handler[w].notice, next |-> handler[w].next + 1] \in Busy
    BY <2>1, <2>5 DEF Busy
  <2>7. handler' \in [Workers -> {Idle} \union Busy]
    BY <2>4, <2>6 DEF TypeOK
  <2>8. InPlan'
    <3>1. s = "work" => handler[w].next + 1 \in 1..Size(handler[w].notice)
      BY <2>1, <2>2, <2>4
    <3>2. QED
      BY <2>1, <2>4, <3>1 DEF TypeOK, InPlan
  <2>9. QED
    BY <2>7, <2>8
<1>10. ASSUME NEW w \in Workers, Fulfil(w) PROVE TypeInv'
  <2>1. handler' \in [Workers -> {Idle} \union Busy] /\ InPlan'
    BY <1>9, <1>10 DEF Fulfil
  <2>2. given' \in [Orders -> [Pieces -> Nat]]
    <3> DEFINE o == handler[w].notice.order
               p == Plan(handler[w].notice)[handler[w].next]
    <3>1. o \in Orders /\ p \in Pieces
      BY <1>10, PieceAtWork DEF Fulfil
    <3>2. given' = [given EXCEPT ![o] = [given[o] EXCEPT ![p] = given[o][p] + 1]]
      BY <1>10, <3>1 DEF Fulfil, TypeOK
    <3>3. given[o] \in [Pieces -> Nat] /\ given[o][p] + 1 \in Nat
      BY <3>1 DEF TypeOK
    <3>4. [given[o] EXCEPT ![p] = given[o][p] + 1] \in [Pieces -> Nat]
      BY <3>1, <3>3
    <3>5. QED
      BY <3>1, <3>2, <3>4 DEF TypeOK
  <2>3. QED
    BY <1>10, <2>1, <2>2 DEF Fulfil, TypeOK
<1>11. ASSUME NEW w \in Workers, Revoke(w) PROVE TypeInv'
  <2>1. handler' \in [Workers -> {Idle} \union Busy] /\ InPlan'
    BY <1>9, <1>11 DEF Revoke
  <2>2. taken' \in [Orders -> [Pieces -> Nat]]
    <3> DEFINE o == handler[w].notice.order
               p == Plan(handler[w].notice)[handler[w].next]
    <3>1. o \in Orders /\ p \in Pieces
      BY <1>11, PieceAtWork DEF Revoke
    <3>2. given[o][p] \in Nat /\ taken[o][p] \in Nat /\ taken[o] \in [Pieces -> Nat]
      BY <3>1 DEF TypeOK
    <3> DEFINE days == IF \E x \in Orders : given[x]["subscription"] > 0 THEN 1 ELSE 0
               after == IF p = "subscription" THEN taken[o][p] + days ELSE given[o][p]
    <3>3. days \in Nat /\ after \in Nat
      <4>1. days \in Nat
        OBVIOUS
      <4> HIDE DEF days, o, p
      <4>2. QED
        BY ONLY <3>2, <4>1
    <3>4. taken' = [taken EXCEPT ![o] = [taken[o] EXCEPT ![p] = after]]
      BY <1>11, <3>1 DEF Revoke, TypeOK
    <3>5. PICK k \in Nat : taken' = [taken EXCEPT ![o] = [taken[o] EXCEPT ![p] = k]]
      <4> HIDE DEF after
      <4>1. QED
        BY <3>3, <3>4
    <3>6. [taken[o] EXCEPT ![p] = k] \in [Pieces -> Nat]
      BY <3>1, <3>2
    <3>7. QED
      BY <3>1, <3>5, <3>6 DEF TypeOK
  <2>3. QED
    BY <1>11, <2>1, <2>2 DEF Revoke, TypeOK
<1>12. ASSUME NEW w \in Workers, Ack(w) PROVE TypeInv'
  BY <1>12 DEF Ack, TypeOK, InPlan, Idle
<1>13. ASSUME NEW w \in Workers, Crash(w) PROVE TypeInv'
  BY <1>13 DEF Crash, TypeOK, InPlan, Idle
<1>14. CASE UNCHANGED vars
  BY <1>14 DEF vars, TypeOK, InPlan, Plan
<1>15. QED
  BY <1>1, <1>2, <1>3, <1>4, <1>5, <1>6, <1>7, <1>8, <1>10, <1>11, <1>12, <1>13, <1>14
  DEF Next, Handle

\* The order rows, the provider's books, the notices and the workers keep
\* their types whatever the workers do.
THEOREM TypeCorrect == Spec => []TypeOK
<1>1. Spec => []TypeInv
  BY TypeInvInit, TypeInvStep, PTL DEF Spec
<1>2. TypeInv => TypeOK
  BY DEF TypeInv
<1>3. QED
  BY <1>1, <1>2, PTL

-----------------------------------------------------------------------------
(* Exactly-once: why no piece is handed out twice.  An order that is not    *)
(* sold has handed out nothing and nobody works on it; the one conditional  *)
(* UPDATE that sells it therefore starts its only fulfilling worker; and    *)
(* what that worker has still to hand out has not been handed out.          *)

NothingBeforeSale ==
    \A o \in Orders : ~Sold(o) => /\ \A p \in Pieces : given[o][p] = 0
                                  /\ \A w \in Workers : ~Fulfilling(w, o)

OneFulfiller ==
    \A o \in Orders : \A v, w \in Workers : Fulfilling(v, o) /\ Fulfilling(w, o) => v = w

AheadIsEmpty ==
    \A w \in Workers : Working(w, FALSE) =>
        \A i \in 1..Size(handler[w].notice) :
            i >= handler[w].next => given[handler[w].notice.order][Plan(handler[w].notice)[i]] = 0

OnceInv == AtMostOnce /\ NothingBeforeSale /\ OneFulfiller /\ AheadIsEmpty

\* A step that hands out nothing, un-sells nothing and starts nobody keeps it.
LEMMA OnceKept ==
    ASSUME TypeInv, OnceInv, given' = given,
           \A o \in Orders : Sold(o) => Sold(o)',
           \A w \in Workers : Working(w, FALSE)' => Working(w, FALSE) /\ handler'[w] = handler[w]
    PROVE  OnceInv'
<1>1. AtMostOnce'
  BY DEF OnceInv, AtMostOnce
<1>2. NothingBeforeSale'
  BY DEF OnceInv, NothingBeforeSale, Fulfilling
<1>3. OneFulfiller'
  BY DEF OnceInv, OneFulfiller, Fulfilling
<1>4. AheadIsEmpty'
  <2> SUFFICES ASSUME NEW w \in Workers, Working(w, FALSE)'
               PROVE  (\A i \in 1..Size(handler[w].notice) : i >= handler[w].next =>
                         given[handler[w].notice.order][Plan(handler[w].notice)[i]] = 0)'
    BY DEF AheadIsEmpty
  <2>1. Working(w, FALSE) /\ handler'[w] = handler[w]
    OBVIOUS
  <2>2. \A i \in 1..Size(handler[w].notice) : i >= handler[w].next =>
            given[handler[w].notice.order][Plan(handler[w].notice)[i]] = 0
    BY <2>1 DEF OnceInv, AheadIsEmpty
  <2>3. QED
    BY ONLY <2>1, <2>2, given' = given
<1>5. QED
  BY <1>1, <1>2, <1>3, <1>4 DEF OnceInv

\* An empty shop has handed out nothing.
LEMMA OnceInvInit == Init => OnceInv
BY DEF Init, OnceInv, AtMostOnce, NothingBeforeSale, OneFulfiller, AheadIsEmpty, Sold,
       Fulfilling, Working, Idle

\* The conditional UPDATE of mark_paid and mark_refunded.
LEMMA OnceInvMark ==
    ASSUME TypeInv, OnceInv, NEW w \in Workers, Mark(w)
    PROVE  OnceInv'
<1> DEFINE n == handler[w].notice
<1>1. handler[w] \in Busy /\ n \in Notices /\ n.order \in Orders /\ handler[w].next = 1
  BY BusyWorker DEF Mark, From, TypeInv, InPlan
<1>2. /\ \A v \in Workers : v # w => handler'[v] = handler[v]
      /\ handler'[w].notice = n /\ handler'[w].next = 1
      /\ handler'[w].step \in {"work", "ack"}
      /\ given' = given
  BY <1>1 DEF Mark, From, TypeInv, TypeOK, Busy
<1>3. \A o \in Orders : Sold(o) => Sold(o)'
  BY <1>1 DEF Mark, From, TypeInv, TypeOK, Sold
<1>4. CASE ~Working(w, FALSE)'
  BY <1>2, <1>3, <1>4, OnceKept DEF Working
<1>5. CASE Working(w, FALSE)'
  <2>1. n.event # "refund" /\ ~Sold(n.order) /\ Sold(n.order)'
    BY <1>1, <1>2, <1>5 DEF Mark, From, Working, Sold, TypeInv, TypeOK, Busy
  <2>2. /\ \A p \in Pieces : given[n.order][p] = 0
        /\ \A v \in Workers : ~Fulfilling(v, n.order)
    BY <1>1, <2>1 DEF OnceInv, NothingBeforeSale
  <2>3. AtMostOnce'
    BY <1>2 DEF OnceInv, AtMostOnce
  <2>4. NothingBeforeSale'
    BY <1>1, <1>2, <1>3, <2>1 DEF OnceInv, NothingBeforeSale, Fulfilling, Working
  <2>5. OneFulfiller'
    BY <1>1, <1>2, <2>2 DEF OnceInv, OneFulfiller, Fulfilling, Working
  <2>6. AheadIsEmpty'
    <3>1. \A i \in 1..Size(n) : Plan(n)[i] \in Pieces
      BY <1>1, NoticePlan, ElementOfSeq DEF Size
    <3>2. QED
      BY <1>1, <1>2, <2>2, <3>1 DEF OnceInv, AheadIsEmpty, Working
  <2>7. QED
    BY <2>3, <2>4, <2>5, <2>6 DEF OnceInv
<1>6. QED
  BY <1>4, <1>5

\* Handing over one piece.
LEMMA OnceInvFulfil ==
    ASSUME TypeInv, OnceInv, NEW w \in Workers, Fulfil(w)
    PROVE  OnceInv'
<1> DEFINE n == handler[w].notice
           o == n.order
           k == handler[w].next
           p == Plan(n)[k]
<1>1. /\ Working(w, FALSE) /\ handler[w] \in Busy /\ n \in Notices /\ o \in Orders
      /\ k \in 1..Size(n) /\ Size(n) \in 1..5 /\ p \in Pieces
  BY PieceAtWork DEF Fulfil
<1>2. Fulfilling(w, o) /\ n.event # "refund"
  BY <1>1 DEF Fulfilling, Working
<1>3. given[o][p] = 0
  <2>1. k \in Int /\ k >= k
    BY <1>1
  <2>2. QED
    BY <1>1, <2>1 DEF OnceInv, AheadIsEmpty
<1>4. given' = [given EXCEPT ![o] = [given[o] EXCEPT ![p] = 1]]
  BY <1>1, <1>3 DEF Fulfil, TypeInv, TypeOK
<1>5. /\ \A v \in Workers : v # w => handler'[v] = handler[v]
      /\ handler'[w].notice = n /\ handler'[w].next = k + 1 /\ status' = status
  BY <1>1 DEF Fulfil, Advance, TypeInv, TypeOK, Busy
<1>6. \A x \in Orders : \A q \in Pieces :
         given'[x][q] = IF x = o /\ q = p THEN 1 ELSE given[x][q]
  BY <1>1, <1>4 DEF TypeInv, TypeOK
<1>7. \A v \in Workers : Working(v, FALSE)' => Working(v, FALSE)
  BY <1>1, <1>2, <1>5 DEF Working
<1>8. AtMostOnce'
  BY <1>6 DEF OnceInv, AtMostOnce
<1>9. NothingBeforeSale'
  <2>1. Sold(o)
    BY <1>1, <1>2 DEF OnceInv, NothingBeforeSale
  <2>2. ASSUME NEW x \in Orders, ~Sold(x)' PROVE ~Sold(x) /\ x # o
    BY <1>5, <2>1, <2>2 DEF Sold
  <2>3. \A x \in Orders : \A v \in Workers : Fulfilling(v, x)' => Fulfilling(v, x)
    BY <1>5, <1>7 DEF Fulfilling
  <2>4. QED
    BY <1>6, <2>2, <2>3 DEF OnceInv, NothingBeforeSale
<1>10. OneFulfiller'
  BY <1>5, <1>7 DEF OnceInv, OneFulfiller, Fulfilling
<1>11. AheadIsEmpty'
  <2> SUFFICES ASSUME NEW v \in Workers, Working(v, FALSE)',
                      NEW i \in 1..Size(handler'[v].notice), i >= handler'[v].next
               PROVE  given'[handler'[v].notice.order][Plan(handler'[v].notice)[i]] = 0
    BY DEF AheadIsEmpty
  <2>1. Working(v, FALSE)
    BY <1>7
  <2>2. CASE v = w
    <3>1. i \in 1..Size(n) /\ i >= k /\ i # k
      BY <1>1, <1>5, <2>2
    <3>2. Plan(n)[i] \in Pieces /\ given[o][Plan(n)[i]] = 0
      BY <1>1, <3>1, NoticePlan, ElementOfSeq DEF OnceInv, AheadIsEmpty, Size
    <3>3. Plan(n)[i] # p
      BY <1>1, <1>2, <3>1, PlanFacts, KindAssumption DEF Plan, Size
    <3>4. QED
      BY <1>1, <1>5, <1>6, <2>2, <3>2, <3>3
  <2>3. CASE v # w
    <3>1. /\ handler'[v] = handler[v] /\ handler[v].notice \in Notices
          /\ handler[v].notice.order \in Orders
      BY <1>5, <2>1, <2>3, PieceAtWork
    <3>2. handler[v].notice.order # o
      BY <1>1, <1>2, <2>1, <2>3 DEF OnceInv, OneFulfiller, Fulfilling
    <3>3. Plan(handler[v].notice)[i] \in Pieces
      BY <3>1, NoticePlan, ElementOfSeq DEF Size
    <3>4. given[handler[v].notice.order][Plan(handler[v].notice)[i]] = 0
      BY <2>1, <3>1 DEF OnceInv, AheadIsEmpty
    <3>5. QED
      BY <1>6, <3>1, <3>2, <3>3, <3>4
  <2>4. QED
    BY <2>2, <2>3
<1>12. QED
  BY <1>8, <1>9, <1>10, <1>11 DEF OnceInv

\* Every action keeps the invariant behind exactly-once: the sale picks one
\* worker, and only that worker hands over the pieces that are ahead of it.
LEMMA OnceInvStep == TypeInv /\ OnceInv /\ [Next]_vars => OnceInv'
<1> SUFFICES ASSUME TypeInv, OnceInv, [Next]_vars PROVE OnceInv'
  OBVIOUS
<1>1. ASSUME NEW o \in Orders, CreateOrder(o) PROVE OnceInv'
  BY <1>1, OnceKept DEF CreateOrder, Sold, Working, TypeInv, TypeOK
<1>2. ASSUME NEW o \in Orders, Pay(o) \/ Refund(o) \/ AnnounceEarly(o) \/ Resend(o) PROVE OnceInv'
  BY <1>2, OnceKept DEF Pay, Refund, AnnounceEarly, Resend, Sold, Working
<1>3. ASSUME ExpireStalePending PROVE OnceInv'
  BY <1>3, OnceKept DEF ExpireStalePending, Unpaid, Sold, Working, TypeInv, TypeOK
<1>4. ASSUME NEW w \in Workers, NEW n \in Notices, Deliver(w, n) PROVE OnceInv'
  <2>1. /\ \A v \in Workers : v # w => handler'[v] = handler[v]
        /\ handler'[w].step \in {"mark", "ack"}
    BY <1>4 DEF Deliver, TypeInv, TypeOK
  <2>2. \A v \in Workers : Working(v, FALSE)' => Working(v, FALSE) /\ handler'[v] = handler[v]
    BY <2>1 DEF Working
  <2>3. QED
    BY <1>4, <2>2, OnceKept DEF Deliver, Sold
<1>5. ASSUME NEW w \in Workers, Revoke(w) PROVE OnceInv'
  <2>1. Working(w, TRUE) /\ handler[w] \in Busy
    BY <1>5, PieceAtWork DEF Revoke
  <2>2. /\ \A v \in Workers : v # w => handler'[v] = handler[v]
        /\ handler'[w].notice = handler[w].notice
    BY <1>5, <2>1 DEF Revoke, Advance, TypeInv, TypeOK, Busy
  <2>3. \A v \in Workers : Working(v, FALSE)' => Working(v, FALSE) /\ handler'[v] = handler[v]
    BY <2>1, <2>2 DEF Working
  <2>4. QED
    BY <1>5, <2>3, OnceKept DEF Revoke, Sold
<1>6. ASSUME NEW w \in Workers, Ack(w) \/ Crash(w) PROVE OnceInv'
  <2>1. /\ \A v \in Workers : v # w => handler'[v] = handler[v]
        /\ handler'[w].step = "idle"
    BY <1>6 DEF Ack, Crash, Idle, TypeInv, TypeOK
  <2>2. \A v \in Workers : Working(v, FALSE)' => Working(v, FALSE) /\ handler'[v] = handler[v]
    BY <2>1 DEF Working
  <2>3. given' = given /\ status' = status
    BY <1>6 DEF Ack, Crash
  <2>4. QED
    BY <2>2, <2>3, OnceKept DEF Sold
<1>7. CASE UNCHANGED vars
  BY <1>7, OnceKept DEF vars, Sold, Working
<1>8. QED
  BY <1>1, <1>2, <1>3, <1>4, <1>5, <1>6, <1>7, OnceInvMark, OnceInvFulfil DEF Next, Handle

\* No piece of an order is handed out twice, for any number of workers, with
\* repeated notices and crashes: the single pending-to-paid transition.
THEOREM ExactlyOnce == Spec => []AtMostOnce
<1>1. Init => TypeInv /\ OnceInv
  BY TypeInvInit, OnceInvInit
<1>2. TypeInv /\ OnceInv /\ [Next]_vars => (TypeInv /\ OnceInv)'
  BY TypeInvStep, OnceInvStep
<1>3. OnceInv => AtMostOnce
  BY DEF OnceInv
<1>4. QED
  BY <1>1, <1>2, <1>3, PTL DEF Spec

-----------------------------------------------------------------------------
(* Money first: a "paid" notice follows the money, an early one is checked  *)
(* with the provider, so only paid orders reach the UPDATE.                 *)

Covered(o) == trade[o] # "unpaid"

MoneyInv ==
    /\ \A n \in outbox : /\ n.event = "paid" => Covered(n.order)
                         /\ n.event = "early" => Provider[n.order] # "waffo"
    /\ \A w \in Workers : handler[w].step = "mark" /\ handler[w].notice.event # "refund"
                            => Covered(handler[w].notice.order)
    /\ \A o \in Orders : Sold(o) => Covered(o)

\* Nobody holds a confirmed announcement before the first one.
LEMMA MoneyInvInit == Init => MoneyInv
BY DEF Init, MoneyInv, Sold, Idle

\* Every action keeps it: a notice gets past Confirmed only with the money there,
\* and money that was there never counts as unpaid again.
LEMMA MoneyInvStep == TypeInv /\ MoneyInv /\ [Next]_vars => MoneyInv'
<1> SUFFICES ASSUME TypeInv, MoneyInv, [Next]_vars PROVE MoneyInv'
  OBVIOUS
<1> USE DEF TypeInv
<1>1. ASSUME NEW o \in Orders, CreateOrder(o) PROVE MoneyInv'
  BY <1>1 DEF CreateOrder, MoneyInv, Sold, Covered, TypeOK
<1>2. ASSUME NEW o \in Orders, Pay(o) PROVE MoneyInv'
  <2>1. \A x \in Orders : Covered(x) => Covered(x)'
    BY <1>2 DEF Pay, Covered, TypeOK
  <2>2. Covered(o)' /\ outbox' = outbox \union {[event |-> "paid", order |-> o]}
    BY <1>2 DEF Pay, Send, Covered, TypeOK
  <2>3. \A n \in Notices : n.order \in Orders
    BY DEF Notices
  <2>4. QED
    <3>1. UNCHANGED <<handler, status>> /\ outbox \subseteq Notices
      BY <1>2 DEF Pay, TypeOK
    <3>2. (\A n \in outbox : /\ n.event = "paid" => Covered(n.order)
                             /\ n.event = "early" => Provider[n.order] # "waffo")'
      BY <2>1, <2>2, <2>3, <3>1 DEF MoneyInv
    <3>3. (\A w \in Workers : handler[w].step = "mark" /\ handler[w].notice.event # "refund"
                              => Covered(handler[w].notice.order))'
      <4>1. \A w \in Workers : handler[w].step = "mark" /\ handler[w].notice.event # "refund"
              => Covered(handler[w].notice.order) /\ handler[w].notice.order \in Orders
        BY BusyWorker DEF MoneyInv
      <4>2. QED
        BY <2>1, <3>1, <4>1
    <3>4. (\A x \in Orders : Sold(x) => Covered(x))'
      BY <2>1, <3>1 DEF MoneyInv, Sold
    <3>5. QED
      BY <3>2, <3>3, <3>4 DEF MoneyInv
<1>3. ASSUME NEW o \in Orders, Refund(o) PROVE MoneyInv'
  <2>1. \A x \in Orders : Covered(x)' = Covered(x)
    BY <1>3 DEF Refund, Covered, TypeOK
  <2>2. outbox' = outbox \union {[event |-> "refund", order |-> o]}
    BY <1>3 DEF Refund, Send
  <2>3. \A n \in Notices : n.order \in Orders
    BY DEF Notices
  <2>4. QED
    <3>1. UNCHANGED <<handler, status>> /\ outbox \subseteq Notices
      BY <1>3 DEF Refund, TypeOK
    <3>2. (\A n \in outbox : /\ n.event = "paid" => Covered(n.order)
                             /\ n.event = "early" => Provider[n.order] # "waffo")'
      BY <2>1, <2>2, <2>3, <3>1 DEF MoneyInv
    <3>3. (\A w \in Workers : handler[w].step = "mark" /\ handler[w].notice.event # "refund"
                              => Covered(handler[w].notice.order))'
      <4>1. \A w \in Workers : handler[w].step = "mark" /\ handler[w].notice.event # "refund"
              => Covered(handler[w].notice.order) /\ handler[w].notice.order \in Orders
        BY BusyWorker DEF MoneyInv
      <4>2. QED
        BY <2>1, <3>1, <4>1
    <3>4. (\A x \in Orders : Sold(x) => Covered(x))'
      BY <2>1, <3>1 DEF MoneyInv, Sold
    <3>5. QED
      BY <3>2, <3>3, <3>4 DEF MoneyInv
<1>4. ASSUME NEW o \in Orders, AnnounceEarly(o) PROVE MoneyInv'
  BY <1>4 DEF AnnounceEarly, Send, MoneyInv, Sold, Covered
<1>5. ASSUME NEW o \in Orders, Resend(o) PROVE MoneyInv'
  BY <1>5 DEF Resend, Send, MoneyInv, Sold, Covered
<1>6. ASSUME ExpireStalePending PROVE MoneyInv'
  BY <1>6 DEF ExpireStalePending, Unpaid, MoneyInv, Sold, Covered, TypeOK
<1>7. ASSUME NEW w \in Workers, NEW n \in Notices, Deliver(w, n) PROVE MoneyInv'
  <2>1. n.order \in Orders /\ n.event \in {"early", "paid", "refund"} /\ n \in outbox
    BY <1>7 DEF Deliver, Notices
  <2>2. Confirmed(n) /\ n.event # "refund" => Covered(n.order)
    BY <2>1, ProviderAssumption DEF Confirmed, StripeConfirms, AlipayConfirms,
                                 WechatConfirms, MoneyInv, Covered, Providers
  <2>3. /\ \A v \in Workers : v # w => handler'[v] = handler[v]
        /\ handler'[w].step = "mark" /\ n.event # "refund" => Confirmed(n)
        /\ handler'[w].notice = n
    <3>1. PICK verdict \in Verdicts(n) :
            handler' = [handler EXCEPT ![w] =
              [step |-> IF verdict THEN "mark" ELSE "ack", notice |-> n, next |-> 1]]
      BY <1>7 DEF Deliver
    <3>2. verdict /\ n.event # "refund" => Confirmed(n)
      BY DEF Verdicts
    <3>3. QED
      BY <3>1, <3>2 DEF TypeOK
  <2>4. QED
    BY <1>7, <2>1, <2>2, <2>3 DEF Deliver, MoneyInv, Sold, Covered
<1>8. ASSUME NEW w \in Workers, Mark(w) PROVE MoneyInv'
  <2>1. handler[w] \in Busy /\ handler[w].notice.order \in Orders
    BY <1>8, BusyWorker DEF Mark, From
  <2>2. /\ \A v \in Workers : v # w => handler'[v] = handler[v]
        /\ handler'[w].step # "mark"
    BY <1>8, <2>1 DEF Mark, From, TypeOK, Busy
  <2>3. \A o \in Orders : Sold(o)' => Sold(o) \/ Covered(o)
    BY <1>8, <2>1 DEF Mark, From, MoneyInv, Sold, TypeOK
  <2>4. QED
    BY <1>8, <2>2, <2>3 DEF Mark, From, MoneyInv, Covered
<1>9. ASSUME NEW w \in Workers, NEW refund \in BOOLEAN, Working(w, refund), Advance(w),
             UNCHANGED <<status, trade, outbox>>
      PROVE  MoneyInv'
  <2>1. /\ \A v \in Workers : v # w => handler'[v] = handler[v]
        /\ handler'[w].step # "mark"
    BY <1>9, PieceAtWork DEF Advance, TypeOK, Busy
  <2>2. QED
    BY <1>9, <2>1 DEF MoneyInv, Sold, Covered
<1>10. ASSUME NEW w \in Workers, Fulfil(w) \/ Revoke(w) PROVE MoneyInv'
  BY <1>9, <1>10 DEF Fulfil, Revoke
<1>11. ASSUME NEW w \in Workers, Ack(w) \/ Crash(w) PROVE MoneyInv'
  <2>1. /\ \A v \in Workers : v # w => handler'[v] = handler[v]
        /\ handler'[w].step = "idle" /\ status' = status /\ trade' = trade
        /\ outbox' \subseteq outbox
    BY <1>11 DEF Ack, Crash, Idle, TypeOK
  <2>2. QED
    BY <2>1 DEF MoneyInv, Sold, Covered
<1>12. CASE UNCHANGED vars
  BY <1>12 DEF vars, MoneyInv, Sold, Covered
<1>13. QED
  BY <1>1, <1>2, <1>3, <1>4, <1>5, <1>6, <1>7, <1>8, <1>10, <1>11, <1>12 DEF Next, Handle

\* Nothing of an order is handed out before its provider has the money, also
\* when a checkout is announced before the money has arrived.
THEOREM PaidBeforeDelivered == Spec => []OnlyPaidIsDelivered
<1>1. Init => TypeInv /\ OnceInv /\ MoneyInv
  BY TypeInvInit, OnceInvInit, MoneyInvInit
<1>2. TypeInv /\ OnceInv /\ MoneyInv /\ [Next]_vars => (TypeInv /\ OnceInv /\ MoneyInv)'
  BY TypeInvStep, OnceInvStep, MoneyInvStep
<1>3. OnceInv /\ MoneyInv => OnlyPaidIsDelivered
  BY DEF OnceInv, NothingBeforeSale, MoneyInv, Covered, OnlyPaidIsDelivered
<1>4. QED
  BY <1>1, <1>2, <1>3, PTL DEF Spec

-----------------------------------------------------------------------------
(* Statuses.                                                                *)

\* Only checkout, the sweep, mark_paid and mark_refunded write a status, each
\* from a lower one.
LEMMA StatusStepHolds == TypeInv /\ [Next]_vars => [StatusStep]_vars
<1> SUFFICES ASSUME TypeInv, Next PROVE StatusStep
  OBVIOUS
<1>1. ASSUME NEW o \in Orders, CreateOrder(o) PROVE StatusStep
  BY <1>1 DEF CreateOrder, StatusStep, Rank, TypeInv, TypeOK
<1>2. ASSUME ExpireStalePending PROVE StatusStep
  BY <1>2 DEF ExpireStalePending, Unpaid, StatusStep, Rank, TypeInv, TypeOK
<1>3. ASSUME NEW w \in Workers, Mark(w) PROVE StatusStep
  <2>1. handler[w].notice.order \in Orders
    BY <1>3, BusyWorker DEF Mark, From, TypeInv
  <2>2. QED
    BY <1>3, <2>1 DEF Mark, From, StatusStep, Rank, TypeInv, TypeOK
<1>4. CASE status' = status
  BY <1>4 DEF StatusStep
<1>5. QED
  BY <1>1, <1>2, <1>3, <1>4
  DEF Next, Handle, Pay, Refund, AnnounceEarly, Resend, Deliver, Fulfil, Revoke, Ack, Crash

\* An order's status moves forward only, and is "refunded" only out of "paid".
THEOREM NoRegress == Spec => StatusNeverRegresses
<1>1. Spec => []TypeInv
  BY TypeInvInit, TypeInvStep, PTL DEF Spec
<1>2. QED
  BY <1>1, StatusStepHolds, PTL DEF Spec, StatusNeverRegresses

-----------------------------------------------------------------------------
(* Refunds: a refund notice follows the money back.                         *)

RefundsInv ==
    /\ \A n \in outbox : n.event = "refund" => trade[n.order] = "refunded"
    /\ \A w \in Workers : handler[w].step # "idle" /\ handler[w].notice.event = "refund"
                            => trade[handler[w].notice.order] = "refunded"
    /\ \A o \in Orders : status[o] = "refunded" => trade[o] = "refunded"

\* Nothing has been refunded in an empty shop.
LEMMA RefundsInvInit == Init => RefundsInv
BY DEF Init, RefundsInv, Idle

\* Steps after which the workers hold the notices they held, or none.
LEMMA RefundsKept ==
    ASSUME TypeInv, RefundsInv,
           \A o \in Orders : trade[o] = "refunded" => trade'[o] = "refunded",
           \A n \in outbox' \ outbox : n.event = "refund" => trade'[n.order] = "refunded",
           \A w \in Workers : handler'[w].step # "idle" =>
              handler[w].step # "idle" /\ handler'[w].notice = handler[w].notice,
           \A o \in Orders : status'[o] = "refunded" => status[o] = "refunded" \/ trade[o] = "refunded"
    PROVE  RefundsInv'
<1>1. \A n \in outbox : n.order \in Orders
  BY DEF TypeInv, TypeOK, Notices
<1>2. \A w \in Workers : handler[w].step # "idle" => handler[w].notice.order \in Orders
  BY BusyWorker DEF TypeInv
<1>3. QED
  BY <1>1, <1>2 DEF RefundsInv

\* Every action keeps it: the provider announces what it has done, and a worker
\* marks an order refunded on such a notice alone.
LEMMA RefundsInvStep == TypeInv /\ RefundsInv /\ [Next]_vars => RefundsInv'
<1> SUFFICES ASSUME TypeInv, RefundsInv, [Next]_vars PROVE RefundsInv'
  OBVIOUS
<1> USE DEF TypeInv
<1>1. ASSUME NEW o \in Orders, CreateOrder(o) PROVE RefundsInv'
  BY <1>1, RefundsKept DEF CreateOrder, TypeOK
<1>2. ASSUME NEW o \in Orders, Pay(o) \/ AnnounceEarly(o) PROVE RefundsInv'
  <2>1. \A x \in Orders : trade[x] = "refunded" => trade'[x] = "refunded"
    BY <1>2 DEF Pay, AnnounceEarly, TypeOK
  <2>2. \A n \in outbox' \ outbox : n.event # "refund"
    BY <1>2 DEF Pay, AnnounceEarly, Send
  <2>3. QED
    BY <1>2, <2>1, <2>2, RefundsKept DEF Pay, AnnounceEarly
<1>3. ASSUME NEW o \in Orders, Refund(o) \/ Resend(o) PROVE RefundsInv'
  <2>1. \A x \in Orders : trade[x] = "refunded" => trade'[x] = "refunded"
    BY <1>3 DEF Refund, Resend, TypeOK
  <2>2. \A n \in outbox' \ outbox : n.event = "refund" => trade'[n.order] = "refunded"
    BY <1>3 DEF Refund, Resend, Send, TypeOK
  <2>3. QED
    BY <1>3, <2>1, <2>2, RefundsKept DEF Refund, Resend
<1>4. ASSUME ExpireStalePending PROVE RefundsInv'
  BY <1>4, RefundsKept DEF ExpireStalePending, Unpaid, TypeOK
<1>5. ASSUME NEW w \in Workers, NEW n \in Notices, Deliver(w, n) PROVE RefundsInv'
  <2>1. /\ \A v \in Workers : v # w => handler'[v] = handler[v]
        /\ handler'[w].notice = n /\ n \in outbox
    BY <1>5 DEF Deliver, TypeOK
  <2>2. QED
    BY <1>5, <2>1 DEF Deliver, RefundsInv
<1>6. ASSUME NEW w \in Workers, Mark(w) PROVE RefundsInv'
  <2>1. handler[w] \in Busy /\ handler[w].notice.order \in Orders
    BY <1>6, BusyWorker DEF Mark, From
  <2>2. /\ \A v \in Workers : v # w => handler'[v] = handler[v]
        /\ handler'[w].notice = handler[w].notice
    BY <1>6, <2>1 DEF Mark, From, TypeOK, Busy
  <2>3. \A o \in Orders : status'[o] = "refunded" => status[o] = "refunded" \/ trade[o] = "refunded"
    BY <1>6, <2>1 DEF Mark, From, RefundsInv, TypeOK
  <2>4. QED
    BY <1>6, <2>2, <2>3, RefundsKept DEF Mark, From
<1>7. ASSUME NEW w \in Workers, NEW refund \in BOOLEAN, Working(w, refund), Advance(w),
             UNCHANGED <<status, trade, outbox>>
      PROVE  RefundsInv'
  <2>1. /\ \A v \in Workers : v # w => handler'[v] = handler[v]
        /\ handler'[w].notice = handler[w].notice /\ handler[w].step # "idle"
    BY <1>7, PieceAtWork DEF Advance, TypeOK, Busy, Working
  <2>2. QED
    BY <1>7, <2>1, RefundsKept
<1>8. ASSUME NEW w \in Workers, Fulfil(w) \/ Revoke(w) PROVE RefundsInv'
  BY <1>7, <1>8 DEF Fulfil, Revoke
<1>9. ASSUME NEW w \in Workers, Ack(w) \/ Crash(w) PROVE RefundsInv'
  <2>1. /\ \A v \in Workers : v # w => handler'[v] = handler[v]
        /\ handler'[w].step = "idle" /\ status' = status /\ trade' = trade
        /\ outbox' \subseteq outbox
    BY <1>9 DEF Ack, Crash, Idle, TypeOK
  <2>2. QED
    BY <2>1, RefundsKept
<1>10. CASE UNCHANGED vars
  BY <1>10, RefundsKept DEF vars
<1>11. QED
  BY <1>1, <1>2, <1>3, <1>4, <1>5, <1>6, <1>8, <1>9, <1>10 DEF Next, Handle

-----------------------------------------------------------------------------
(* Handing over, when no worker dies: what is behind a worker has been      *)
(* handed out, and a sold order is complete or somebody is at it.           *)

BehindIsGiven ==
    \A w \in Workers : Working(w, FALSE) =>
        \A i \in 1..Size(handler[w].notice) :
            i < handler[w].next => given[handler[w].notice.order][Plan(handler[w].notice)[i]] > 0

CompleteOrBusy == \A o \in Orders : Sold(o) => Complete(o) \/ \E w \in Workers : Fulfilling(w, o)

HandoverInv == BehindIsGiven /\ CompleteOrBusy

\* What has been handed out stays so.
LEMMA CompleteStays ==
    ASSUME TypeInv, NEW o \in Orders,
           \A p \in Pieces : given[o][p] > 0 => given'[o][p] > 0, Complete(o)
    PROVE  Complete(o)'
<1>1. /\ Fulfilment(Kind[o]) \in Seq(Pieces)
      /\ \A i \in DOMAIN Fulfilment(Kind[o]) : Fulfilment(Kind[o])[i] \in Pieces
  BY PlanFacts, KindAssumption, ElementOfSeq
<1>2. QED
  BY <1>1 DEF Complete

\* A step that keeps the goods and every worker that hands over.
LEMMA HandoverKept ==
    ASSUME TypeInv, HandoverInv, given' = given,
           \A o \in Orders : Sold(o)' => Sold(o),
           \A w \in Workers : Working(w, FALSE)' <=> Working(w, FALSE),
           \A w \in Workers : Working(w, FALSE) => handler'[w] = handler[w]
    PROVE  HandoverInv'
<1>1. BehindIsGiven'
  <2> SUFFICES ASSUME NEW w \in Workers, Working(w, FALSE)'
               PROVE  (\A i \in 1..Size(handler[w].notice) : i < handler[w].next =>
                         given[handler[w].notice.order][Plan(handler[w].notice)[i]] > 0)'
    BY DEF BehindIsGiven
  <2>1. Working(w, FALSE) /\ handler'[w] = handler[w]
    OBVIOUS
  <2>2. \A i \in 1..Size(handler[w].notice) : i < handler[w].next =>
            given[handler[w].notice.order][Plan(handler[w].notice)[i]] > 0
    BY <2>1 DEF HandoverInv, BehindIsGiven
  <2>3. QED
    BY ONLY <2>1, <2>2, given' = given
<1>2. CompleteOrBusy'
  <2> SUFFICES ASSUME NEW o \in Orders, Sold(o)', ~Complete(o)'
               PROVE  \E w \in Workers : Fulfilling(w, o)'
    BY DEF CompleteOrBusy
  <2>1. ~Complete(o)
    BY DEF Complete
  <2>2. QED
    BY <2>1 DEF HandoverInv, CompleteOrBusy, Fulfilling
<1>3. QED
  BY <1>1, <1>2 DEF HandoverInv

\* Nothing has been sold in an empty shop.
LEMMA HandoverInvInit == Init => HandoverInv
BY DEF Init, HandoverInv, BehindIsGiven, CompleteOrBusy, Working, Sold, Idle

\* A sale starts the worker that hands over, a refund leaves all as it is.
LEMMA HandoverMark ==
    ASSUME TypeInv, OnceInv, HandoverInv, NEW w \in Workers, Mark(w)
    PROVE  HandoverInv'
<1> DEFINE n == handler[w].notice
<1>1. /\ handler[w] \in Busy /\ n \in Notices /\ n.order \in Orders /\ handler[w].next = 1
      /\ ~Working(w, FALSE)
  BY BusyWorker DEF Mark, From, TypeInv, InPlan, Working
<1>2. /\ \A v \in Workers : v # w => handler'[v] = handler[v]
      /\ handler'[w].notice = n /\ handler'[w].next = 1
      /\ handler'[w].step \in {"work", "ack"}
      /\ given' = given
  BY <1>1 DEF Mark, From, TypeInv, TypeOK, Busy
<1>3. \A v \in Workers : v # w =>
         (Working(v, FALSE)' <=> Working(v, FALSE)) /\ handler'[v] = handler[v]
  BY <1>2 DEF Working
<1>4. CASE ~Working(w, FALSE)'
  <2>1. \A o \in Orders : Sold(o)' => Sold(o)
    BY <1>1, <1>2, <1>4 DEF Mark, From, TypeInv, TypeOK, Sold, Working, Busy
  <2>2. \A v \in Workers : /\ Working(v, FALSE)' <=> Working(v, FALSE)
                           /\ Working(v, FALSE) => handler'[v] = handler[v]
    BY <1>1, <1>3, <1>4
  <2>3. QED
    BY <1>2, <2>1, <2>2, HandoverKept
<1>5. CASE Working(w, FALSE)'
  <2>1. /\ n.event # "refund"
        /\ \A o \in Orders : Sold(o)' => Sold(o) \/ o = n.order
    BY <1>1, <1>2, <1>5 DEF Mark, From, Working, Sold, TypeInv, TypeOK, Busy
  <2>2. \A o \in Orders : o = n.order => Fulfilling(w, o)'
    BY <1>2, <1>5 DEF Fulfilling
  <2>3. BehindIsGiven'
    <3>1. \A i \in 1..Size(n) : ~(i < 1)
      <4>1. Size(n) \in 1..5
        BY <1>1, NoticePlan
      <4>2. QED
        BY <4>1
    <3>2. QED
      BY <1>2, <1>3, <3>1 DEF HandoverInv, BehindIsGiven
  <2>4. CompleteOrBusy'
    <3> SUFFICES ASSUME NEW o \in Orders, Sold(o)', ~Complete(o)'
                 PROVE  \E v \in Workers : Fulfilling(v, o)'
      BY DEF CompleteOrBusy
    <3>1. CASE o = n.order
      BY <2>2, <3>1
    <3>2. CASE o # n.order
      <4>1. Sold(o) /\ ~Complete(o)
        BY <1>2, <2>1, <3>2 DEF Complete
      <4>2. PICK v \in Workers : Fulfilling(v, o)
        BY <4>1 DEF HandoverInv, CompleteOrBusy
      <4>3. v # w
        BY <1>1, <4>2 DEF Fulfilling
      <4>4. QED
        BY <1>3, <4>2, <4>3 DEF Fulfilling
    <3>3. QED
      BY <3>1, <3>2
  <2>5. QED
    BY <2>3, <2>4 DEF HandoverInv
<1>6. QED
  BY <1>4, <1>5

\* One more piece is behind the worker; behind the last one the order is
\* complete.
LEMMA HandoverFulfil ==
    ASSUME TypeInv, HandoverInv, NEW w \in Workers, Fulfil(w)
    PROVE  HandoverInv'
<1> DEFINE n == handler[w].notice
           o == n.order
           k == handler[w].next
           p == Plan(n)[k]
<1>1. /\ Working(w, FALSE) /\ handler[w] \in Busy /\ n \in Notices /\ o \in Orders
      /\ k \in 1..Size(n) /\ Size(n) \in 1..5 /\ p \in Pieces
  BY PieceAtWork DEF Fulfil
<1>2. n.event # "refund" /\ Plan(n) = Fulfilment(Kind[o]) /\ Fulfilling(w, o)
  BY <1>1 DEF Working, Plan, Fulfilling
<1>3. /\ \A x \in Orders : \A q \in Pieces :
            given'[x][q] = IF x = o /\ q = p THEN given[x][q] + 1 ELSE given[x][q]
      /\ \A x \in Orders : \A q \in Pieces : given[x][q] \in Nat
  BY <1>1 DEF Fulfil, TypeInv, TypeOK
<1>4. /\ \A v \in Workers : v # w => handler'[v] = handler[v]
      /\ handler'[w].notice = n /\ handler'[w].next = k + 1 /\ status' = status
      /\ handler'[w].step = IF k = Size(n) THEN "ack" ELSE "work"
  BY <1>1 DEF Fulfil, Advance, TypeInv, TypeOK, Busy
<1>5. \A x \in Orders : \A q \in Pieces : given[x][q] > 0 => given'[x][q] > 0
  BY <1>3
<1>6. \A i \in 1..Size(n) : i < k + 1 => given'[o][Plan(n)[i]] > 0
  <2> SUFFICES ASSUME NEW i \in 1..Size(n), i < k + 1
               PROVE  given'[o][Plan(n)[i]] > 0
    OBVIOUS
  <2>1. Plan(n)[i] \in Pieces
    BY <1>1, NoticePlan, ElementOfSeq DEF Size
  <2>2. CASE i = k
    BY <1>1, <1>3, <2>2
  <2>3. CASE i < k
    BY <1>1, <1>5, <2>1, <2>3 DEF HandoverInv, BehindIsGiven
  <2>4. QED
    BY <1>1, <2>2, <2>3
<1>7. ASSUME NEW v \in Workers, v # w, Working(v, FALSE),
             NEW i \in 1..Size(handler[v].notice), i < handler[v].next
      PROVE  given'[handler[v].notice.order][Plan(handler[v].notice)[i]] > 0
  <2>1. handler[v].notice \in Notices /\ handler[v].notice.order \in Orders
    BY <1>7, PieceAtWork
  <2>2. Plan(handler[v].notice)[i] \in Pieces
    BY <1>7, <2>1, NoticePlan, ElementOfSeq DEF Size
  <2>3. given[handler[v].notice.order][Plan(handler[v].notice)[i]] > 0
    BY <1>7 DEF HandoverInv, BehindIsGiven
  <2>4. QED
    BY <1>5, <2>1, <2>2, <2>3
<1>8. BehindIsGiven'
  <2> SUFFICES ASSUME NEW v \in Workers, Working(v, FALSE)',
                      NEW i \in 1..Size(handler'[v].notice), i < handler'[v].next
               PROVE  given'[handler'[v].notice.order][Plan(handler'[v].notice)[i]] > 0
    BY DEF BehindIsGiven
  <2>1. CASE v = w
    BY <1>4, <1>6, <2>1
  <2>2. CASE v # w
    BY <1>4, <1>7, <2>2 DEF Working
  <2>3. QED
    BY <2>1, <2>2
<1>9. CompleteOrBusy'
  <2> SUFFICES ASSUME NEW x \in Orders, Sold(x), ~Complete(x)'
               PROVE  \E v \in Workers : Fulfilling(v, x)'
    BY <1>4 DEF CompleteOrBusy, Sold
  <2>1. PICK v \in Workers : Fulfilling(v, x)
    BY <1>5, CompleteStays DEF HandoverInv, CompleteOrBusy
  <2>2. CASE v # w
    BY <1>4, <2>1, <2>2 DEF Fulfilling, Working
  <2>3. CASE v = w
    <3>1. x = o
      BY <2>1, <2>3 DEF Fulfilling
    <3>2. CASE k # Size(n)
      BY <1>2, <1>4, <3>1, <3>2 DEF Fulfilling, Working
    <3>3. CASE k = Size(n)
      <4>1. \A i \in 1..Size(n) : given'[o][Plan(n)[i]] > 0
        <5>1. \A i \in 1..Size(n) : i < k + 1
          BY <1>1, <3>3
        <5>2. QED
          BY <1>6, <5>1
      <4>2. DOMAIN Fulfilment(Kind[o]) = 1..Size(n)
        BY <1>1, <1>2, NoticePlan, LenProperties DEF Size
      <4>3. Complete(x)'
        BY <1>2, <3>1, <4>1, <4>2 DEF Complete
      <4>4. QED
        BY <4>3
    <3>4. QED
      BY <3>2, <3>3
  <2>4. QED
    BY <2>2, <2>3
<1>10. QED
  BY <1>8, <1>9 DEF HandoverInv

\* Without crashes every action keeps it: a worker leaves an order only when it
\* is through with it.
LEMMA HandoverInvStep ==
    ASSUME ~Crashes
    PROVE  TypeInv /\ OnceInv /\ HandoverInv /\ [Next]_vars => HandoverInv'
<1> SUFFICES ASSUME TypeInv, OnceInv, HandoverInv, [Next]_vars PROVE HandoverInv'
  OBVIOUS
<1>1. ASSUME NEW o \in Orders, CreateOrder(o) PROVE HandoverInv'
  BY <1>1, HandoverKept DEF CreateOrder, Sold, Working, TypeInv, TypeOK
<1>2. ASSUME NEW o \in Orders, Pay(o) \/ Refund(o) \/ AnnounceEarly(o) \/ Resend(o) PROVE HandoverInv'
  BY <1>2, HandoverKept DEF Pay, Refund, AnnounceEarly, Resend, Sold, Working
<1>3. ASSUME ExpireStalePending PROVE HandoverInv'
  BY <1>3, HandoverKept DEF ExpireStalePending, Unpaid, Sold, Working, TypeInv, TypeOK
<1>4. ASSUME NEW w \in Workers, handler[w].step # "work", handler'[w].step # "work",
             \A v \in Workers : v # w => handler'[v] = handler[v], UNCHANGED <<status, given>>
      PROVE  HandoverInv'
  <2>1. \A v \in Workers : /\ Working(v, FALSE)' <=> Working(v, FALSE)
                           /\ Working(v, FALSE) => handler'[v] = handler[v]
    BY <1>4 DEF Working
  <2>2. QED
    BY <1>4, <2>1, HandoverKept DEF Sold
<1>5. ASSUME NEW w \in Workers, NEW n \in Notices, Deliver(w, n) PROVE HandoverInv'
  <2>1. /\ \A v \in Workers : v # w => handler'[v] = handler[v]
        /\ handler'[w].step # "work" /\ handler[w].step # "work"
    BY <1>5 DEF Deliver, TypeInv, TypeOK, Idle
  <2>2. QED
    BY <1>4, <1>5, <2>1 DEF Deliver
<1>6. ASSUME NEW w \in Workers, Revoke(w) PROVE HandoverInv'
  <2>1. Working(w, TRUE) /\ handler[w] \in Busy
    BY <1>6, PieceAtWork DEF Revoke
  <2>2. /\ \A v \in Workers : v # w => handler'[v] = handler[v]
        /\ handler'[w].notice = handler[w].notice
    BY <1>6, <2>1 DEF Revoke, Advance, TypeInv, TypeOK, Busy
  <2>3. \A v \in Workers : /\ Working(v, FALSE)' <=> Working(v, FALSE)
                           /\ Working(v, FALSE) => handler'[v] = handler[v]
    BY <2>1, <2>2 DEF Working
  <2>4. QED
    BY <1>6, <2>3, HandoverKept DEF Revoke, Sold
<1>7. ASSUME NEW w \in Workers, Ack(w) PROVE HandoverInv'
  <2>1. /\ \A v \in Workers : v # w => handler'[v] = handler[v]
        /\ handler'[w].step # "work" /\ handler[w].step # "work"
    BY <1>7 DEF Ack, Idle, TypeInv, TypeOK
  <2>2. QED
    BY <1>4, <1>7, <2>1 DEF Ack
<1>8. CASE UNCHANGED vars
  BY <1>8, HandoverKept DEF vars, Sold, Working
<1>9. QED
  BY <1>1, <1>2, <1>3, <1>5, <1>6, <1>7, <1>8, HandoverMark, HandoverFulfil DEF Next, Handle, Crash

\* Where no worker dies between two transactions, an order that is marked paid
\* and that nobody is working on has been handed over, however many workers
\* raced for it.
THEOREM PaidIsHandedOver ==
    ASSUME ~Crashes
    PROVE  Spec => []AckedPaymentsDelivered
<1>1. Init => TypeInv /\ OnceInv /\ HandoverInv
  BY TypeInvInit, OnceInvInit, HandoverInvInit
<1>2. TypeInv /\ OnceInv /\ HandoverInv /\ [Next]_vars => (TypeInv /\ OnceInv /\ HandoverInv)'
  BY TypeInvStep, OnceInvStep, HandoverInvStep
<1>3. HandoverInv => AckedPaymentsDelivered
  BY DEF HandoverInv, CompleteOrBusy, AckedPaymentsDelivered, Sold, Fulfilling, Working, Idle
<1>4. QED
  BY <1>1, <1>2, <1>3, PTL DEF Spec

-----------------------------------------------------------------------------
(* Taking back, by the one worker of the deployment, which does not die.    *)

OneWorker == \A v, w \in Workers : v = w

Revoking(w, o) == Working(w, TRUE) /\ handler[w].notice.order = o

TakenInv ==
    /\ \A o \in Orders : status[o] # "refunded" => \A p \in Pieces : taken[o][p] = 0
    /\ \A w \in Workers, o \in Orders : Fulfilling(w, o) => status[o] = "paid"
    /\ \A w \in Workers, o \in Orders : Revoking(w, o) =>
          /\ status[o] = "refunded"
          /\ \A i \in 1..Size(handler[w].notice) :
                i >= handler[w].next /\ Plan(handler[w].notice)[i] = "subscription"
                  => taken[o]["subscription"] = 0
    /\ NeverOvertaken

ShopInv == TypeInv /\ OnceInv /\ MoneyInv /\ RefundsInv /\ HandoverInv /\ TakenInv

\* A refund deals with no kind of piece twice, and with a subscription only
\* where the order was for one; every order hands out something revocable.
LEMMA KindFacts ==
    ASSUME NEW kind \in Kinds
    PROVE  /\ \A i, j \in 1..Len(Revocation(kind)) :
                 Revocation(kind)[i] = Revocation(kind)[j] => i = j
           /\ \A i \in 1..Len(Revocation(kind)) : Revocation(kind)[i] = "subscription" =>
                 1 \in DOMAIN Fulfilment(kind) /\ Fulfilment(kind)[1] = "subscription"
           /\ \E i \in DOMAIN Fulfilment(kind) : Fulfilment(kind)[i] \in Revocable
<1>1. CASE kind = "plan"
  <2>1. 1 \in DOMAIN Fulfilment(kind) /\ Fulfilment(kind)[1] = "subscription"
    BY <1>1 DEF Fulfilment
  <2>2. QED
    BY <1>1, <2>1 DEF Revocation, Revocable
<1>2. CASE kind = "pass"
  <2>1. 1 \in DOMAIN Fulfilment(kind) /\ Fulfilment(kind)[1] = "pass"
    BY <1>2 DEF Fulfilment
  <2>2. QED
    BY <1>2, <2>1 DEF Revocation, Revocable
<1>3. CASE kind = "pack"
  <2>1. 1 \in DOMAIN Fulfilment(kind) /\ Fulfilment(kind)[1] = "credits"
    BY <1>3 DEF Fulfilment
  <2>2. QED
    BY <1>3, <2>1 DEF Revocation, Revocable
<1>4. CASE kind = "seats"
  <2>1. 3 \in DOMAIN Fulfilment(kind) /\ Fulfilment(kind)[3] = "credits"
    BY <1>4 DEF Fulfilment
  <2>2. QED
    BY <1>4, <2>1 DEF Revocation, Revocable
<1>5. QED
  BY <1>1, <1>2, <1>3, <1>4 DEF Kinds

\* A step that hands out and takes back nothing and starts nobody.
LEMMA TakenKept ==
    ASSUME TypeInv, TakenInv, UNCHANGED <<given, taken>>,
           \A o \in Orders : /\ status[o] = "paid" => status'[o] = "paid"
                             /\ status[o] = "refunded" <=> status'[o] = "refunded",
           \A w \in Workers : \A refund \in BOOLEAN :
              Working(w, refund)' => Working(w, refund) /\ handler'[w] = handler[w]
    PROVE  TakenInv'
<1>1. \A w \in Workers, o \in Orders : Fulfilling(w, o)' => Fulfilling(w, o)
  BY DEF Fulfilling
<1>2. ASSUME NEW w \in Workers, NEW o \in Orders, Revoking(w, o)'
      PROVE  (/\ status[o] = "refunded"
              /\ \A i \in 1..Size(handler[w].notice) :
                    i >= handler[w].next /\ Plan(handler[w].notice)[i] = "subscription"
                      => taken[o]["subscription"] = 0)'
  <2>1. Revoking(w, o) /\ handler'[w] = handler[w]
    BY <1>2 DEF Revoking
  <2>2. /\ status[o] = "refunded"
        /\ \A i \in 1..Size(handler[w].notice) :
              i >= handler[w].next /\ Plan(handler[w].notice)[i] = "subscription"
                => taken[o]["subscription"] = 0
    BY <2>1 DEF TakenInv
  <2>3. status'[o] = "refunded"
    BY <2>2
  <2>4. QED
    BY ONLY <2>1, <2>2, <2>3, taken' = taken
<1>3. NeverOvertaken'
  BY DEF TakenInv, NeverOvertaken
<1>4. \A o \in Orders : status'[o] # "refunded" => \A p \in Pieces : taken'[o][p] = 0
  BY DEF TakenInv
<1>5. QED
  BY <1>1, <1>2, <1>3, <1>4 DEF TakenInv

\* A notice that changes the order starts its only worker on it.
LEMMA TakenMark ==
    ASSUME OneWorker, TypeInv, TakenInv, NEW w \in Workers, Mark(w)
    PROVE  TakenInv'
<1> DEFINE n == handler[w].notice
           o == n.order
<1>1. handler[w] \in Busy /\ n \in Notices /\ o \in Orders /\ handler[w].next = 1
  BY BusyWorker DEF Mark, From, TypeInv, InPlan
<1>2. /\ handler'[w].notice = n /\ handler'[w].next = 1
      /\ handler'[w].step = IF status[o] \in From(n) THEN "work" ELSE "ack"
      /\ UNCHANGED <<given, taken>>
      /\ \A v \in Workers : v = w
  BY <1>1 DEF Mark, TypeInv, TypeOK, Busy, OneWorker
<1>3. CASE status[o] \notin From(n)
  <2>1. \A v \in Workers : \A refund \in BOOLEAN : ~Working(v, refund)'
    BY <1>2, <1>3 DEF Working
  <2>2. status' = status
    BY <1>3 DEF Mark
  <2>3. QED
    BY <1>2, <2>1, <2>2, TakenKept
<1>4. CASE status[o] \in From(n) /\ n.event # "refund"
  <2>1. /\ status[o] # "refunded" /\ status'[o] = "paid"
        /\ \A x \in Orders : x # o => status'[x] = status[x]
    BY <1>1, <1>4 DEF Mark, From, TypeInv, TypeOK
  <2>2. \A v \in Workers : \A x \in Orders : ~Revoking(v, x)' /\ (Fulfilling(v, x)' => x = o)
    BY <1>2, <1>4 DEF Revoking, Fulfilling, Working
  <2>3. NeverOvertaken'
    BY <1>2 DEF TakenInv, NeverOvertaken
  <2>4. QED
    BY <1>2, <2>1, <2>2, <2>3 DEF TakenInv
<1>5. CASE status[o] \in From(n) /\ n.event = "refund"
  <2>1. /\ status[o] = "paid" /\ status'[o] = "refunded"
        /\ \A x \in Orders : x # o => status'[x] = status[x]
    BY <1>1, <1>5 DEF Mark, From, TypeInv, TypeOK
  <2>2. \A v \in Workers : \A x \in Orders : ~Fulfilling(v, x)' /\ (Revoking(v, x)' => x = o)
    BY <1>2, <1>5 DEF Revoking, Fulfilling, Working
  <2>3. NeverOvertaken'
    BY <1>2 DEF TakenInv, NeverOvertaken
  <2>4. taken'[o]["subscription"] = 0
    BY <1>1, <1>2, <2>1 DEF TakenInv, Pieces
  <2>5. QED
    BY <1>2, <2>1, <2>2, <2>3, <2>4 DEF TakenInv
<1>6. QED
  BY <1>3, <1>4, <1>5

\* Handing over takes nothing back.
LEMMA TakenFulfil ==
    ASSUME OneWorker, TypeInv, TakenInv, NEW w \in Workers, Fulfil(w)
    PROVE  TakenInv'
<1> DEFINE n == handler[w].notice
<1>1. /\ Working(w, FALSE) /\ handler[w] \in Busy /\ n \in Notices /\ n.order \in Orders
      /\ Plan(n)[handler[w].next] \in Pieces
  BY PieceAtWork DEF Fulfil
<1>2. /\ handler'[w].notice = n /\ UNCHANGED <<status, taken>>
      /\ \A v \in Workers : v = w
  BY <1>1 DEF Fulfil, Advance, TypeInv, TypeOK, Busy, OneWorker
<1>3. \A v \in Workers : \A x \in Orders :
         ~Revoking(v, x)' /\ (Fulfilling(v, x)' => Fulfilling(v, x))
  BY <1>1, <1>2 DEF Revoking, Fulfilling, Working
<1>4. \A x \in Orders : \A q \in Pieces : /\ given[x][q] \in Nat /\ given'[x][q] \in Nat
                                          /\ given'[x][q] >= given[x][q]
  <2> DEFINE p == Plan(n)[handler[w].next]
             row == [given[n.order] EXCEPT ![p] = @ + 1]
  <2>1. given \in [Orders -> [Pieces -> Nat]] /\ n.order \in Orders /\ p \in Pieces
    BY <1>1 DEF TypeInv, TypeOK
  <2>2. given' = [given EXCEPT ![n.order] = row]
    BY DEF Fulfil
  <2> HIDE DEF n, p
  <2>3. \A q \in Pieces : given[n.order][q] \in Nat /\ row[q] \in Nat /\ row[q] >= given[n.order][q]
    <3>1. given[n.order] \in [Pieces -> Nat]
      BY <2>1
    <3>2. QED
      BY ONLY <2>1, <3>1
  <2> HIDE DEF row
  <2>4. ASSUME NEW x \in Orders, NEW q \in Pieces
        PROVE  given[x][q] \in Nat /\ given'[x][q] \in Nat /\ given'[x][q] >= given[x][q]
    <3>1. given'[x] = IF x = n.order THEN row ELSE given[x]
      BY <2>1, <2>2
    <3>2. given[x][q] \in Nat
      BY <2>1
    <3>3. QED
      BY <2>3, <3>1, <3>2
  <2>5. QED
    BY <2>4
<1>5. NeverOvertaken'
  <2>1. \A x \in Orders : \A q \in Pieces : taken[x][q] \in Nat /\ taken[x][q] <= given[x][q]
    BY DEF TakenInv, NeverOvertaken, TypeInv, TypeOK
  <2>2. QED
    BY <1>2, <1>4, <2>1 DEF NeverOvertaken
<1>6. QED
  BY <1>2, <1>3, <1>5 DEF TakenInv

\* What a refund does to an order and to no other one.
LEMMA RevokeFacts ==
    ASSUME OneWorker, TypeInv, HandoverInv, TakenInv, NEW w \in Workers, Revoke(w),
           NEW n, n = handler[w].notice
    PROVE  /\ Revoking(w, n.order) /\ n \in Notices /\ n.order \in Orders
           /\ handler[w].next \in 1..Size(n) /\ Size(n) \in 1..5
           /\ Plan(n) = Revocation(Kind[n.order]) /\ Plan(n)[handler[w].next] \in Pieces
           /\ status[n.order] = "refunded"
           /\ handler'[w].notice = n /\ handler'[w].next = handler[w].next + 1
           /\ UNCHANGED <<status, trade, given>>
           /\ \A x \in Orders : x # n.order => taken'[x] = taken[x]
           /\ \A q \in Pieces : q # Plan(n)[handler[w].next] => taken'[n.order][q] = taken[n.order][q]
           /\ Plan(n)[handler[w].next] = "subscription" =>
                 /\ taken[n.order]["subscription"] = 0
                 /\ taken'[n.order]["subscription"] \in {0, 1}
                 /\ given[n.order]["subscription"] > 0
           /\ Plan(n)[handler[w].next] # "subscription" =>
                 taken'[n.order][Plan(n)[handler[w].next]] = given[n.order][Plan(n)[handler[w].next]]
           /\ taken' \in [Orders -> [Pieces -> Nat]]
<1> DEFINE o == n.order
           k == handler[w].next
           p == Plan(n)[k]
<1>1. /\ Working(w, TRUE) /\ handler[w] \in Busy /\ n \in Notices /\ o \in Orders
      /\ k \in 1..Size(n) /\ Size(n) \in 1..5 /\ p \in Pieces
  BY PieceAtWork DEF Revoke
<1>2. n.event = "refund" /\ Plan(n) = Revocation(Kind[o]) /\ Revoking(w, o)
  BY <1>1 DEF Working, Plan, Revoking
<1>3. /\ handler'[w].notice = n /\ handler'[w].next = k + 1
      /\ UNCHANGED <<status, trade, given>>
  BY <1>1 DEF Revoke, Advance, TypeInv, TypeOK, Busy
<1>4. status[o] = "refunded"
  BY <1>1, <1>2 DEF TakenInv
<1>5. PICK d \in {0, 1} : taken' = [taken EXCEPT ![o] = [taken[o] EXCEPT ![p] =
          IF p = "subscription" THEN taken[o][p] + d ELSE given[o][p]]]
  <2>1. PICK d \in {0, 1} : taken' = [taken EXCEPT ![o][p] =
          IF p = "subscription" THEN @ + d ELSE given[o][p]]
    BY DEF Revoke
  <2>2. QED
    BY <1>1, <2>1 DEF TypeInv, TypeOK
<1>6. /\ \A x \in Orders : x # o => taken'[x] = taken[x]
      /\ \A q \in Pieces : q # p => taken'[o][q] = taken[o][q]
      /\ taken'[o][p] = IF p = "subscription" THEN taken[o][p] + d ELSE given[o][p]
      /\ taken' \in [Orders -> [Pieces -> Nat]]
  <2> DEFINE sum == IF p = "subscription" THEN taken[o][p] + d ELSE given[o][p]
             row == [taken[o] EXCEPT ![p] = sum]
  <2>1. taken \in [Orders -> [Pieces -> Nat]] /\ given \in [Orders -> [Pieces -> Nat]]
    BY DEF TypeInv, TypeOK
  <2>2. taken[o] \in [Pieces -> Nat] /\ given[o] \in [Pieces -> Nat]
    BY <1>1, <2>1
  <2>3. sum \in Nat
    BY <1>1, <2>2
  <2>4. taken' = [taken EXCEPT ![o] = row]
    BY <1>5
  <2> HIDE DEF sum
  <2>5. row \in [Pieces -> Nat] /\ row[p] = sum /\ \A q \in Pieces : q # p => row[q] = taken[o][q]
    BY <1>1, <2>2, <2>3
  <2> HIDE DEF row
  <2>6. /\ taken'[o] = row /\ \A x \in Orders : x # o => taken'[x] = taken[x]
        /\ taken' \in [Orders -> [Pieces -> Nat]]
    BY <1>1, <2>1, <2>4, <2>5
  <2>7. QED
    BY <2>5, <2>6 DEF sum
<1>7. ASSUME p = "subscription"
      PROVE  taken[o][p] = 0 /\ given[o][p] > 0
  <2>1. taken[o][p] = 0
    <3>1. k \in Int /\ k >= k
      BY <1>1
    <3>2. QED
      BY <1>1, <1>2, <1>7, <3>1 DEF TakenInv
  <2>2. Complete(o)
    <3>1. Sold(o)
      BY <1>4 DEF Sold
    <3>2. \A v \in Workers : ~Fulfilling(v, o)
      BY <1>1 DEF OneWorker, Fulfilling, Working
    <3>3. QED
      BY <1>1, <3>1, <3>2 DEF HandoverInv, CompleteOrBusy
  <2>3. 1 \in DOMAIN Fulfilment(Kind[o]) /\ Fulfilment(Kind[o])[1] = "subscription"
    BY <1>1, <1>2, <1>7, KindFacts, KindAssumption DEF Size
  <2>4. QED
    BY <1>7, <2>1, <2>2, <2>3 DEF Complete
<1>8. /\ p = "subscription" => /\ taken[o]["subscription"] = 0
                               /\ taken'[o]["subscription"] \in {0, 1}
                               /\ given[o]["subscription"] > 0
      /\ p # "subscription" => taken'[o][p] = given[o][p]
  <2> HIDE DEF p, o
  <2>1. CASE p = "subscription"
    BY <1>6, <1>7, <2>1
  <2>2. CASE p # "subscription"
    BY <1>6, <2>2
  <2>3. QED
    BY <2>1, <2>2
<1>9. QED
  BY <1>1, <1>2, <1>3, <1>4, <1>6, <1>8

\* A refund takes back what was handed out, and of the subscription one order's
\* days: the order was complete before it could be refunded.
LEMMA TakenRevoke ==
    ASSUME OneWorker, TypeInv, HandoverInv, TakenInv, NEW w \in Workers, Revoke(w)
    PROVE  TakenInv'
<1> DEFINE n == handler[w].notice
           o == n.order
           k == handler[w].next
           p == Plan(n)[k]
<1>1. /\ Revoking(w, o) /\ n \in Notices /\ o \in Orders
      /\ k \in 1..Size(n) /\ Size(n) \in 1..5
      /\ Plan(n) = Revocation(Kind[o]) /\ p \in Pieces
      /\ status[o] = "refunded"
      /\ handler'[w].notice = n /\ handler'[w].next = k + 1
      /\ UNCHANGED <<status, given>>
      /\ \A x \in Orders : x # o => taken'[x] = taken[x]
      /\ \A q \in Pieces : q # p => taken'[o][q] = taken[o][q]
      /\ p = "subscription" => taken'[o]["subscription"] \in {0, 1} /\ given[o]["subscription"] > 0
      /\ p # "subscription" => taken'[o][p] = given[o][p]
  BY RevokeFacts
<1>2. /\ \A x \in Orders : \A q \in Pieces : given[x][q] \in Nat
      /\ \A v \in Workers : v = w
  BY DEF OneWorker, TypeInv, TypeOK
<1>3. NeverOvertaken'
  <2> SUFFICES ASSUME NEW x \in Orders, NEW q \in Pieces
               PROVE  taken'[x][q] <= given[x][q]
    BY <1>1 DEF NeverOvertaken
  <2>1. taken[x][q] <= given[x][q]
    BY DEF TakenInv, NeverOvertaken
  <2> HIDE DEF n, o, k, p
  <2>2. CASE x = o /\ q = p
    <3>1. CASE p = "subscription"
      <4>1. taken'[x][q] \in {0, 1} /\ given[x][q] > 0 /\ given[x][q] \in Nat
        BY <1>1, <1>2, <2>2, <3>1
      <4>2. QED
        BY <4>1
    <3>2. CASE p # "subscription"
      <4>1. taken'[x][q] = given[x][q] /\ given[x][q] \in Nat
        BY <1>1, <1>2, <2>2, <3>2
      <4>2. QED
        BY <4>1
    <3>3. QED
      BY <3>1, <3>2
  <2>3. QED
    BY <1>1, <2>1, <2>2
<1>4. \A x \in Orders : status'[x] # "refunded" => \A q \in Pieces : taken'[x][q] = 0
  <2>1. ASSUME NEW x \in Orders, status'[x] # "refunded"
        PROVE  x # o /\ status[x] # "refunded" /\ taken'[x] = taken[x]
    BY <1>1, <2>1
  <2>2. \A x \in Orders : status[x] # "refunded" => \A q \in Pieces : taken[x][q] = 0
    BY DEF TakenInv
  <2>3. QED
    BY ONLY <2>1, <2>2
<1>5. \A v \in Workers : \A x \in Orders : ~Fulfilling(v, x)' /\ (Revoking(v, x)' => x = o)
  BY <1>1, <1>2 DEF Revoking, Fulfilling, Working
<1>6. ASSUME NEW i \in 1..Size(n), i >= k + 1, Plan(n)[i] = "subscription"
      PROVE  taken'[o]["subscription"] = 0
  <2>1. i # k /\ i >= k
    <3>1. k \in 1..Size(n) /\ Size(n) \in 1..5 /\ i \in 1..Size(n) /\ i >= k + 1
      BY <1>1, <1>6
    <3> HIDE DEF k, n
    <3>2. QED
      BY ONLY <3>1
  <2>2. p # "subscription"
    <3>1. Kind[o] \in Kinds
      BY <1>1, KindAssumption
    <3>2. i \in 1..Len(Revocation(Kind[o])) /\ k \in 1..Len(Revocation(Kind[o]))
      BY <1>1 DEF Size
    <3>3. Revocation(Kind[o])[i] # Revocation(Kind[o])[k]
      BY <2>1, <3>1, <3>2, KindFacts
    <3>4. QED
      BY <1>1, <1>6, <3>3
  <2>3. taken[o]["subscription"] = 0
    BY <1>1, <1>6, <2>1 DEF TakenInv
  <2>4. QED
    BY <1>1, <2>2, <2>3 DEF Pieces
<1>7. \A v \in Workers, x \in Orders : Revoking(v, x)' =>
         /\ status'[x] = "refunded"
         /\ \A i \in 1..Size(handler'[v].notice) :
               i >= handler'[v].next /\ Plan(handler'[v].notice)[i] = "subscription"
                 => taken'[x]["subscription"] = 0
  <2> SUFFICES ASSUME NEW v \in Workers, NEW x \in Orders, Revoking(v, x)'
               PROVE  /\ status'[x] = "refunded"
                      /\ \A i \in 1..Size(handler'[v].notice) :
                            i >= handler'[v].next /\ Plan(handler'[v].notice)[i] = "subscription"
                              => taken'[x]["subscription"] = 0
    OBVIOUS
  <2>1. v = w /\ x = o
    BY <1>2, <1>5
  <2>2. handler'[v].notice = n /\ handler'[v].next = k + 1 /\ status'[x] = "refunded"
    BY <1>1, <2>1
  <2> HIDE DEF n, k, o
  <2>3. QED
    BY <1>6, <2>1, <2>2
<1>8. QED
  BY <1>3, <1>4, <1>5, <1>7 DEF TakenInv

\* Every action keeps it.
LEMMA TakenInvStep ==
    ASSUME OneWorker, ~Crashes
    PROVE  TypeInv /\ HandoverInv /\ TakenInv /\ [Next]_vars => TakenInv'
<1> SUFFICES ASSUME TypeInv, HandoverInv, TakenInv, [Next]_vars PROVE TakenInv'
  OBVIOUS
<1>1. ASSUME NEW o \in Orders, CreateOrder(o) PROVE TakenInv'
  BY <1>1, TakenKept DEF CreateOrder, Working, TypeInv, TypeOK
<1>2. ASSUME NEW o \in Orders, Pay(o) \/ Refund(o) \/ AnnounceEarly(o) \/ Resend(o) PROVE TakenInv'
  BY <1>2, TakenKept DEF Pay, Refund, AnnounceEarly, Resend, Working
<1>3. ASSUME ExpireStalePending PROVE TakenInv'
  BY <1>3, TakenKept DEF ExpireStalePending, Unpaid, Working, TypeInv, TypeOK
<1>4. ASSUME NEW w \in Workers, handler'[w].step # "work",
             \A v \in Workers : v # w => handler'[v] = handler[v], UNCHANGED <<status, given, taken>>
      PROVE  TakenInv'
  <2>1. \A v \in Workers : \A refund \in BOOLEAN :
           Working(v, refund)' => Working(v, refund) /\ handler'[v] = handler[v]
    BY <1>4 DEF Working
  <2>2. QED
    BY <1>4, <2>1, TakenKept
<1>5. ASSUME NEW w \in Workers, NEW n \in Notices, Deliver(w, n) PROVE TakenInv'
  <2>1. /\ \A v \in Workers : v # w => handler'[v] = handler[v]
        /\ handler'[w].step # "work"
    BY <1>5 DEF Deliver, TypeInv, TypeOK
  <2>2. QED
    BY <1>4, <1>5, <2>1 DEF Deliver
<1>6. ASSUME NEW w \in Workers, Ack(w) PROVE TakenInv'
  <2>1. /\ \A v \in Workers : v # w => handler'[v] = handler[v]
        /\ handler'[w].step # "work"
    BY <1>6 DEF Ack, Idle, TypeInv, TypeOK
  <2>2. QED
    BY <1>4, <1>6, <2>1 DEF Ack
<1>7. CASE UNCHANGED vars
  BY <1>7, TakenKept DEF vars, Working
<1>8. QED
  BY <1>1, <1>2, <1>3, <1>5, <1>6, <1>7, TakenMark, TakenFulfil, TakenRevoke DEF Next, Handle, Crash

\* All of the invariants, of the shop as it is deployed.
LEMMA ShopInvAlways ==
    ASSUME OneWorker, ~Crashes
    PROVE  Spec => []ShopInv
<1>1. Init => ShopInv
  <2>1. Init => TakenInv
    BY DEF Init, TakenInv, NeverOvertaken, Fulfilling, Revoking, Working, Idle
  <2>2. QED
    BY <2>1, TypeInvInit, OnceInvInit, MoneyInvInit, RefundsInvInit, HandoverInvInit DEF ShopInv
<1>2. ShopInv /\ [Next]_vars => ShopInv'
  BY TypeInvStep, OnceInvStep, MoneyInvStep, RefundsInvStep, HandoverInvStep, TakenInvStep DEF ShopInv
<1>3. QED
  BY <1>1, <1>2, PTL DEF Spec

\* With one worker that does not die a refund takes back what was handed out
\* and no more, also of the subscription row that all orders of a buyer share.
THEOREM NeverTakesTooMuch ==
    ASSUME OneWorker, ~Crashes
    PROVE  Spec => []NeverOvertaken
<1>1. ShopInv => NeverOvertaken
  BY DEF ShopInv, TakenInv
<1>2. QED
  BY <1>1, ShopInvAlways, PTL

-----------------------------------------------------------------------------
(* The promise: every step of the order machine is a step of Sale on the    *)
(* bar of the order it is about, or leaves all bars where they are.         *)

Bars == [o \in Orders |-> SaleBar(o)]

\* The bar of an order is read off its own row and goods.
LEMMA SameBar ==
    ASSUME NEW o \in Orders, status'[o] = status[o], given'[o] = given[o], taken'[o] = taken[o]
    PROVE  SaleBar(o)' = SaleBar(o)
<1>1. Complete(o)' <=> Complete(o)
  BY DEF Complete
<1>2. (\E p \in Revocable : Held(o, p))' <=> (\E p \in Revocable : Held(o, p))
  BY DEF Held
<1>3. QED
  BY <1>1, <1>2 DEF SaleBar

\* The four bars an order can be at.
LEMMA BarCases ==
    ASSUME TypeInv, NEW o \in Orders
    PROVE  /\ ~Sold(o) => SaleBar(o) = "open"
           /\ status[o] = "paid" => SaleBar(o) = IF Complete(o) THEN "delivered" ELSE "sold"
           /\ status[o] = "refunded" =>
                SaleBar(o) = IF \E p \in Revocable : Held(o, p) THEN "reversing" ELSE "reversed"
BY DEF SaleBar, Sold, TypeInv, TypeOK

\* A complete order of which nothing was taken back has something to take back.
LEMMA CompleteIsHeld ==
    ASSUME TypeInv, NEW o \in Orders, Complete(o), \A p \in Pieces : taken[o][p] = 0
    PROVE  \E p \in Revocable : Held(o, p)
<1>1. PICK i \in DOMAIN Fulfilment(Kind[o]) : Fulfilment(Kind[o])[i] \in Revocable
  BY KindFacts, KindAssumption
<1>2. given[o][Fulfilment(Kind[o])[i]] > 0
  BY DEF Complete
<1>3. Fulfilment(Kind[o])[i] \in Pieces
  BY <1>1 DEF Revocable, Pieces
<1>4. QED
  BY <1>1, <1>2, <1>3 DEF Held

\* Nothing of an order that has not been sold makes it complete.
LEMMA NotSoldNotComplete ==
    ASSUME TypeInv, NEW o \in Orders, \A p \in Pieces : given[o][p] = 0
    PROVE  ~Complete(o)
<1>1. PICK i \in DOMAIN Fulfilment(Kind[o]) : Fulfilment(Kind[o])[i] \in Revocable
  BY KindFacts, KindAssumption
<1>2. Fulfilment(Kind[o])[i] \in Pieces
  BY <1>1 DEF Revocable, Pieces
<1>3. QED
  BY <1>1, <1>2 DEF Complete

\* A step that changes one order's bar and no money is a turn of that bar.
LEMMA TurnOfBar ==
    ASSUME NEW o \in Orders, NEW from, NEW to, SaleBar(o) \in from, SaleBar(o)' = to,
           trade' = trade, \A x \in Orders : x # o => SaleBar(x)' = SaleBar(x)
    PROVE  Promise!Turn(o, from, to)
<1>1. Bars' = [Bars EXCEPT ![o] = to]
  BY DEF Bars
<1>2. QED
  BY <1>1 DEF Promise!Turn, Bars

\* A step that moves no bar and no money is a stutter.
LEMMA StutterOfPromise ==
    ASSUME trade' = trade, \A x \in Orders : SaleBar(x)' = SaleBar(x)
    PROVE  UNCHANGED Promise!vars
BY DEF Promise!vars

\* mark_paid sells, mark_refunded begins to reverse.
LEMMA MarkKeepsPromise ==
    ASSUME ShopInv, OneWorker, NEW w \in Workers, Mark(w)
    PROVE  [Promise!Next]_(Promise!vars)
<1> USE DEF ShopInv
<1> DEFINE n == handler[w].notice
<1>0. PICK o \in Orders : o = n.order
  BY BusyWorker DEF Mark, From, TypeInv
<1>1. /\ handler[w] \in Busy /\ n \in Notices /\ n.order = o /\ handler[w].step = "mark"
      /\ UNCHANGED <<trade, given, taken>>
  BY <1>0, BusyWorker DEF Mark, From, TypeInv
<1>2. \A x \in Orders : Complete(x)' <=> Complete(x)
  BY <1>1 DEF Complete
<1>3. CASE status[o] \notin From(n)
  <2>1. status' = status
    BY <1>1, <1>3 DEF Mark
  <2>2. QED
    BY <1>1, <2>1, SameBar, StutterOfPromise
<1>4. CASE status[o] \in From(n) /\ n.event # "refund"
  <2>1. /\ status'[o] = "paid" /\ ~Sold(o)
        /\ \A x \in Orders : x # o => status'[x] = status[x]
    BY <1>1, <1>4 DEF Mark, From, TypeInv, TypeOK, Sold
  <2>2. SaleBar(o) = "open"
    BY <1>1, <2>1, BarCases
  <2>3. ~Complete(o)
    BY <1>1, <2>1, NotSoldNotComplete DEF OnceInv, NothingBeforeSale
  <2>4. SaleBar(o)' = "sold"
    BY <1>1, <1>2, <2>1, <2>3 DEF SaleBar
  <2>5. trade[o] # "unpaid"
    BY <1>1, <1>4 DEF MoneyInv, Covered
  <2>6. \A x \in Orders : x # o => SaleBar(x)' = SaleBar(x)
    BY <1>1, <2>1, SameBar
  <2>7. Promise!Turn(o, {"open"}, "sold")
    BY <1>1, <2>2, <2>4, <2>6, TurnOfBar
  <2>8. QED
    BY <1>1, <2>5, <2>7 DEF Promise!Sell, Promise!Next
<1>5. CASE status[o] \in From(n) /\ n.event = "refund"
  <2>1. /\ status[o] = "paid" /\ status'[o] = "refunded"
        /\ \A x \in Orders : x # o => status'[x] = status[x]
    BY <1>1, <1>5 DEF Mark, From, TypeInv, TypeOK
  <2>2. Complete(o)
    <3>1. \A v \in Workers : ~Fulfilling(v, o)
      BY <1>1 DEF OneWorker, Fulfilling, Working
    <3>2. Sold(o)
      BY <2>1 DEF Sold
    <3>3. QED
      BY <1>1, <3>1, <3>2 DEF HandoverInv, CompleteOrBusy
  <2>3. SaleBar(o) = "delivered"
    BY <1>1, <2>1, <2>2, BarCases
  <2>4. \E p \in Revocable : Held(o, p)
    BY <1>1, <2>1, <2>2, CompleteIsHeld DEF TakenInv
  <2>5. SaleBar(o)' = "reversing"
    <3>1. (\E p \in Revocable : Held(o, p))'
      BY <1>1, <2>4 DEF Held
    <3>2. QED
      BY <2>1, <3>1 DEF SaleBar
  <2>6. trade[o] = "refunded"
    BY <1>1, <1>5 DEF RefundsInv
  <2>7. \A x \in Orders : x # o => SaleBar(x)' = SaleBar(x)
    BY <1>1, <2>1, SameBar
  <2>8. Promise!Turn(o, {"sold", "delivered"}, "reversing")
    BY <1>1, <2>3, <2>5, <2>7, TurnOfBar
  <2>9. QED
    BY <1>1, <2>6, <2>8 DEF Promise!Reverse, Promise!Next
<1>6. QED
  BY <1>3, <1>4, <1>5

\* The last piece completes the order: it was missing until then.
LEMMA FulfilKeepsPromise ==
    ASSUME ShopInv, OneWorker, NEW w \in Workers, Fulfil(w)
    PROVE  [Promise!Next]_(Promise!vars)
<1> USE DEF ShopInv
<1> DEFINE n == handler[w].notice
           k == handler[w].next
           p == Plan(n)[k]
<1>0. PICK o \in Orders : o = n.order
  BY PieceAtWork DEF Fulfil
<1>1. /\ Working(w, FALSE) /\ n \in Notices /\ n.order = o
      /\ k \in 1..Size(n) /\ Size(n) \in 1..5 /\ p \in Pieces
  BY <1>0, PieceAtWork DEF Fulfil
<1>2. n.event # "refund" /\ Plan(n) = Fulfilment(Kind[o]) /\ Fulfilling(w, o)
  BY <1>1 DEF Working, Plan, Fulfilling
<1>3. /\ UNCHANGED <<status, trade, taken>>
      /\ \A x \in Orders : x # o => given'[x] = given[x]
  BY <1>1 DEF Fulfil, TypeInv, TypeOK
<1>4. status[o] = "paid"
  BY <1>1, <1>2 DEF TakenInv
<1>5. ~Complete(o)
  <2>1. given[o][p] = 0
    <3>1. k \in Int /\ k >= k
      BY <1>1
    <3>2. QED
      BY <1>1, <3>1 DEF OnceInv, AheadIsEmpty
  <2>2. k \in DOMAIN Fulfilment(Kind[o])
    BY <1>1, <1>2, NoticePlan, LenProperties DEF Size
  <2>3. QED
    BY <1>2, <2>1, <2>2 DEF Complete
<1>6. SaleBar(o) = "sold"
  BY <1>1, <1>4, <1>5, BarCases
<1>7. \A x \in Orders : x # o => SaleBar(x)' = SaleBar(x)
  BY <1>3, SameBar
<1>8. SaleBar(o)' \in {"sold", "delivered"}
  BY <1>3, <1>4 DEF SaleBar
<1>9. CASE SaleBar(o)' = "delivered"
  <2>1. Promise!Turn(o, {"sold"}, "delivered")
    BY <1>1, <1>3, <1>6, <1>7, <1>9, TurnOfBar
  <2>2. QED
    BY <1>1, <2>1 DEF Promise!HandOver, Promise!Next
<1>10. CASE SaleBar(o)' = "sold"
  BY <1>3, <1>6, <1>7, <1>10, StutterOfPromise
<1>11. QED
  BY <1>8, <1>9, <1>10

\* A refund that takes back the last revocable piece ends the reversal.
LEMMA RevokeKeepsPromise ==
    ASSUME ShopInv, OneWorker, NEW w \in Workers, Revoke(w)
    PROVE  [Promise!Next]_(Promise!vars)
<1> USE DEF ShopInv
<1> DEFINE n == handler[w].notice
           p == Plan(n)[handler[w].next]
<1>0. PICK o \in Orders : o = n.order
  BY RevokeFacts
<1>1. /\ p \in Pieces
      /\ status[o] = "refunded"
      /\ UNCHANGED <<status, trade, given>>
      /\ \A x \in Orders : x # o => taken'[x] = taken[x]
      /\ \A q \in Pieces : q # p => taken'[o][q] = taken[o][q]
      /\ p = "subscription" => /\ taken[o]["subscription"] = 0
                               /\ given[o]["subscription"] > 0
      /\ p # "subscription" => taken'[o][p] = given[o][p]
  BY <1>0, RevokeFacts
<1>2. /\ \A q \in Pieces : given[o][q] \in Nat
      /\ Revocable \subseteq Pieces
  BY <1>1 DEF TypeInv, TypeOK, Revocable, Pieces
<1>3. ASSUME NEW q \in Revocable, Held(o, q)' PROVE Held(o, q)
  <2>1. q \in Pieces
    BY <1>2
  <2>2. CASE q # p
    BY <1>1, <1>3, <2>1, <2>2 DEF Held
  <2>3. CASE q = p /\ p = "subscription"
    BY <1>1, <2>3 DEF Held
  <2>4. CASE q = p /\ p # "subscription"
    <3>1. taken'[o][q] = given[o][q] /\ given'[o][q] = given[o][q] /\ given[o][q] \in Nat
      BY <1>1, <1>2, <2>1, <2>4
    <3>2. QED
      BY <1>3, <3>1 DEF Held
  <2>5. QED
    BY <2>2, <2>3, <2>4
<1> HIDE DEF p
<1>4. \A x \in Orders : x # o => SaleBar(x)' = SaleBar(x)
  BY <1>1, SameBar
<1>5. SaleBar(o) = IF \E q \in Revocable : Held(o, q) THEN "reversing" ELSE "reversed"
  BY <1>1, BarCases
<1>6. SaleBar(o)' = IF (\E q \in Revocable : Held(o, q))' THEN "reversing" ELSE "reversed"
  BY <1>1 DEF SaleBar
<1>7. CASE SaleBar(o)' = SaleBar(o)
  BY <1>1, <1>4, <1>7, StutterOfPromise
<1>8. CASE SaleBar(o)' # SaleBar(o)
  <2>1. SaleBar(o) = "reversing" /\ SaleBar(o)' = "reversed"
    BY <1>3, <1>5, <1>6, <1>8
  <2>2. Promise!Turn(o, {"sold", "reversing"}, "reversed")
    BY <1>1, <1>4, <2>1, TurnOfBar
  <2>3. trade[o] = "refunded"
    BY <1>1 DEF RefundsInv
  <2>4. QED
    BY <1>1, <2>2, <2>3 DEF Promise!Reverse, Promise!Next
<1>9. QED
  BY <1>7, <1>8

\* Every step keeps the promise.
LEMMA PromiseStep ==
    ASSUME OneWorker, ~Crashes
    PROVE  ShopInv /\ [Next]_vars => [Promise!Next]_(Promise!vars)
<1> SUFFICES ASSUME ShopInv, [Next]_vars PROVE [Promise!Next]_(Promise!vars)
  OBVIOUS
<1>1. ASSUME UNCHANGED <<status, given, taken>>
      PROVE  \A x \in Orders : SaleBar(x)' = SaleBar(x)
  BY <1>1, SameBar
<1>2. ASSUME UNCHANGED <<trade, status, given, taken>> PROVE UNCHANGED Promise!vars
  BY <1>1, <1>2, StutterOfPromise
<1>3. ASSUME UNCHANGED <<trade, given, taken>>,
             \A x \in Orders : status'[x] = status[x] \/ (~Sold(x) /\ ~Sold(x)')
      PROVE  UNCHANGED Promise!vars
  <2>1. ASSUME NEW x \in Orders, ~Sold(x), ~Sold(x)' PROVE SaleBar(x)' = SaleBar(x)
    BY <2>1 DEF SaleBar, Sold
  <2>2. QED
    BY <1>3, <2>1, SameBar, StutterOfPromise
<1>4. ASSUME NEW o \in Orders, CreateOrder(o) PROVE UNCHANGED Promise!vars
  BY <1>3, <1>4 DEF CreateOrder, Sold, ShopInv, TypeInv, TypeOK
<1>5. ASSUME ExpireStalePending PROVE UNCHANGED Promise!vars
  BY <1>3, <1>5 DEF ExpireStalePending, Unpaid, Sold, ShopInv, TypeInv, TypeOK
<1>6. ASSUME NEW o \in Orders, Pay(o) PROVE Promise!Next
  <2>1. Promise!Collect(o)
    BY <1>1, <1>6 DEF Pay, Promise!Collect
  <2>2. QED
    BY <2>1 DEF Promise!Next
<1>7. ASSUME NEW o \in Orders, Refund(o) PROVE Promise!Next
  <2>1. Promise!ReturnMoney(o)
    BY <1>1, <1>7 DEF Refund, Promise!ReturnMoney
  <2>2. QED
    BY <2>1 DEF Promise!Next
<1>8. ASSUME NEW o \in Orders, AnnounceEarly(o) \/ Resend(o) PROVE UNCHANGED Promise!vars
  BY <1>2, <1>8 DEF AnnounceEarly, Resend
<1>9. ASSUME NEW w \in Workers, NEW n \in Notices, Deliver(w, n) PROVE UNCHANGED Promise!vars
  BY <1>2, <1>9 DEF Deliver
<1>10. ASSUME NEW w \in Workers, Ack(w) PROVE UNCHANGED Promise!vars
  BY <1>2, <1>10 DEF Ack
<1>11. CASE UNCHANGED vars
  BY <1>2, <1>11 DEF vars
<1>12. QED
  BY <1>4, <1>5, <1>6, <1>7, <1>8, <1>9, <1>10, <1>11,
     MarkKeepsPromise, FulfilKeepsPromise, RevokeKeepsPromise DEF Next, Handle, Crash

\* The deployed order machine, one worker that does not die, implements the
\* promise of payments/base.py: sold once and for money, handed over once,
\* undone only when the money has gone back, and then for good.
THEOREM PromiseKept ==
    ASSUME OneWorker, ~Crashes
    PROVE  Spec => KeepsThePromise
<1>1. Init => Promise!Init
  BY DEF Init, Promise!Init, SaleBar
<1>2. ShopInv /\ [Next]_vars => [Promise!Next]_(Promise!vars)
  BY PromiseStep
<1>3. QED
  BY <1>1, <1>2, ShopInvAlways, PTL DEF Spec, KeepsThePromise, Promise!Spec

-----------------------------------------------------------------------------
(* WaffoCatalog.                                                            *)

CONSTANTS Items, Checkouts, MaxProducts, MaxEpoch
VARIABLES text, long, kv, prod, checkout, owed, excused
Goods == INSTANCE WaffoCatalog

Wares == [item : Items, name : Int, dated : BOOLEAN, active : BOOLEAN, live : BOOLEAN, tagged : BOOLEAN]
Tills == [step : {"look", "create", "publish", "session"}, item : Items, id : Int]

\* Products are numbered as they are made; an id that is kept, or published, is
\* that of a product of the item.
GoodsTypes ==
    /\ text \in [Items -> Int] /\ kv \in [Items -> Int]
    /\ prod \in [Goods!Ids -> {Goods!Absent} \union Wares]
    /\ checkout \in [Checkouts -> {Goods!Idle} \union Tills]
    /\ \E m \in Nat : Goods!Made = 1..m
    /\ \A i \in Items : kv[i] # 0 => kv[i] \in Goods!Made /\ prod[kv[i]].item = i
    /\ \A c \in Checkouts : Goods!At(c, "publish") =>
          checkout[c].id \in Goods!Made /\ prod[checkout[c].id].item = checkout[c].item

\* An item has one product on sale; it is the one that is cached, or it can be
\* found; who is about to make one is alone, and there is none yet.
Sole(i)  == \A n, m \in Goods!Active(i) : n = m
Known(i) == IF kv[i] = 0 THEN Goods!Active(i) \subseteq Goods!Found(i) ELSE Goods!Active(i) \subseteq {kv[i]}
Buys(c, i) == checkout[c] # Goods!Idle /\ checkout[c].item = i
Alone(i) ==
    \A c \in Checkouts : Buys(c, i) =>
        /\ checkout[c].step \in {"look", "create"} =>
              kv[i] = 0 /\ \A d \in Checkouts \ {c} : ~Buys(d, i)
        /\ checkout[c].step = "create" => Goods!Active(i) = {}
        /\ checkout[c].step = "publish" => Goods!Active(i) \subseteq {checkout[c].id}
ItemInv(i) == Sole(i) /\ Known(i) /\ Alone(i)

GoodsInv == GoodsTypes /\ \A i \in Items \ excused : ItemInv(i)

\* The instance counts as this module does.
LEMMA SameGoodsCount == \A S : Goods!Cardinality(S) = Cardinality(S)
BY DEF Goods!Cardinality, Cardinality

LEMMA WaresAreThere == \A w \in Wares : w # Goods!Absent
<1>1. \A w \in Wares : "name" \in DOMAIN w
  BY DEF Wares
<1>2. DOMAIN Goods!Absent = {"item"} /\ "name" # "item"
  BY DEF Goods!Absent
<1>3. QED
  BY <1>1, <1>2

\* Nothing is on sale yet.
LEMMA GoodsBegin == Goods!Init => GoodsInv
<1>1. SUFFICES ASSUME Goods!Init PROVE GoodsInv
  OBVIOUS
<1>2. Goods!Made = {} /\ \A i \in Items : Goods!Active(i) = {}
  BY <1>1 DEF Goods!Init, Goods!Made, Goods!Active
<1>3. \A c \in Checkouts : checkout[c] = Goods!Idle /\ ~Goods!At(c, "publish")
  BY <1>1 DEF Goods!Init, Goods!Idle, Goods!At
<1>4. \E m \in Nat : Goods!Made = 1..m
  <2>1. Goods!Made = 1..0
    BY <1>2
  <2>2. QED
    BY <2>1
<1>5. GoodsTypes
  BY <1>1, <1>3, <1>4 DEF Goods!Init, GoodsTypes
<1>6. \A i \in Items : ItemInv(i)
  BY <1>2, <1>3 DEF ItemInv, Sole, Known, Alone, Buys, Goods!Found
<1>7. QED
  BY <1>5, <1>6 DEF GoodsInv

\* A checkout steps on, and the same products are on sale under the same names.
LEMMA GoodsStay ==
    ASSUME GoodsInv, NEW c \in Checkouts, NEW x \in {Goods!Idle} \union Tills,
           checkout' = [checkout EXCEPT ![c] = x], UNCHANGED <<text, long>>,
           prod' \in [Goods!Ids -> {Goods!Absent} \union Wares], Goods!Made' = Goods!Made,
           \A n \in Goods!Made : prod'[n].item = prod[n].item,
           \A i \in Items : Goods!Active(i)' = Goods!Active(i) /\ Goods!Found(i)' = Goods!Found(i),
           kv' \in [Items -> Int], excused \subseteq excused',
           \A i \in Items : kv'[i] # kv[i] => kv'[i] \in Goods!Made /\ prod[kv'[i]].item = i,
           x # Goods!Idle /\ x.step = "publish" => x.id \in Goods!Made /\ prod[x.id].item = x.item,
           \A i \in Items \ excused' : kv'[i] # kv[i] =>
               /\ Goods!Active(i) \subseteq {kv'[i]}
               /\ \A d \in Checkouts \ {c} : Buys(d, i) => checkout[d].step \notin {"look", "create"},
           x # Goods!Idle /\ x.item \notin excused' =>
               /\ x.step \in {"look", "create"} =>
                     kv'[x.item] = 0 /\ \A d \in Checkouts \ {c} : ~Buys(d, x.item)
               /\ \A d \in Checkouts \ {c} : Buys(d, x.item) => checkout[d].step \notin {"look", "create"}
               /\ x.step = "create" => Goods!Active(x.item) = {}
               /\ x.step = "publish" => Goods!Active(x.item) \subseteq {x.id}
    PROVE  GoodsInv'
<1>1. /\ checkout' \in [Checkouts -> {Goods!Idle} \union Tills] /\ checkout'[c] = x
      /\ \A d \in Checkouts \ {c} : checkout'[d] = checkout[d]
  BY DEF GoodsInv, GoodsTypes
<1>2. /\ Goods!Made' = Goods!Made
      /\ \A i \in Items : Goods!Active(i)' = Goods!Active(i) /\ Goods!Found(i)' = Goods!Found(i)
  OBVIOUS
<1>3. \A d \in Checkouts : (checkout'[d]).step = "publish" =>
         (checkout'[d]).id \in Goods!Made /\ prod[(checkout'[d]).id].item = (checkout'[d]).item
  BY <1>1 DEF GoodsInv, GoodsTypes, Goods!At, Goods!Idle
<1>4. GoodsTypes'
  <2>1. \A i \in Items : kv'[i] # 0 => kv'[i] \in Goods!Made /\ prod[kv'[i]].item = i
    BY DEF GoodsInv, GoodsTypes
  <2>2. \A d \in Checkouts : Goods!At(d, "publish")' =>
           (checkout'[d]).id \in Goods!Made /\ prod[(checkout'[d]).id].item = (checkout'[d]).item
    BY <1>3 DEF Goods!At
  <2>3. /\ text' \in [Items -> Int] /\ prod' \in [Goods!Ids -> {Goods!Absent} \union Wares]
        /\ \E m \in Nat : Goods!Made' = 1..m
    BY <1>2 DEF GoodsInv, GoodsTypes
  <2>4. /\ \A i \in Items : kv'[i] # 0 => kv'[i] \in Goods!Made' /\ prod'[kv'[i]].item = i
        /\ \A d \in Checkouts : Goods!At(d, "publish")' =>
              (checkout'[d]).id \in Goods!Made' /\ prod'[(checkout'[d]).id].item = (checkout'[d]).item
    BY <1>2, <2>1, <2>2
  <2>5. QED
    BY <1>1, <2>3, <2>4 DEF GoodsTypes
<1>5. ASSUME NEW i \in Items \ excused' PROVE ItemInv(i)'
  <2>1. i \in Items \ excused /\ Sole(i) /\ Known(i) /\ Alone(i)
    BY DEF GoodsInv, ItemInv
  <2>2. Sole(i)' /\ Known(i)'
    BY <1>2, <2>1 DEF Sole, Known
  <2>3. ASSUME NEW d \in Checkouts, Buys(d, i)'
        PROVE  /\ (checkout'[d]).step \in {"look", "create"} =>
                     kv'[i] = 0 /\ \A e \in Checkouts \ {d} : ~Buys(e, i)'
               /\ (checkout'[d]).step = "create" => Goods!Active(i) = {}
               /\ (checkout'[d]).step = "publish" => Goods!Active(i) \subseteq {(checkout'[d]).id}
    <3>1. CASE d = c
      BY <1>1, <2>3, <3>1 DEF Buys
    <3>2. CASE d # c
      <4>1. checkout'[d] = checkout[d] /\ Buys(d, i)
        BY <1>1, <2>3, <3>2 DEF Buys
      <4>2. checkout[d].step \in {"look", "create"} => kv'[i] = kv[i] /\ ~Buys(c, i)'
        BY <1>1, <2>1, <3>2, <4>1 DEF Buys
      <4>3. QED
        BY <1>1, <2>1, <4>1, <4>2 DEF Alone, Buys
    <3>3. QED
      BY <3>1, <3>2
  <2>4. Alone(i)'
    BY <1>2, <2>3 DEF Alone
  <2>5. QED
    BY <2>2, <2>4 DEF ItemInv
<1>6. QED
  BY <1>4, <1>5 DEF GoodsInv

\* The products are changed or taken off sale, and what is not cached can be found.
LEMMA GoodsChange ==
    ASSUME GoodsInv, prod' \in [Goods!Ids -> {Goods!Absent} \union Wares], text' \in [Items -> Int],
           \A n \in Goods!Ids : /\ prod'[n] = Goods!Absent <=> prod[n] = Goods!Absent
                                /\ prod[n] # Goods!Absent => /\ prod'[n].item = prod[n].item
                                                             /\ prod'[n].active => prod[n].active,
           UNCHANGED <<kv, checkout>>, excused \subseteq excused',
           \A i \in Items \ excused' : kv[i] = 0 => Goods!Active(i)' \subseteq Goods!Found(i)'
    PROVE  GoodsInv'
<1>1. Goods!Made' = Goods!Made
  BY DEF Goods!Made
<1>2. \A n \in Goods!Made : n \in Goods!Ids /\ prod[n] # Goods!Absent /\ prod'[n].item = prod[n].item
  BY DEF Goods!Made
<1>3. \A i \in Items : Goods!Active(i)' \subseteq Goods!Active(i)
  BY <1>1, <1>2 DEF Goods!Active
<1>4. GoodsTypes'
  <2>1. \A i \in Items : kv[i] # 0 => kv[i] \in Goods!Made /\ prod'[kv[i]].item = i
    BY <1>2 DEF GoodsInv, GoodsTypes
  <2>2. \A c \in Checkouts : Goods!At(c, "publish")' =>
           checkout[c].id \in Goods!Made /\ prod'[checkout[c].id].item = checkout[c].item
    <3>1. \A c \in Checkouts : Goods!At(c, "publish") =>
             checkout[c].id \in Goods!Made /\ prod[checkout[c].id].item = checkout[c].item
      BY DEF GoodsInv, GoodsTypes
    <3>2. \A c \in Checkouts : Goods!At(c, "publish")' => Goods!At(c, "publish")
      BY DEF Goods!At
    <3>3. QED
      BY <1>2, <3>1, <3>2
  <2>3. UNCHANGED checkout
    OBVIOUS
  <2>4. /\ kv' \in [Items -> Int] /\ checkout' \in [Checkouts -> {Goods!Idle} \union Tills]
        /\ \E m \in Nat : Goods!Made' = 1..m
    BY <1>1 DEF GoodsInv, GoodsTypes
  <2>5. QED
    BY <1>1, <2>1, <2>2, <2>3, <2>4 DEF GoodsTypes
<1>5. ASSUME NEW i \in Items \ excused' PROVE ItemInv(i)'
  <2>1. i \in Items \ excused /\ Sole(i) /\ Known(i) /\ Alone(i) /\ Goods!Active(i)' \subseteq Goods!Active(i)
    BY <1>3 DEF GoodsInv, ItemInv
  <2>2. Sole(i)'
    BY <2>1 DEF Sole
  <2>3. Known(i)'
    BY <2>1 DEF Known
  <2>4. \A c \in Checkouts : Buys(c, i)' = Buys(c, i)
    BY DEF Buys
  <2>5. Alone(i)'
    BY <2>1, <2>4 DEF Alone
  <2>6. QED
    BY <2>2, <2>3, <2>5 DEF ItemInv
<1>6. QED
  BY <1>4, <1>5 DEF GoodsInv

\* A product that is made, when there was none and nobody else was at it.
LEMMA GoodsMade ==
    ASSUME GoodsInv, NEW c \in Checkouts, NEW i \in Items, Buys(c, i), checkout[c].step = "create",
           NEW n \in Goods!Ids, n \notin Goods!Made, \E m \in Nat : Goods!Made \union {n} = 1..m,
           NEW w \in Wares, w.item = i, w.active, prod' = [prod EXCEPT ![n] = w],
           NEW x \in {Goods!Idle} \union Tills, checkout' = [checkout EXCEPT ![c] = x],
           x # Goods!Idle => x.step = "publish" /\ x.item = i /\ x.id = n,
           UNCHANGED <<text, long>>, excused \subseteq excused',
           \/ kv' = [kv EXCEPT ![i] = n]
           \/ x = Goods!Idle /\ kv' = kv /\ (i \notin excused' => w.name = text[i] /\ ~Goods!Cut(i))
    PROVE  GoodsInv'
<1>1. /\ prod' \in [Goods!Ids -> {Goods!Absent} \union Wares] /\ prod'[n] = w
      /\ \A m \in Goods!Ids \ {n} : prod'[m] = prod[m]
      /\ prod[n] = Goods!Absent /\ w # Goods!Absent
  <2>1. prod[n] = Goods!Absent
    BY DEF Goods!Made
  <2>2. w # Goods!Absent
    BY WaresAreThere
  <2>3. QED
    BY <2>1, <2>2 DEF GoodsInv, GoodsTypes
<1>2. /\ Goods!Made' = Goods!Made \union {n}
      /\ Goods!Active(i)' = Goods!Active(i) \union {n}
      /\ \A j \in Items \ {i} : Goods!Active(j)' = Goods!Active(j) /\ Goods!Found(j)' = Goods!Found(j)
  <2>1. Goods!Made' = Goods!Made \union {n}
    BY <1>1 DEF Goods!Made
  <2>2. \A m \in Goods!Made : m \in Goods!Ids \ {n}
    BY DEF Goods!Made
  <2>3. /\ Goods!Active(i)' = Goods!Active(i) \union {n}
        /\ \A j \in Items \ {i} : Goods!Active(j)' = Goods!Active(j)
    BY <1>1, <2>1, <2>2 DEF Goods!Active
  <2>4. \A j \in Items \ {i} : Goods!Found(j)' = Goods!Found(j)
    BY <1>1, <2>2, <2>3 DEF Goods!Found, Goods!Active, Goods!Cut
  <2>5. QED
    BY <2>1, <2>3, <2>4
<1>3. /\ checkout' \in [Checkouts -> {Goods!Idle} \union Tills] /\ checkout'[c] = x
      /\ \A d \in Checkouts \ {c} : checkout'[d] = checkout[d]
  BY DEF GoodsInv, GoodsTypes
<1>4. n \in Int /\ kv' \in [Items -> Int] /\ kv'[i] \in {kv[i], n} /\ \A j \in Items \ {i} : kv'[j] = kv[j]
  BY DEF GoodsInv, GoodsTypes, Goods!Ids
<1>5. \A m \in Goods!Made : m \in Goods!Ids \ {n} /\ prod'[m] = prod[m]
  BY <1>1 DEF Goods!Made
<1>6. GoodsTypes'
  <2>1. \A j \in Items : kv'[j] # 0 => kv'[j] \in Goods!Made' /\ prod'[kv'[j]].item = j
    BY <1>1, <1>2, <1>4, <1>5 DEF GoodsInv, GoodsTypes
  <2>2. ASSUME NEW d \in Checkouts, (checkout'[d]).step = "publish"
        PROVE  /\ (checkout'[d]).id \in Goods!Made'
               /\ prod'[(checkout'[d]).id].item = (checkout'[d]).item
    <3>1. CASE d = c
      BY <1>1, <1>2, <1>3, <2>2, <3>1 DEF Goods!Idle
    <3>2. CASE d # c
      BY <1>2, <1>3, <1>5, <2>2, <3>2 DEF GoodsInv, GoodsTypes, Goods!At
    <3>3. QED
      BY <3>1, <3>2
  <2>3. QED
    BY <1>1, <1>2, <1>3, <1>4, <2>1, <2>2 DEF GoodsInv, GoodsTypes, Goods!At
<1>7. ASSUME NEW j \in Items \ excused', j # i PROVE ItemInv(j)'
  <2>1. j \in Items \ excused /\ Sole(j) /\ Known(j) /\ Alone(j)
    BY DEF GoodsInv, ItemInv
  <2>2. Sole(j)' /\ Known(j)'
    BY <1>2, <1>4, <1>7, <2>1 DEF Sole, Known
  <2>3. \A d \in Checkouts : Buys(d, j)' => d # c /\ Buys(d, j) /\ checkout'[d] = checkout[d]
    BY <1>3, <1>7 DEF Buys
  <2>4. Alone(j)'
    BY <1>2, <1>4, <1>7, <2>1, <2>3 DEF Alone
  <2>5. QED
    BY <2>2, <2>4 DEF ItemInv
<1>8. ASSUME i \notin excused' PROVE ItemInv(i)'
  <2>1. Alone(i) /\ i \in Items \ excused
    BY <1>8 DEF GoodsInv, ItemInv
  <2>2. Goods!Active(i)' = {n} /\ \A d \in Checkouts \ {c} : ~Buys(d, i)
    BY <1>2, <2>1 DEF Alone
  <2>3. \A d \in Checkouts : Buys(d, i)' => d = c /\ x # Goods!Idle
    BY <1>3, <2>2 DEF Buys
  <2>4. Sole(i)'
    BY <2>2 DEF Sole
  <2>5. CASE kv'[i] = n
    <3>1. n # 0
      BY DEF Goods!Ids
    <3>2. Known(i)'
      BY <2>2, <2>5, <3>1 DEF Known
    <3>3. Alone(i)'
      BY <1>3, <2>2, <2>3 DEF Alone
    <3>4. QED
      BY <2>4, <3>2, <3>3 DEF ItemInv
  <2>6. CASE kv'[i] # n
    <3>1. kv' = kv /\ x = Goods!Idle /\ w.name = text[i] /\ ~Goods!Cut(i)
      BY <1>8, <2>6 DEF GoodsInv, GoodsTypes
    <3>2. Goods!Found(i)' = {n}
      BY <1>1, <2>2, <3>1 DEF Goods!Found, Goods!Cut
    <3>3. kv[i] = 0
      BY <2>1 DEF Alone
    <3>4. Known(i)'
      BY <2>2, <3>1, <3>2, <3>3 DEF Known
    <3>5. Alone(i)'
      BY <2>3, <3>1 DEF Alone
    <3>6. QED
      BY <2>4, <3>4, <3>5 DEF ItemInv
  <2>7. QED
    BY <2>5, <2>6
<1>9. QED
  BY <1>6, <1>7, <1>8 DEF GoodsInv

\* What the catalogue holds is of its type.
LEMMA GoodsAre ==
    ASSUME GoodsInv
    PROVE  /\ \A n \in Goods!Made : n \in Goods!Ids /\ prod[n] \in Wares
           /\ \A c \in Checkouts : checkout[c] # Goods!Idle => checkout[c] \in Tills
           /\ \A i \in Items : text[i] \in Int /\ kv[i] \in Int
BY DEF GoodsInv, GoodsTypes, Goods!Made

LEMMA GoodsBegins == ASSUME GoodsInv, NEW c \in Checkouts, NEW i \in Items, Goods!Begin(c, i) PROVE GoodsInv'
<1> DEFINE x == [step |-> IF kv[i] # 0 THEN "session" ELSE "look", item |-> i, id |-> kv[i]]
<1>1. checkout[c].step = "idle" /\ UNCHANGED <<text, long, prod, kv>> /\ checkout' = [checkout EXCEPT ![c] = x]
  BY DEF Goods!Begin, Goods!At, Goods!Go, Goods!tables
<1>2. checkout[c] = Goods!Idle
  BY <1>1, GoodsAre DEF Tills
<1>3. /\ x \in {Goods!Idle} \union Tills /\ x.item = i /\ x.step \in {"look", "session"}
      /\ x.step = "look" => kv[i] = 0
      /\ x.step = "session" => kv[i] # 0
  BY GoodsAre DEF Tills
<1> HIDE DEF x
<1>4. excused \subseteq excused'
  BY DEF Goods!Begin
<1>5. ASSUME i \notin excused'
      PROVE  /\ x.step = "look" => \A d \in Checkouts \ {c} : ~Buys(d, i)
             /\ \A d \in Checkouts \ {c} : Buys(d, i) => checkout[d].step \notin {"look", "create"}
  <2>1. CASE kv[i] = 0
    <3>1. \A d \in Checkouts \ {c} : ~Buys(d, i)
      BY <1>5, <2>1 DEF Goods!Begin, Buys
    <3>2. QED
      BY <3>1
  <2>2. CASE kv[i] # 0
    <3>1. Alone(i)
      BY <1>4, <1>5 DEF GoodsInv, ItemInv
    <3>2. QED
      BY <1>3, <2>2, <3>1 DEF Alone
  <2>3. QED
    BY <2>1, <2>2
<1>6. /\ prod' \in [Goods!Ids -> {Goods!Absent} \union Wares] /\ kv' \in [Items -> Int]
      /\ Goods!Made' = Goods!Made
      /\ \A n \in Goods!Made : prod'[n].item = prod[n].item
      /\ \A j \in Items : Goods!Active(j)' = Goods!Active(j) /\ Goods!Found(j)' = Goods!Found(j)
  BY <1>1 DEF GoodsInv, GoodsTypes, Goods!Made, Goods!Active, Goods!Found, Goods!Cut
<1>7. \A j \in Items : kv'[j] = kv[j]
  BY <1>1
<1>8. x # Goods!Idle /\ x.item \notin excused' =>
         /\ x.step \in {"look", "create"} =>
               kv'[x.item] = 0 /\ \A d \in Checkouts \ {c} : ~Buys(d, x.item)
         /\ \A d \in Checkouts \ {c} : Buys(d, x.item) => checkout[d].step \notin {"look", "create"}
         /\ x.step = "create" => Goods!Active(x.item) = {}
         /\ x.step = "publish" => Goods!Active(x.item) \subseteq {x.id}
  BY <1>1, <1>3, <1>5
<1>9. x # Goods!Idle /\ x.step = "publish" => x.id \in Goods!Made /\ prod[x.id].item = x.item
  BY <1>3
<1>10. QED
  BY <1>1, <1>3, <1>4, <1>6, <1>7, <1>8, <1>9, GoodsStay

\* A checkout ends.
LEMMA GoodsLeft ==
    ASSUME GoodsInv, NEW c \in Checkouts, Goods!Fail(c), UNCHANGED <<text, long, prod, kv, excused>>
    PROVE  GoodsInv'
<1>1. checkout' = [checkout EXCEPT ![c] = Goods!Idle]
  BY DEF Goods!Fail
<1>2. /\ checkout' \in [Checkouts -> {Goods!Idle} \union Tills] /\ checkout'[c] = Goods!Idle
      /\ \A d \in Checkouts \ {c} : checkout'[d] = checkout[d]
  BY <1>1 DEF GoodsInv, GoodsTypes
<1>3. /\ Goods!Made' = Goods!Made
      /\ \A i \in Items : Goods!Active(i)' = Goods!Active(i) /\ Goods!Found(i)' = Goods!Found(i)
  BY DEF Goods!Made, Goods!Active, Goods!Found, Goods!Cut
<1>4. \A d \in Checkouts : Goods!At(d, "publish")' => Goods!At(d, "publish") /\ checkout'[d] = checkout[d]
  BY <1>2 DEF Goods!At, Goods!Idle
<1>5. GoodsTypes'
  BY <1>2, <1>3, <1>4 DEF GoodsInv, GoodsTypes
<1>6. \A d \in Checkouts, i \in Items : Buys(d, i)' => Buys(d, i) /\ checkout'[d] = checkout[d]
  BY <1>2 DEF Buys
<1>7. ASSUME NEW i \in Items \ excused PROVE ItemInv(i)'
  <2>1. ItemInv(i)
    BY DEF GoodsInv
  <2>2. Sole(i)' /\ Known(i)'
    BY <1>3, <2>1 DEF ItemInv, Sole, Known
  <2>3. Alone(i)'
    BY <1>3, <1>6, <2>1 DEF ItemInv, Alone
  <2>4. QED
    BY <2>2, <2>3 DEF ItemInv
<1>8. QED
  BY <1>5, <1>7 DEF GoodsInv

\* The products are what they were.
LEMMA SameGoods ==
    ASSUME GoodsInv, UNCHANGED <<text, long, prod>>
    PROVE  /\ prod' \in [Goods!Ids -> {Goods!Absent} \union Wares] /\ Goods!Made' = Goods!Made
           /\ \A n \in Goods!Made : prod'[n].item = prod[n].item
           /\ \A j \in Items : Goods!Active(j)' = Goods!Active(j) /\ Goods!Found(j)' = Goods!Found(j)
BY DEF GoodsInv, GoodsTypes, Goods!Made, Goods!Active, Goods!Found, Goods!Cut

\* A checkout is given the product it sells, which is the only one.
LEMMA GoodsKept ==
    ASSUME GoodsInv, NEW c \in Checkouts, NEW i \in Items, NEW n \in Goods!Made, prod[n].item = i,
           UNCHANGED <<text, long>>,
           prod' \in [Goods!Ids -> {Goods!Absent} \union Wares], Goods!Made' = Goods!Made,
           \A m \in Goods!Made : prod'[m].item = prod[m].item,
           \A j \in Items : Goods!Active(j)' = Goods!Active(j) /\ Goods!Found(j)' = Goods!Found(j),
           Goods!Kept(i, n), Goods!Go(c, "session", i, n), UNCHANGED excused,
           i \notin excused => /\ Goods!Active(i) \subseteq {n}
                               /\ \A d \in Checkouts \ {c} : Buys(d, i) => checkout[d].step \notin {"look", "create"}
    PROVE  GoodsInv'
<1> DEFINE x == [step |-> "session", item |-> i, id |-> n]
<1>1. checkout' = [checkout EXCEPT ![c] = x]
  BY DEF Goods!Go
<1>2. n \in Int
  BY DEF Goods!Made, Goods!Ids
<1>3. x \in {Goods!Idle} \union Tills /\ x.item = i /\ x.step = "session"
  BY <1>2 DEF Tills
<1> HIDE DEF x
<1>4. kv' \in [Items -> Int] /\ kv'[i] = n /\ \A j \in Items \ {i} : kv'[j] = kv[j]
  BY <1>2 DEF Goods!Kept, GoodsInv, GoodsTypes
<1>5. \A j \in Items : kv'[j] # kv[j] => kv'[j] \in Goods!Made /\ prod[kv'[j]].item = j
  BY <1>4
<1>6. \A j \in Items \ excused' : kv'[j] # kv[j] =>
         /\ Goods!Active(j) \subseteq {kv'[j]}
         /\ \A d \in Checkouts \ {c} : Buys(d, j) => checkout[d].step \notin {"look", "create"}
  BY <1>4
<1>7. x # Goods!Idle /\ x.item \notin excused' =>
         /\ x.step \in {"look", "create"} =>
               kv'[x.item] = 0 /\ \A d \in Checkouts \ {c} : ~Buys(d, x.item)
         /\ \A d \in Checkouts \ {c} : Buys(d, x.item) => checkout[d].step \notin {"look", "create"}
         /\ x.step = "create" => Goods!Active(x.item) = {}
         /\ x.step = "publish" => Goods!Active(x.item) \subseteq {x.id}
  BY <1>3
<1>8. x # Goods!Idle /\ x.step = "publish" => x.id \in Goods!Made /\ prod[x.id].item = x.item
  BY <1>3
<1>9. QED
  BY <1>1, <1>3, <1>4, <1>5, <1>6, <1>7, <1>8, GoodsStay

\* The products of the item are looked for, and one is used again or none is there.
LEMMA GoodsLookedFor ==
    ASSUME GoodsInv, NEW c \in Checkouts, NEW answer, Goods!Look(c, answer) PROVE GoodsInv'
<1>1. /\ checkout[c].step = "look" /\ UNCHANGED <<text, long, prod>>
      /\ checkout[c] # Goods!Idle /\ checkout[c] \in Tills
  <2>1. Goods!At(c, "look") /\ UNCHANGED <<Goods!tables, prod>>
    BY DEF Goods!Look
  <2>2. QED
    BY <2>1, GoodsAre DEF Goods!At, Goods!Idle, Goods!tables
<1>2. PICK i \in Items : i = checkout[c].item
  BY <1>1 DEF Tills
<1>3. Buys(c, i)
  BY <1>1, <1>2 DEF Buys
<1>4. i \notin excused => Sole(i) /\ Known(i) /\ kv[i] = 0 /\ \A d \in Checkouts \ {c} : ~Buys(d, i)
  BY <1>1, <1>3 DEF GoodsInv, ItemInv, Alone
<1>5. CASE Goods!Fail(c) /\ UNCHANGED <<kv, excused>>
  BY <1>1, <1>5, GoodsLeft
<1>6. ASSUME NEW n \in Goods!Found(i), Goods!Kept(i, n), Goods!Go(c, "session", i, n), UNCHANGED excused
      PROVE  GoodsInv'
  <2>1. n \in Goods!Made /\ prod[n].item = i /\ n \in Goods!Active(i)
    BY DEF Goods!Found, Goods!Active
  <2>2. i \notin excused => Goods!Active(i) \subseteq {n}
    BY <1>4, <2>1 DEF Sole
  <2>3. QED
    BY <1>1, <1>4, <1>6, <2>1, <2>2, SameGoods, GoodsKept
<1>7. ASSUME Goods!Go(c, "create", i, 0), UNCHANGED kv,
             excused' = IF Goods!Found(i) # {} THEN excused \union {i} ELSE excused
      PROVE  GoodsInv'
  <2> DEFINE x == [step |-> "create", item |-> i, id |-> 0]
  <2>1. checkout' = [checkout EXCEPT ![c] = x]
    BY <1>7 DEF Goods!Go
  <2>2. x \in {Goods!Idle} \union Tills /\ x.item = i /\ x.step = "create"
    BY DEF Tills
  <2> HIDE DEF x
  <2>3. excused \subseteq excused' /\ kv' \in [Items -> Int] /\ \A j \in Items : kv'[j] = kv[j]
    BY <1>7 DEF GoodsInv, GoodsTypes
  <2>4. i \notin excused' => i \notin excused /\ Goods!Found(i) = {}
    BY <1>7
  <2>5. i \notin excused' => Goods!Active(i) = {}
    BY <1>4, <2>4 DEF Known
  <2>6. x # Goods!Idle /\ x.item \notin excused' =>
           /\ x.step \in {"look", "create"} =>
                 kv'[x.item] = 0 /\ \A d \in Checkouts \ {c} : ~Buys(d, x.item)
           /\ \A d \in Checkouts \ {c} : Buys(d, x.item) => checkout[d].step \notin {"look", "create"}
           /\ x.step = "create" => Goods!Active(x.item) = {}
           /\ x.step = "publish" => Goods!Active(x.item) \subseteq {x.id}
    BY <1>4, <2>2, <2>3, <2>4, <2>5
  <2>7. x # Goods!Idle /\ x.step = "publish" => x.id \in Goods!Made /\ prod[x.id].item = x.item
    BY <2>2
  <2>8. QED
    BY <1>1, <2>1, <2>2, <2>3, <2>6, <2>7, SameGoods, GoodsStay
<1>8. QED
  BY <1>2, <1>5, <1>6, <1>7 DEF Goods!Look

\* The number of a new product is the next one.
LEMMA NextNumber ==
    ASSUME GoodsInv
    PROVE  LET n == Goods!Cardinality(Goods!Made) + 1
           IN  n \notin Goods!Made /\ \E m \in Nat : Goods!Made \union {n} = 1..m
<1>1. PICK m \in Nat : Goods!Made = 1..m
  BY DEF GoodsInv, GoodsTypes
<1>2. Goods!Cardinality(Goods!Made) = m
  <2>1. Cardinality(1..m) = m
    BY FS_Interval
  <2>2. QED
    BY <1>1, <2>1, SameGoodsCount
<1>3. (1..m) \union {m + 1} = 1..(m + 1) /\ m + 1 \notin 1..m /\ m + 1 \in Nat
  OBVIOUS
<1>4. QED
  BY <1>1, <1>2, <1>3

LEMMA GoodsCreated ==
    ASSUME GoodsInv, NEW c \in Checkouts, NEW answer \in {"refused", "made", "lost"}, NEW live \in BOOLEAN,
           Goods!Create(c, answer, live)
    PROVE  GoodsInv'
<1>1. /\ checkout[c].step = "create" /\ UNCHANGED <<text, long>>
      /\ checkout[c] # Goods!Idle /\ checkout[c] \in Tills
  BY GoodsAre DEF Goods!Create, Goods!At, Goods!Idle, Goods!tables
<1>2. PICK i \in Items : i = checkout[c].item
  BY <1>1 DEF Tills
<1>3. Buys(c, i)
  BY <1>1, <1>2 DEF Buys
<1>4. CASE answer = "refused"
  <2>1. Goods!Fail(c) /\ UNCHANGED <<kv, prod, excused>>
    BY <1>4 DEF Goods!Create
  <2>2. QED
    BY <1>1, <2>1, GoodsLeft
<1>5. CASE answer # "refused"
  <2> DEFINE n == Goods!Cardinality(Goods!Made) + 1
             w == Goods!Product(i, live)
  <2>1. n \in Goods!Ids /\ prod' = [prod EXCEPT ![n] = w]
    BY <1>2, <1>5 DEF Goods!Create
  <2>2. n \notin Goods!Made /\ \E m \in Nat : Goods!Made \union {n} = 1..m
    BY NextNumber
  <2>3. w \in Wares /\ w.item = i /\ w.active /\ w.name = text[i]
    BY GoodsAre DEF Goods!Product, Wares
  <2>4. CASE answer = "made"
    <3> DEFINE x == [step |-> "publish", item |-> i, id |-> n]
    <3>1. kv' = [kv EXCEPT ![i] = n] /\ checkout' = [checkout EXCEPT ![c] = x] /\ excused' = excused
      BY <1>2, <2>4 DEF Goods!Create, Goods!Kept, Goods!Go
    <3>2. n \in Int
      BY <2>1 DEF Goods!Ids
    <3> HIDE DEF n, w
    <3>3. x \in {Goods!Idle} \union Tills /\ x.step = "publish" /\ x.item = i /\ x.id = n
      BY <3>2 DEF Tills
    <3> HIDE DEF x
    <3>4. QED
      BY <1>1, <1>3, <2>1, <2>2, <2>3, <3>1, <3>3, GoodsMade
  <2>5. CASE answer = "lost"
    <3>1. /\ kv' = kv /\ checkout' = [checkout EXCEPT ![c] = Goods!Idle]
          /\ excused' = IF Goods!Cut(i) THEN excused \union {i} ELSE excused
      BY <1>2, <2>5 DEF Goods!Create, Goods!Fail
    <3>2. excused \subseteq excused' /\ (i \notin excused' => ~Goods!Cut(i))
      BY <3>1
    <3> DEFINE x == Goods!Idle
    <3>3. x \in {Goods!Idle} \union Tills /\ x = Goods!Idle
      OBVIOUS
    <3> HIDE DEF n, w, x
    <3>4. QED
      BY <1>1, <1>3, <2>1, <2>2, <2>3, <3>1, <3>2, <3>3, GoodsMade
  <2>6. QED
    BY <1>5, <2>4, <2>5
<1>6. QED
  BY <1>4, <1>5

LEMMA GoodsPublished ==
    ASSUME GoodsInv, NEW c \in Checkouts, NEW answer \in {"failed", "no test version", "published"},
           Goods!Publish(c, answer)
    PROVE  GoodsInv'
<1>1. /\ checkout[c].step = "publish" /\ UNCHANGED <<text, long, excused>>
      /\ checkout[c] # Goods!Idle /\ checkout[c] \in Tills
  <2>1. Goods!At(c, "publish") /\ UNCHANGED <<Goods!tables, excused>>
    BY DEF Goods!Publish
  <2>2. checkout[c].step = "publish" /\ checkout[c] # Goods!Idle
    <3>1. checkout[c].step = "publish"
      BY <2>1 DEF Goods!At
    <3>2. Goods!Idle.step = "idle"
      BY DEF Goods!Idle
    <3>3. QED
      BY <3>1, <3>2
  <2>3. UNCHANGED <<text, long, excused>>
    BY <2>1 DEF Goods!tables
  <2>4. QED
    BY <2>2, <2>3, GoodsAre
<1>2. PICK i \in Items : i = checkout[c].item
  BY <1>1 DEF Tills
<1>3. PICK n \in Goods!Made : n = checkout[c].id /\ prod[n].item = i
  BY <1>1, <1>2 DEF GoodsInv, GoodsTypes, Goods!At
<1>4. Buys(c, i)
  BY <1>1, <1>2 DEF Buys
<1>5. i \notin excused => /\ Goods!Active(i) \subseteq {n}
                          /\ \A d \in Checkouts \ {c} : Buys(d, i) => checkout[d].step \notin {"look", "create"}
  BY <1>1, <1>3, <1>4 DEF GoodsInv, ItemInv, Alone
<1>6. CASE answer = "failed"
  <2>1. Goods!Fail(c) /\ UNCHANGED <<kv, prod>>
    BY <1>6 DEF Goods!Publish
  <2>2. QED
    BY <1>1, <2>1, GoodsLeft
<1>7. CASE answer = "no test version"
  <2>1. Goods!Kept(i, n) /\ Goods!Go(c, "session", i, n) /\ UNCHANGED prod
    BY <1>2, <1>3, <1>7 DEF Goods!Publish
  <2>2. QED
    BY <1>1, <1>3, <1>5, <2>1, SameGoods, GoodsKept
<1>8. CASE answer = "published"
  <2> DEFINE w == [prod[n] EXCEPT !.live = TRUE]
  <2>1. Goods!Kept(i, n) /\ Goods!Go(c, "session", i, n) /\ prod' = [prod EXCEPT ![n] = w]
    BY <1>2, <1>3, <1>8 DEF Goods!Publish
  <2>2. n \in Goods!Ids /\ prod[n] \in Wares
    BY GoodsAre
  <2>3. /\ w \in Wares /\ w.item = prod[n].item /\ w.active = prod[n].active /\ w.name = prod[n].name
    BY <2>2 DEF Wares
  <2> HIDE DEF w
  <2>4. /\ prod' \in [Goods!Ids -> {Goods!Absent} \union Wares] /\ prod'[n] = w
        /\ \A m \in Goods!Ids \ {n} : prod'[m] = prod[m]
    BY <2>1, <2>2, <2>3 DEF GoodsInv, GoodsTypes
  <2>5. Goods!Made' = Goods!Made
    BY <2>2, <2>3, <2>4, WaresAreThere DEF Goods!Made
  <2>6. \A m \in Goods!Made : /\ prod'[m].item = prod[m].item /\ prod'[m].active = prod[m].active
                              /\ prod'[m].name = prod[m].name
    BY <2>3, <2>4, GoodsAre
  <2>7. \A j \in Items : Goods!Active(j)' = Goods!Active(j)
    BY <2>5, <2>6 DEF Goods!Active
  <2>8. \A j \in Items : Goods!Active(j) \subseteq Goods!Made
    BY DEF Goods!Active
  <2>9. \A j \in Items : Goods!Found(j)' = Goods!Found(j)
    BY <1>1, <2>6, <2>7, <2>8 DEF Goods!Found, Goods!Cut
  <2>10. QED
    BY <1>1, <1>3, <1>5, <2>1, <2>4, <2>5, <2>6, <2>7, <2>9, GoodsKept
<1>9. QED
  BY <1>6, <1>7, <1>8

\* The operator changes one product.
LEMMA OneProductChanges ==
    ASSUME GoodsInv, NEW n \in Goods!Made, NEW w \in Wares, w.item = prod[n].item, w.active => prod[n].active,
           prod' = [prod EXCEPT ![n] = w], UNCHANGED <<text, long, kv, checkout, excused>>,
           w.name = prod[n].name \/ \E i \in Items : kv[i] = n /\ n # 0
    PROVE  GoodsInv'
<1>1. n \in Goods!Ids /\ prod[n] \in Wares
  BY GoodsAre
<1>2. /\ prod' \in [Goods!Ids -> {Goods!Absent} \union Wares] /\ prod'[n] = w
      /\ \A m \in Goods!Ids \ {n} : prod'[m] = prod[m]
  BY <1>1 DEF GoodsInv, GoodsTypes
<1>3. \A m \in Goods!Ids : /\ prod'[m] = Goods!Absent <=> prod[m] = Goods!Absent
                           /\ prod[m] # Goods!Absent => /\ prod'[m].item = prod[m].item
                                                        /\ prod'[m].active => prod[m].active
  BY <1>1, <1>2, WaresAreThere
<1>4. Goods!Made' = Goods!Made
  BY <1>3 DEF Goods!Made
<1>5. ASSUME NEW i \in Items \ excused', kv[i] = 0 PROVE Goods!Active(i)' \subseteq Goods!Found(i)'
  <2>1. Goods!Active(i) \subseteq Goods!Found(i)
    BY <1>5 DEF GoodsInv, ItemInv, Known
  <2>2. w.name = prod[n].name \/ prod[n].item # i
    BY <1>5 DEF GoodsInv, GoodsTypes
  <2>3. ASSUME NEW m \in Goods!Active(i)' PROVE prod'[m].name = text[i] /\ ~Goods!Cut(i)
    <3>1. m \in Goods!Made /\ m \in Goods!Ids /\ prod'[m].item = i /\ prod'[m].active
      BY <1>4 DEF Goods!Active, Goods!Made
    <3>2. m \in Goods!Active(i)
      BY <1>3, <3>1 DEF Goods!Active, Goods!Made
    <3>3. prod[m].name = text[i] /\ ~Goods!Cut(i)
      BY <2>1, <3>2 DEF Goods!Found
    <3>4. prod'[m].name = prod[m].name
      BY <1>2, <2>2, <3>1, <3>2 DEF Goods!Active
    <3>5. QED
      BY <3>3, <3>4
  <2>4. QED
    BY <2>3 DEF Goods!Found, Goods!Cut
<1>6. text' \in [Items -> Int] /\ excused \subseteq excused'
  BY DEF GoodsInv, GoodsTypes
<1>7. QED
  BY <1>2, <1>3, <1>5, <1>6, GoodsChange

LEMMA GoodsTended ==
    ASSUME GoodsInv, NEW i \in Items, Goods!SyncCatalog(i) \/ Goods!RenameProducts(i)
    PROVE  GoodsInv'
<1>1. UNCHANGED <<text, long, kv, checkout, excused>> /\ kv[i] # 0
  BY DEF Goods!SyncCatalog, Goods!RenameProducts, Goods!tables
<1>2. PICK n \in Goods!Made : n = kv[i] /\ prod[n].item = i
  BY <1>1 DEF GoodsInv, GoodsTypes
<1>3. prod[n] \in Wares /\ text[i] \in Int
  BY GoodsAre
<1>4. PICK w \in Wares : w.item = prod[n].item /\ w.active = prod[n].active /\ prod' = [prod EXCEPT ![n] = w]
  <2>1. CASE Goods!SyncCatalog(i)
    <3> DEFINE w == [prod[n] EXCEPT !.name = text[i], !.dated = FALSE]
    <3>1. w \in Wares /\ w.item = prod[n].item /\ w.active = prod[n].active
      BY <1>3 DEF Wares
    <3>2. prod' = [prod EXCEPT ![n] = w]
      BY <1>2, <2>1 DEF Goods!SyncCatalog, GoodsInv, GoodsTypes
    <3> HIDE DEF w
    <3>3. QED
      BY <3>1, <3>2
  <2>2. CASE Goods!RenameProducts(i)
    <3> DEFINE w == [prod[n] EXCEPT !.name = text[i]]
    <3>1. w \in Wares /\ w.item = prod[n].item /\ w.active = prod[n].active
      BY <1>3 DEF Wares
    <3>2. prod' = [prod EXCEPT ![n] = w]
      BY <1>2, <2>2 DEF Goods!RenameProducts
    <3> HIDE DEF w
    <3>3. QED
      BY <3>1, <3>2
  <2>3. QED
    BY <2>1, <2>2
<1>5. QED
  BY <1>1, <1>2, <1>4, OneProductChanges

LEMMA GoodsWithdrawn ==
    ASSUME GoodsInv, NEW n \in Goods!Ids, Goods!Deactivate(n) \/ Goods!RetireProducts(n)
    PROVE  GoodsInv'
<1>1. UNCHANGED <<text, long, kv, checkout, excused>> /\ n \in Goods!Made
  BY DEF Goods!Deactivate, Goods!RetireProducts, Goods!tables
<1>2. prod[n] \in Wares
  BY <1>1, GoodsAre
<1>3. PICK w \in Wares : /\ w.item = prod[n].item /\ (w.active => prod[n].active) /\ w.name = prod[n].name
                         /\ prod' = [prod EXCEPT ![n] = w]
  <2>1. CASE Goods!Deactivate(n)
    <3> DEFINE w == [prod[n] EXCEPT !.active = FALSE]
    <3>1. w \in Wares /\ w.item = prod[n].item /\ ~w.active /\ w.name = prod[n].name
      BY <1>2 DEF Wares
    <3>2. prod' = [prod EXCEPT ![n] = w]
      BY <2>1 DEF Goods!Deactivate
    <3> HIDE DEF w
    <3>3. QED
      BY <3>1, <3>2
  <2>2. CASE Goods!RetireProducts(n)
    <3> DEFINE w == [prod[n] EXCEPT !.tagged = TRUE]
    <3>1. w \in Wares /\ w.item = prod[n].item /\ w.active = prod[n].active /\ w.name = prod[n].name
      BY <1>2 DEF Wares
    <3>2. prod' = [prod EXCEPT ![n] = w]
      BY <2>2 DEF Goods!RetireProducts
    <3> HIDE DEF w
    <3>3. QED
      BY <3>1, <3>2
  <2>3. QED
    BY <2>1, <2>2
<1>4. QED
  BY <1>1, <1>3, OneProductChanges

\* Prices change: the same products are on sale under the same names.
LEMMA GoodsRepriced == ASSUME GoodsInv, NEW i \in Items, Goods!Reprice(i) PROVE GoodsInv'
<1>1. UNCHANGED <<text, long, kv, checkout, excused>>
  BY DEF Goods!Reprice, Goods!tables
<1>2. ASSUME NEW n \in Goods!Ids
      PROVE  /\ prod'[n] \in {Goods!Absent} \union Wares
             /\ prod'[n] = Goods!Absent <=> prod[n] = Goods!Absent
             /\ prod[n] # Goods!Absent => /\ prod'[n].item = prod[n].item
                                          /\ prod'[n].active = prod[n].active
                                          /\ prod'[n].name = prod[n].name
  <2>1. prod[n] \in {Goods!Absent} \union Wares
    BY DEF GoodsInv, GoodsTypes
  <2>2. CASE n \in Goods!Made /\ prod[n].item = i
    <3> DEFINE w == [prod[n] EXCEPT !.dated = TRUE]
    <3>1. prod'[n] = w
      BY <2>2 DEF Goods!Reprice
    <3>2. prod[n] \in Wares
      BY <2>2, GoodsAre
    <3>3. w \in Wares /\ w.item = prod[n].item /\ w.active = prod[n].active /\ w.name = prod[n].name
      BY <3>2 DEF Wares
    <3> HIDE DEF w
    <3>4. QED
      BY <3>1, <3>2, <3>3, WaresAreThere
  <2>3. CASE ~(n \in Goods!Made /\ prod[n].item = i)
    <3>1. prod'[n] = prod[n]
      BY <2>3 DEF Goods!Reprice
    <3>2. QED
      BY <2>1, <3>1
  <2>4. QED
    BY <2>2, <2>3
<1>3. prod' \in [Goods!Ids -> {Goods!Absent} \union Wares]
  <2>1. prod' = [n \in Goods!Ids |-> prod'[n]]
    BY DEF Goods!Reprice
  <2>2. QED
    BY <1>2, <2>1
<1>4. \A j \in Items : Goods!Active(j)' = Goods!Active(j)
  BY <1>2 DEF Goods!Active, Goods!Made
<1>5. \A j \in Items : Goods!Found(j)' = Goods!Found(j)
  BY <1>1, <1>2, <1>4 DEF Goods!Found, Goods!Cut, Goods!Active, Goods!Made
<1>6. \A j \in Items \ excused' : kv[j] = 0 => Goods!Active(j)' \subseteq Goods!Found(j)'
  BY <1>1, <1>4, <1>5 DEF GoodsInv, ItemInv, Known
<1>7. text' \in [Items -> Int] /\ excused \subseteq excused'
  BY <1>1 DEF GoodsInv, GoodsTypes
<1>8. QED
  BY <1>1, <1>2, <1>3, <1>6, <1>7, GoodsChange

\* A name changes: an item whose product may not be found again is excused.
LEMMA GoodsRenamed == ASSUME GoodsInv, NEW i \in Items, Goods!Retext(i) PROVE GoodsInv'
<1>1. /\ UNCHANGED <<long, kv, prod, checkout>> /\ text' = [text EXCEPT ![i] = @ + 1]
      /\ excused' = IF Goods!Unfound(i) THEN excused \union {i} ELSE excused
  BY DEF Goods!Retext
<1>2. /\ text' \in [Items -> Int] /\ \A j \in Items \ {i} : text'[j] = text[j]
  BY <1>1 DEF GoodsInv, GoodsTypes
<1>3. prod' \in [Goods!Ids -> {Goods!Absent} \union Wares]
  BY <1>1 DEF GoodsInv, GoodsTypes
<1>4. \A j \in Items : Goods!Active(j)' = Goods!Active(j)
  BY <1>1 DEF Goods!Active, Goods!Made
<1>5. ASSUME NEW j \in Items \ excused', kv[j] = 0 PROVE Goods!Active(j)' \subseteq Goods!Found(j)'
  <2>1. j \notin excused /\ Goods!Active(j) \subseteq Goods!Found(j)
    BY <1>1, <1>5 DEF GoodsInv, ItemInv, Known
  <2>2. CASE j = i
    <3>1. Goods!Active(j) = {}
      BY <1>1, <1>5, <2>2 DEF Goods!Unfound
    <3>2. QED
      BY <1>4, <3>1
  <2>3. CASE j # i
    <3>1. Goods!Found(j)' = Goods!Found(j)
      BY <1>1, <1>2, <1>4, <2>3 DEF Goods!Found, Goods!Cut
    <3>2. QED
      BY <1>4, <2>1, <3>1
  <2>4. QED
    BY <2>2, <2>3
<1>6. excused \subseteq excused'
  BY <1>1
<1>7. QED
  BY <1>1, <1>2, <1>3, <1>5, <1>6, GoodsChange

\* The cache is lost: whoever looks the product up finds it again.
LEMMA GoodsForgotten == ASSUME GoodsInv, NEW i \in Items, Goods!LoseCache(i) PROVE GoodsInv'
<1>1. /\ kv[i] # 0 /\ kv' = [kv EXCEPT ![i] = 0] /\ UNCHANGED <<text, long, prod, checkout>>
      /\ excused' = IF kv[i] \in Goods!Found(i) THEN excused ELSE excused \union {i}
  BY DEF Goods!LoseCache, Goods!tables
<1>2. kv' \in [Items -> Int] /\ kv'[i] = 0 /\ \A j \in Items \ {i} : kv'[j] = kv[j]
  BY <1>1 DEF GoodsInv, GoodsTypes
<1>3. /\ Goods!Made' = Goods!Made
      /\ \A j \in Items : Goods!Active(j)' = Goods!Active(j) /\ Goods!Found(j)' = Goods!Found(j)
  BY <1>1, SameGoods
<1>4. GoodsTypes'
  BY <1>1, <1>2, <1>3 DEF GoodsInv, GoodsTypes, Goods!At
<1>5. \A d \in Checkouts, j \in Items : Buys(d, j)' = Buys(d, j)
  BY <1>1 DEF Buys
<1>6. ASSUME NEW j \in Items \ excused' PROVE ItemInv(j)'
  <2>1. j \notin excused /\ Sole(j) /\ Known(j) /\ Alone(j)
    BY <1>1 DEF GoodsInv, ItemInv
  <2>2. Sole(j)'
    BY <1>3, <2>1 DEF Sole
  <2>3. Known(j)'
    BY <1>1, <1>2, <1>3, <2>1 DEF Known
  <2>4. Alone(j)'
    BY <1>1, <1>2, <1>3, <1>5, <2>1 DEF Alone
  <2>5. QED
    BY <2>2, <2>3, <2>4 DEF ItemInv
<1>7. QED
  BY <1>4, <1>6 DEF GoodsInv

LEMMA GoodsStep == GoodsInv /\ [Goods!Next]_(Goods!catalogVars) => GoodsInv'
<1>1. SUFFICES ASSUME GoodsInv, [Goods!Next]_(Goods!catalogVars) PROVE GoodsInv'
  OBVIOUS
<1>2. ASSUME NEW c \in Checkouts, NEW ok \in BOOLEAN, Goods!Session(c, ok) PROVE GoodsInv'
  <2>1. Goods!Fail(c) /\ UNCHANGED <<text, long, prod, kv, excused>>
    BY <1>2 DEF Goods!Session, Goods!tables
  <2>2. QED
    BY <1>1, <2>1, GoodsLeft
<1>3. ASSUME UNCHANGED <<text, long, kv, prod, checkout, excused>> PROVE GoodsInv'
  <2>1. /\ Goods!Made' = Goods!Made
        /\ \A j \in Items : Goods!Active(j)' = Goods!Active(j) /\ Goods!Found(j)' = Goods!Found(j)
    BY <1>1, <1>3, SameGoods
  <2>2. GoodsTypes'
    BY <1>1, <1>3, <2>1 DEF GoodsInv, GoodsTypes, Goods!At
  <2>3. \A j \in Items \ excused : ItemInv(j)'
    BY <1>1, <1>3, <2>1 DEF GoodsInv, ItemInv, Sole, Known, Alone, Buys
  <2>4. QED
    BY <1>3, <2>2, <2>3 DEF GoodsInv
<1>4. ASSUME NEW n \in Goods!Ids, Goods!Refund(n) PROVE GoodsInv'
  <2>1. UNCHANGED <<text, long, kv, prod, checkout, excused>>
    BY <1>4 DEF Goods!Refund, Goods!tables
  <2>2. QED
    BY <1>3, <2>1
<1>5. CASE UNCHANGED Goods!catalogVars
  BY <1>3, <1>5 DEF Goods!catalogVars
<1>6. QED
  BY <1>1, <1>2, <1>4, <1>5, GoodsBegins, GoodsLookedFor, GoodsCreated, GoodsPublished, GoodsTended,
     GoodsWithdrawn, GoodsRepriced, GoodsRenamed, GoodsForgotten DEF Goods!Next

\* However often a checkout fails half way and is tried again, whatever is lost
\* on the way and whatever the operator's scripts change, an item has one
\* product on sale (waffo_provider.py, ensure_product_id).
THEOREM OneProductOnSale == Goods!Spec => []Goods!OneProductEach
<1>1. GoodsInv => Goods!OneProductEach
  <2>1. SUFFICES ASSUME GoodsInv, NEW i \in Items \ excused PROVE Goods!Cardinality(Goods!Active(i)) <= 1
    BY DEF Goods!OneProductEach
  <2>2. Sole(i)
    BY <2>1 DEF GoodsInv, ItemInv
  <2>3. CASE Goods!Active(i) = {}
    <3>1. Cardinality({}) = 0
      BY FS_EmptySet
    <3>2. QED
      BY <2>3, <3>1, SameGoodsCount
  <2>4. CASE Goods!Active(i) # {}
    <3>1. PICK n \in Goods!Active(i) : Goods!Active(i) = {n}
      BY <2>2, <2>4 DEF Sole
    <3>2. Cardinality({n}) = 1
      BY FS_Singleton
    <3>3. QED
      BY <3>1, <3>2, SameGoodsCount
  <2>5. QED
    BY <2>3, <2>4
<1>2. QED
  BY <1>1, GoodsBegin, GoodsStep, PTL DEF Goods!Spec
=============================================================================
