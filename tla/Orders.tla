------------------------------- MODULE Orders -------------------------------
(***************************************************************************)
(* Payment orders: payments/base.py, payments/api.py and what the four     *)
(* provider modules let through.  An order row is created by checkout, the *)
(* buyer pays (or is refunded) at the provider, the provider announces it  *)
(* with notices that it repeats until they are acknowledged, and a webhook *)
(* worker turns a notice into a status transition followed by the          *)
(* transactions that hand the goods over or take them back.                *)
(*                                                                         *)
(* Every database transaction is one step.  Between two of them the worker *)
(* may die (an exception, a restart): the database keeps what was          *)
(* committed, the notice was not acknowledged and comes back.              *)
(***************************************************************************)
EXTENDS Integers, Sequences

CONSTANTS
    Orders,     \* order ids; all of one buyer
    Workers,    \* processes answering webhooks (the deployment runs one)
    Kind,       \* what each order buys
    Provider,   \* the provider each order is paid through
    Crashes     \* may a worker die between two transactions?

Kinds     == {"plan", "pass", "pack", "seats"}
Providers == {"stripe", "alipay", "wechat", "waffo"}
Pieces    == {"org", "seats", "credits", "minutes", "caps", "pass", "subscription"}
Notices   == [event : {"early", "paid", "refund"}, order : Orders]

ASSUME KindAssumption     == Kind \in [Orders -> Kinds]
ASSUME ProviderAssumption == Provider \in [Orders -> Providers]
ASSUME CrashesAssumption  == Crashes \in BOOLEAN

VARIABLES
    status,     \* orders.status, "none" before the row exists
    trade,      \* the provider's own record of the money
    outbox,     \* notices the provider still repeats
    handler,    \* what each webhook worker is doing
    given,      \* how often fulfil has handed out a piece of an order
    taken,      \* how often revoke has taken it back
    unanswered  \* history: orders whose question was answered with no trade

vars == <<status, trade, outbox, handler, given, taken, unanswered>>

Idle == [step |-> "idle"]
Busy == [step : {"mark", "work", "ack"}, notice : Notices, next : 1..6]

TypeOK ==
    /\ status  \in [Orders -> {"none", "pending", "expired", "paid", "refunded"}]
    /\ trade   \in [Orders -> {"unpaid", "paid", "refunded"}]
    /\ outbox  \subseteq Notices
    /\ handler \in [Workers -> {Idle} \union Busy]
    /\ given   \in [Orders -> [Pieces -> Nat]]
    /\ taken   \in [Orders -> [Pieces -> Nat]]
    /\ unanswered \subseteq Orders

Init ==
    /\ status  = [o \in Orders |-> "none"]
    /\ trade   = [o \in Orders |-> "unpaid"]
    /\ outbox  = {}
    /\ handler = [w \in Workers |-> Idle]
    /\ given   = [o \in Orders |-> [p \in Pieces |-> 0]]
    /\ taken   = [o \in Orders |-> [p \in Pieces |-> 0]]
    /\ unanswered = {}

(***************************************************************************)
(* What one order hands out and takes back, one transaction per element.   *)
(* "org" is find-or-create, so a buyer who has one loses nothing by it.    *)
(***************************************************************************)
Fulfilment(kind) ==
    CASE kind = "plan"  -> <<"subscription", "credits">>
      [] kind = "pass"  -> <<"pass">>
      [] kind = "pack"  -> <<"credits">>
      [] kind = "seats" -> <<"org", "seats", "credits", "minutes", "caps">>

\* Mutant of Revocation: the refund forgets the subscription.
RevokesVouchersOnly(kind) == <<"credits", "minutes">>

Revocation(kind) ==
    CASE kind = "plan"  -> <<"credits", "minutes", "subscription">>
      [] kind = "pass"  -> <<"credits", "minutes", "pass">>
      [] kind = "pack"  -> <<"credits", "minutes">>
      [] kind = "seats" -> <<"credits", "minutes">>

\* Mutant of Plan: the fulfilment stops after its first transaction.
FirstPieceOnly(n) ==
    IF n.event # "refund" THEN <<Fulfilment(Kind[n.order])[1]>> ELSE Revocation(Kind[n.order])

Plan(n) == IF n.event # "refund" THEN Fulfilment(Kind[n.order]) ELSE Revocation(Kind[n.order])
Size(n) == Len(Plan(n))

Held(o, p) == given[o][p] > taken[o][p]

-----------------------------------------------------------------------------
(* The console: checkout, and the sweep that every listing of orders runs. *)

CreateOrder(o) ==
    /\ status[o] = "none"
    /\ status' = [status EXCEPT ![o] = "pending"]
    /\ UNCHANGED <<trade, outbox, handler, given, taken, unanswered>>

\* Mutant of Unpaid: the sweep looks at the age alone.
AnyStatus == {o \in Orders : status[o] # "none"}

Unpaid == {o \in Orders : status[o] = "pending"}

\* Which of the unpaid orders are old enough is left to the clock.
ExpireStalePending ==
    \E stale \in SUBSET Unpaid :
        /\ stale # {}
        /\ status' = [o \in Orders |-> IF o \in stale THEN "expired" ELSE status[o]]
        /\ UNCHANGED <<trade, outbox, handler, given, taken, unanswered>>

-----------------------------------------------------------------------------
(* The provider: it is not in this repository.  It takes the money once,   *)
(* returns it at most once, and announces both at least once.              *)

Send(n) == outbox' = outbox \union {n}

Pay(o) ==
    /\ status[o] \in {"pending", "expired"}
    /\ trade[o] = "unpaid"
    /\ trade' = [trade EXCEPT ![o] = "paid"]
    /\ Send([event |-> "paid", order |-> o])
    /\ UNCHANGED <<status, handler, given, taken, unanswered>>

Refund(o) ==
    /\ trade[o] = "paid"
    /\ trade' = [trade EXCEPT ![o] = "refunded"]
    /\ Send([event |-> "refund", order |-> o])
    /\ UNCHANGED <<status, handler, given, taken, unanswered>>

\* A checkout that is over while its money is still on the way is announced
\* in the same words, except by waffo, whose only sale event follows the
\* payment.  The code cannot tell the two apart but by asking again.
AnnounceEarly(o) ==
    /\ status[o] \in {"pending", "expired"}
    /\ trade[o] = "unpaid"
    /\ Provider[o] # "waffo"
    /\ Send([event |-> "early", order |-> o])
    /\ UNCHANGED <<status, trade, handler, given, taken, unanswered>>

Resend(o) ==
    /\ \/ trade[o] # "unpaid" /\ Send([event |-> "paid", order |-> o])
       \/ trade[o] = "refunded" /\ Send([event |-> "refund", order |-> o])
    /\ UNCHANGED <<status, trade, handler, given, taken, unanswered>>

-----------------------------------------------------------------------------
(* The webhook worker.                                                     *)

\* Mutant of Confirmed: the notice is believed.
Believed(n) == TRUE

\* What the provider modules let through once the signature is checked.  Three
\* of them ask the provider about a payment.  A Stripe session stays "paid"
\* after a refund, and a Stripe refund names no order: it is found by the
\* provider_ref that mark_paid wrote.
StripeConfirms(n) ==
    IF n.event = "refund" THEN status[n.order] \in {"paid", "refunded"}
                          ELSE trade[n.order] # "unpaid"

AlipayConfirms(n) == n.event = "refund" \/ trade[n.order] = "paid"
WechatConfirms(n) == n.event = "refund" \/ trade[n.order] = "paid"
WaffoConfirms(n)  == TRUE

Confirmed(n) ==
    CASE Provider[n.order] = "stripe" -> StripeConfirms(n)
      [] Provider[n.order] = "alipay" -> AlipayConfirms(n)
      [] Provider[n.order] = "wechat" -> WechatConfirms(n)
      [] Provider[n.order] = "waffo"  -> WaffoConfirms(n)

\* What a worker may be told of n.  Alipay's gateway answers a query it could
\* not carry out with HTTP 200 and a code that is not 10000: nothing is
\* confirmed, and the notice is acknowledged.  A Stripe refund whose row is not
\* found may name the order in the metadata of the charge.
Verdicts(n) ==
    {Confirmed(n)}
        \union (IF Provider[n.order] = "alipay" /\ n.event # "refund" THEN {FALSE} ELSE {})
        \union (IF Provider[n.order] = "stripe" /\ n.event = "refund" THEN {TRUE} ELSE {})

Deliver(w, n) ==
    /\ handler[w] = Idle
    /\ n \in outbox
    /\ \E verdict \in Verdicts(n) :
        /\ handler' = [handler EXCEPT ![w] =
                         [step |-> IF verdict THEN "mark" ELSE "ack", notice |-> n, next |-> 1]]
        /\ unanswered' = IF n.event = "paid" /\ Confirmed(n) /\ ~verdict
                          THEN unanswered \union {n.order} ELSE unanswered
    /\ UNCHANGED <<status, trade, outbox, given, taken>>

\* Mutants of From: mark_paid without its condition, mark_paid that forgets that
\* a swept order may still be paid, mark_refunded of an order that never was.
FromAny(n) == {"pending", "expired", "paid", "refunded"}

FromFresh(n) == IF n.event = "refund" THEN {"paid"} ELSE {"pending"}

FromUnsold(n) == {"pending", "expired"} \union (IF n.event = "refund" THEN {"paid"} ELSE {})

From(n) == IF n.event = "refund" THEN {"paid"} ELSE {"pending", "expired"}

\* mark_paid and mark_refunded: one conditional UPDATE; the worker goes on to
\* fulfil or revoke only when it changed the row.
Mark(w) ==
    /\ handler[w].step = "mark"
    /\ LET n    == handler[w].notice
           won  == status[n.order] \in From(n)
       IN  /\ status' = IF won
                        THEN [status EXCEPT ![n.order] =
                                IF n.event = "refund" THEN "refunded" ELSE "paid"]
                        ELSE status
           /\ handler' = [handler EXCEPT ![w].step = IF won THEN "work" ELSE "ack"]
    /\ UNCHANGED <<trade, outbox, given, taken, unanswered>>

\* The piece a worker has just dealt with was the last one of its plan, or not.
Advance(w) ==
    handler' = [handler EXCEPT
                  ![w].step = IF handler[w].next = Size(handler[w].notice)
                              THEN "ack" ELSE "work",
                  ![w].next = @ + 1]

Working(w, refund) ==
    handler[w].step = "work" /\ (handler[w].notice.event = "refund") = refund

Fulfil(w) ==
    /\ Working(w, FALSE)
    /\ LET o == handler[w].notice.order
           p == Plan(handler[w].notice)[handler[w].next]
       IN  given' = [given EXCEPT ![o][p] = @ + 1]
    /\ Advance(w)
    /\ UNCHANGED <<status, trade, outbox, taken, unanswered>>

\* Vouchers and passes carry the order id and are wiped by it.  A subscription
\* is one row per buyer: its expiry moves back by this order's days, whichever
\* order had moved it forward.
Revoke(w) ==
    /\ Working(w, TRUE)
    /\ LET o == handler[w].notice.order
           p == Plan(handler[w].notice)[handler[w].next]
           subscribed == \E x \in Orders : given[x]["subscription"] > 0
       IN  taken' = [taken EXCEPT ![o][p] =
                       IF p = "subscription" THEN @ + (IF subscribed THEN 1 ELSE 0)
                                             ELSE given[o][p]]
    /\ Advance(w)
    /\ UNCHANGED <<status, trade, outbox, given, unanswered>>

\* Mutant of Ack: the worker keeps the notice it has dealt with.
AckWithoutForgetting(w) ==
    /\ handler[w].step = "ack"
    /\ outbox' = outbox \ {handler[w].notice}
    /\ handler' = [handler EXCEPT ![w].step = "idle"]
    /\ UNCHANGED <<status, trade, given, taken, unanswered>>

Ack(w) ==
    /\ handler[w].step = "ack"
    /\ outbox' = outbox \ {handler[w].notice}
    /\ handler' = [handler EXCEPT ![w] = Idle]
    /\ UNCHANGED <<status, trade, given, taken, unanswered>>

\* An exception or a restart: nothing is acknowledged, nothing is undone.
Crash(w) ==
    /\ Crashes
    /\ handler[w] # Idle
    /\ handler' = [handler EXCEPT ![w] = Idle]
    /\ UNCHANGED <<status, trade, outbox, given, taken, unanswered>>

Handle(w) == Mark(w) \/ Fulfil(w) \/ Revoke(w) \/ Ack(w)

Next ==
    \/ \E o \in Orders : CreateOrder(o) \/ Pay(o) \/ Refund(o) \/ AnnounceEarly(o) \/ Resend(o)
    \/ ExpireStalePending
    \/ \E w \in Workers, n \in Notices : Deliver(w, n)
    \/ \E w \in Workers : Handle(w) \/ Crash(w)

Spec == Init /\ [][Next]_vars

\* A provider repeats a notice until it is acknowledged, and a worker that has
\* taken one carries it through.
Fairness ==
    /\ \A w \in Workers : WF_vars(Handle(w))
    /\ \A n \in Notices : SF_vars(\E w \in Workers : Deliver(w, n))

FairSpec == Spec /\ Fairness

-----------------------------------------------------------------------------
(* Correctness.                                                            *)

\* Whatever is repeated, raced by a second worker or cut short by a crash, no
\* piece of an order is handed out twice (mark_paid's single transition).
AtMostOnce == \A o \in Orders : \A p \in Pieces : given[o][p] <= 1

\* Nothing is handed out for an order whose money the provider never had: an
\* early announcement does not get past the second question to the provider.
OnlyPaidIsDelivered ==
    \A o \in Orders : trade[o] = "unpaid" => \A p \in Pieces : given[o][p] = 0

\* Statuses only move forward, an order leaves "paid" for "refunded" alone, and
\* it becomes "refunded" only from "paid".
Rank(s) == CASE s = "none" -> 0 [] s = "pending" -> 1 [] s = "expired" -> 2
             [] s = "paid" -> 3 [] s = "refunded" -> 4

StatusStep ==
    \A o \in Orders : status'[o] # status[o] =>
        /\ Rank(status'[o]) > Rank(status[o])
        /\ status'[o] = "refunded" => status[o] = "paid"

StatusNeverRegresses == [][StatusStep]_vars

\* revoke never takes back what fulfil has not handed out: with a second plan
\* order of the same buyer in play, a refund costs only its own days.
NeverOvertaken == \A o \in Orders : \A p \in Pieces : taken[o][p] <= given[o][p]

\* Everything the fulfilment of an order has to hand out has been handed out.
Complete(o) == \A i \in DOMAIN Fulfilment(Kind[o]) : given[o][Fulfilment(Kind[o])[i]] > 0

\* Fulfilment runs exactly once: an order marked paid, whose announcement has
\* been acknowledged and on which nobody is working, has been handed over.
AckedPaymentsDelivered ==
    \A o \in Orders :
        status[o] = "paid" /\ [event |-> "paid", order |-> o] \notin outbox
            /\ (\A w \in Workers : handler[w] = Idle)
        => Complete(o)

\* Money that stays with the provider ends with the goods handed over, however
\* often the order was swept as expired before.  One thing loses a payment: the
\* gateway of alipay answering the question about its notice with an error in an
\* HTTP 200, which process_notify takes for "not paid" and acknowledges.
EveryPaymentDelivered ==
    \A o \in Orders :
        trade[o] = "paid" ~> (Complete(o) \/ trade[o] = "refunded" \/ o \in unanswered)

\* Money that went back ends with nothing revocable left in the buyer's hands,
\* in whatever order the two notices arrive.
Revocable == {"credits", "minutes", "pass", "subscription"}

EveryRefundTakenBack ==
    \A o \in Orders : trade[o] = "refunded" ~> [](\A p \in Revocable : ~Held(o, p))

-----------------------------------------------------------------------------
(* What the buyer is promised (Sale), read off the order row, the goods and *)
(* the provider's books.                                                    *)

SaleBar(o) ==
    CASE status[o] = "paid" /\ Complete(o)  -> "delivered"
      [] status[o] = "paid" /\ ~Complete(o) -> "sold"
      [] status[o] = "refunded" -> IF \E p \in Revocable : Held(o, p) THEN "reversing" ELSE "reversed"
      [] OTHER -> "open"

Promise == INSTANCE Sale WITH money <- trade, sale <- [o \in Orders |-> SaleBar(o)]

\* The order machine of one webhook worker implements that promise.
KeepsThePromise == Promise!Spec
=============================================================================
