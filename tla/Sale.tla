-------------------------------- MODULE Sale --------------------------------
(***************************************************************************)
(* What the shop promises for an order (the header of payments/base.py),   *)
(* with no notices, workers or transactions: an order is sold at most once *)
(* and only for money, is handed over at most once, and a sale is undone   *)
(* only when its money has gone back.  Goods that were taken back stay so. *)
(***************************************************************************)
CONSTANT Orders

VARIABLES
    money,      \* the buyer's money: "unpaid", "paid" or "refunded"
    sale        \* how far the order is

vars == <<money, sale>>

Init ==
    /\ money = [o \in Orders |-> "unpaid"]
    /\ sale  = [o \in Orders |-> "open"]

Collect(o) ==
    /\ money[o] = "unpaid"
    /\ money' = [money EXCEPT ![o] = "paid"]
    /\ UNCHANGED sale

ReturnMoney(o) ==
    /\ money[o] = "paid"
    /\ money' = [money EXCEPT ![o] = "refunded"]
    /\ UNCHANGED sale

Turn(o, from, to) ==
    /\ sale[o] \in from
    /\ sale' = [sale EXCEPT ![o] = to]
    /\ UNCHANGED money

Sell(o) == money[o] # "unpaid" /\ Turn(o, {"open"}, "sold")

HandOver(o) == Turn(o, {"sold"}, "delivered")

Reverse(o) == money[o] = "refunded" /\ \/ Turn(o, {"sold", "delivered"}, "reversing")
                                       \/ Turn(o, {"sold", "reversing"}, "reversed")

Next == \E o \in Orders :
          Collect(o) \/ ReturnMoney(o) \/ Sell(o) \/ HandOver(o) \/ Reverse(o)

Spec == Init /\ [][Next]_vars
=============================================================================
