------------------------------ MODULE MCOrders ------------------------------
(* Small shops for TLC: which orders there are, what they buy and through   *)
(* which provider.                                                          *)
EXTENDS Orders, TLC

CONSTANTS o1, o2

\* Two plan orders of one buyer share a subscription row; the providers are
\* the ones whose answer does, and does not, notice a refund.
MCPlansKind     == o1 :> "plan" @@ o2 :> "plan"
MCRaceKind      == o1 :> "plan" @@ o2 :> "pass"
MCRaceProvider  == o1 :> "stripe" @@ o2 :> "waffo"
MCSettleProvider == o1 :> "alipay" @@ o2 :> "wechat"
MCWaffoProvider == o1 :> "waffo" @@ o2 :> "waffo"
MCSeatsKind     == o1 :> "seats" @@ o2 :> "pack"
=============================================================================
