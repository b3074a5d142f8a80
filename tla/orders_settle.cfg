\* The deployment: one webhook process, here without crashes.
CONSTANTS
  o1 = o1
  o2 = o2
  Orders = {o1, o2}
  Workers = {1}
  Kind <- MCPlansKind
  Provider <- MCSettleProvider
  Crashes = FALSE
SPECIFICATION FairSpec
INVARIANTS NeverOvertaken AckedPaymentsDelivered
PROPERTIES EveryPaymentDelivered EveryRefundTakenBack KeepsThePromise
