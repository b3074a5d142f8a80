\* One webhook process that may die between two transactions.
CONSTANTS
  o1 = o1
  o2 = o2
  Orders = {o1, o2}
  Workers = {1}
  Kind <- MCSeatsKind
  Provider <- MCSettleProvider
  Crashes = TRUE
SPECIFICATION Spec
INVARIANT AckedPaymentsDelivered
