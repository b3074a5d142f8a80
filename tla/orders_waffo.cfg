\* One webhook process, no crash, and a provider that is not asked again.
CONSTANTS
  o1 = o1
  o2 = o2
  Orders = {o1, o2}
  Workers = {1}
  Kind <- MCPlansKind
  Provider <- MCWaffoProvider
  Crashes = FALSE
SPECIFICATION FairSpec
PROPERTY EveryRefundTakenBack
