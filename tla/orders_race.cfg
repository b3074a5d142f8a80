\* Two webhook processes that may die at any moment.
CONSTANTS
  o1 = o1
  o2 = o2
  Orders = {o1, o2}
  Workers = {1, 2}
  Kind <- MCRaceKind
  Provider <- MCRaceProvider
  Crashes = TRUE
SPECIFICATION Spec
INVARIANTS TypeOK AtMostOnce OnlyPaidIsDelivered
PROPERTY StatusNeverRegresses
