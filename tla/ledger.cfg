\* Two spends of the two members of one organisation.
CONSTANTS
  u1 = u1
  u2 = u2
  org = org
  Nobody = Nobody
  Users = {u1, u2}
  Orgs = {org}
  Buckets = {1, 2, 3}
  Owner <- MCOwner
  Amount <- MCAmount
  Requests = {"a"}
  Price <- MCPrice
  s1 = s1
  s2 = s2
  Spenders = {s1, s2}
  ShortLived = {1}
SPECIFICATION Spec
INVARIANTS TypeOK ChargedOnce Conserved NeverDrainedTwice NoDeadlock
PROPERTY SpendsInOrder
SYMMETRY Transactions
