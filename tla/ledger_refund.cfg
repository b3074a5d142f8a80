\* A spend of one member and the refund of the order that bought a bucket.
CONSTANTS
  u1 = u1
  u2 = u2
  org = org
  Nobody = Nobody
  Users = {u1, u2}
  Orgs = {org}
  Buckets = {1, 2, 3}
  Owner <- MCOwner
  Amount <- MCAmount
  Requests = {"a"}
  Price <- MCPrice
  s1 = s1
  s2 = s2
  Spenders = {s1, s2}
  ShortLived = {1}
SPECIFICATION Spec
INVARIANT RefundNeverNegative
SYMMETRY Transactions
