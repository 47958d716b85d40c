\* Registrations and verifications of one address at the same time, with the guard as
\* shipped.
SPECIFICATION MCSpec
CONSTANTS
  Users = {u1, u2}
  u1 = u1
  u2 = u2
  Registrations = {r1, r2}
  Sessions = {s1, s2, s3}
  Orgs = {o1, o2}
  Slugs = {w1, w2}
  w1 = w1
  Invites = {i1, i2}
  Enrollments = {e1, e2}
  AttemptLimit = 2
  Codes = {A1, a1, B1}
  A1 = A1
  a1 = a1
  B1 = B1
  Fold <- MCFold
  Names = {n1}
  n1 = n1
  Keys = {k1, k2}
  k1 = k1
  k2 = k2
  Handlers = {h1, h2}
  NoValue = NoValue
  AdmittedStatuses = {"ACTIVE"}
  Requests <- MCRequests
CHECK_DEADLOCK FALSE
PROPERTY
  VerifiedKeepsPassword
