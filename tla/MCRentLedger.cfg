\* Payments of one or two obligations, payments and refunds of one, and reviews: two
\* requests at a time, by members of three roles.
SPECIFICATION MCSpec
CONSTANTS
  Clients = {c1, c2}
  Actors = {owner, accountant, manager}
  owner = owner
  accountant = accountant
  manager = manager
  Role <- MCRole
  Keys = {k0, k1, k2}
  k0 = k0
  k1 = k1
  k2 = k2
  Obligations = {o1, o2, o3}
  o1 = o1
  o2 = o2
  o3 = o3
  LeaseOf <- MCLeaseOf
  TenantOf <- MCTenantOf
  Rent <- MCRent
  PaymentIds = {p1, p2}
  RefundIds = {f1, f2}
  Requests <- MCRequests
  NoValue = NoValue
SYMMETRY Symmetry
INVARIANTS
  TypeOK
  NoOverAllocation
  EffectsAreKeyed
  AnswersAreTrue
  SafetyInv
  LedgerAgrees
PROPERTIES
  ChangesMoveVersion
  StatusesAreCurrent
  ImplementsAccount
  ResolutionIsFinal
