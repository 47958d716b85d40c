\* Leases of one unit raced by two members, a charge, and an invitation whose mail
\* may be lost; maintenance requests handled by two members at the same time.
SPECIFICATION MCSpec
CONSTANTS
  Tenants = {t1}
  Units = {u1}
  Leases = {l1, l2}
  Actors = {owner, manager, accountant, janitor}
  owner = owner
  manager = manager
  accountant = accountant
  janitor = janitor
  k1 = k1
  Keys = {k1}
  Handlers = {h1, h2}
  NoValue = NoValue
  Role <- MCRole
  LeasingRequests <- MCLeasingRequests
  Tickets = {m1}
  Desks = {d1, d2}
  TicketRequests <- MCTicketRequests
  MaxVersion = 7
SYMMETRY Symmetry
CHECK_DEADLOCK FALSE
INVARIANTS
  LeaseTypeOK
  OccupiedMeansLeased
  StepsRecordedOnce
  LeasedToWillingTenants
  MaintenanceTypeOK
  StagesWereEarned
  VersionCountsTransitions
PROPERTIES
  ImplementsOccupancy
