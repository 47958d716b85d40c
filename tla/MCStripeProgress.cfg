\* One intent, asked for by two members, and payments at the desk; deliveries that may
\* fail again and again.
SPECIFICATION StripeFairSpec
CONSTANTS
  Clients = {c1}
  Actors = {owner, accountant}
  owner = owner
  Role <- MCRole
  Keys = {k1}
  Obligations = {o1}
  LeaseOf <- MCLeaseOf
  TenantOf <- MCTenantOf
  RentAmount = 1
  Rent <- MCRent
  PaymentIds = {p1, p2}
  RefundIds = {f1}
  Requests <- DeskRequests
  NoValue = NoValue
  Intents = {i1}
  IntentRequests <- OnlineRequests
  Events = {e1, e2}
  Subscribed <- PaymentEvents
  Handlers = {h1}
  RepeatEvents = FALSE
INVARIANTS
  LedgerAgreesWithCredit
  IntentsAreStoredOnce
PROPERTIES
  CollectedIsPosted
