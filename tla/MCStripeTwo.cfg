\* Two intents racing for one obligation, rent 1, two deliveries at a time.
SPECIFICATION StripeSpec
CONSTANTS
  Clients = {c1}
  Actors = {owner}
  owner = owner
  Role <- MCRole
  Keys = {k1, k2}
  Obligations = {o1}
  LeaseOf <- MCLeaseOf
  TenantOf <- MCTenantOf
  RentAmount = 1
  Rent <- MCRent
  PaymentIds = {p1, p2}
  RefundIds = {f1}
  Requests <- ChargeRequests
  NoValue = NoValue
  Intents = {i1, i2}
  IntentRequests <- OnlineRequests
  Events = {e1, e2}
  Subscribed <- EveryEvent
  Handlers = {h1, h2}
  RepeatEvents = FALSE
SYMMETRY Symmetry
INVARIANTS
  StripeTypeOK
  PostedAsCollected
  OneEffectPerIntent
  LedgerAgreesWithCredit
PROPERTIES
  PaidIntentIsFinal
