\* Two event objects for one success; two deliveries at a time.
SPECIFICATION StripeSpec
CONSTANTS
  Clients = {c1}
  Actors = {owner}
  owner = owner
  Role <- MCRole
  Keys = {k1}
  Obligations = {o1}
  LeaseOf <- MCLeaseOf
  TenantOf <- MCTenantOf
  RentAmount = 2
  Rent <- MCRent
  PaymentIds = {p1, p2, p3}
  RefundIds = {f1}
  Requests <- DeskRequests
  NoValue = NoValue
  Intents = {i1}
  IntentRequests <- OnlineRequests
  Events = {e1, e2}
  Subscribed <- EveryEvent
  Handlers = {h1, h2}
  RepeatEvents = TRUE
SYMMETRY Symmetry
INVARIANTS
  OneEffectPerIntent
