----------------------------- MODULE StripeRent -----------------------------
(***************************************************************************)
(* Online rent payment, composed with RentLedger: the API prepares and     *)
(* persists payment intents, the provider collects the money and delivers  *)
(* signed events at least once and in any order, and each delivery posts   *)
(* to the same obligations, payments and ledger as the rent requests.      *)
(* The provider's own state is external: only what the code relies on.     *)
(***************************************************************************)
EXTENDS RentLedger

CONSTANTS
  Intents,         \* payment intents of the provider
  IntentRequests,  \* the requests for a payment intent clients send
  Events,          \* event objects of the provider
  Subscribed,      \* the types of event the endpoint is registered for
  Handlers,        \* deliveries the API may be processing at the same time
  RepeatEvents     \* may the provider issue two event objects for one fact?

IntentRequest == [actor : Actors, key : Keys, amounts : Amounts]

ASSUME StripeAssumption ==
  /\ IntentRequests \subseteq IntentRequest
  /\ \A q \in IntentRequests : Included(q.amounts) # {}
  /\ RepeatEvents \in BOOLEAN /\ "payment_intent.succeeded" \in Subscribed
  /\ NoValue \notin Intents \cup Events \cup Handlers

VARIABLES
  provider,      \* [key, amount, state] of each intent at the provider
  event,         \* the events issued: [type, intent]
  intent,        \* stripe_payment_intents: [status, amounts, payment]
  intentKey,     \* idempotency_records of intent creation
  webhookEvent,  \* stripe_webhook_events: status of each event received
  reference,     \* externalReference of a payment: its intent
  credit,        \* balance of TENANT_CREDIT, debits minus credits
  checkout,      \* intent creations in service
  hook           \* deliveries in service

stripeBooks == <<intent, intentKey, webhookEvent, reference, credit>>
stripeVars == <<provider, event, stripeBooks, checkout, hook>>
allVars == <<vars, stripeVars>>

NoIntent == [status |-> "NONE", amounts |-> Unseen.total, payment |-> NoValue]
NoProvider == [key |-> NoValue, amount |-> 0, state |-> "none"]
NoCheckout == [stage |-> "idle", req |-> NoValue, rows |-> {}, intent |-> NoValue]
NoHook == [stage |-> "idle", event |-> NoValue, rows |-> {}, seen |-> Unseen]

-----------------------------------------------------------------------------
(* Creating an intent: prepare, ask the provider, persist. *)

(* The paid and not refunded amount of o, seen by a request that read the    *)
(* allocations of the payments in rows and reads their refunds now.          *)
NetOf(rows, o) ==
  UnitSum([p \in rows |-> allocation[p][o]])
    - UnitSum([r \in {f \in RefundIds : refundOf[f] \in rows} |-> refundAllocation[r][o]])

(* The membership, the obligations and their leases are read first.  A request *)
(* that does not pass is answered at once and leaves no trace.                 *)
Prepare(c, q) ==
  /\ checkout[c].stage = "idle"
  /\ Role[q.actor] \in {"OWNER", "PROPERTY_MANAGER", "ACCOUNTANT"}
  /\ \A o \in Included(q.amounts) : status[o] \in Payable
  /\ \A o1, o2 \in Included(q.amounts) : TenantOf[o1] = TenantOf[o2]
  /\ checkout' = [checkout EXCEPT ![c].stage = "allocations", ![c].req = q]
  /\ UNCHANGED <<vars, provider, event, stripeBooks, hook>>

(* A relation is a statement of its own, outside of any transaction: first the *)
(* allocations of the obligations, then the refunds of those allocations.      *)
PrepareAllocations(c) ==
  /\ checkout[c].stage = "allocations"
  /\ checkout' = [checkout EXCEPT ![c].stage = "refunds",
                                  ![c].rows = {p \in PaymentIds : payment[p] > 0}]
  /\ UNCHANGED <<vars, provider, event, stripeBooks, hook>>

PrepareRefunds(c) ==
  LET amounts == checkout[c].req.amounts
      fits == \A o \in Included(amounts) : NetOf(checkout[c].rows, o) + amounts[o] <= Rent[o]
  IN /\ checkout[c].stage = "refunds"
     /\ checkout' = IF fits
                    THEN [checkout EXCEPT ![c].stage = "call", ![c].rows = {}]
                    ELSE [checkout EXCEPT ![c] = NoCheckout]
     /\ UNCHANGED <<vars, provider, event, stripeBooks, hook>>

(* The provider keeps one intent per key and refuses the key for another *)
(* amount; the key is the client's, for every member and organization.   *)
CallProvider(c) ==
  LET q == checkout[c].req
      amount == UnitSum(q.amounts)
      same == {i \in Intents : provider[i].key = q.key}
  IN /\ checkout[c].stage = "call"
     /\ \/ /\ same = {}
           /\ \E i \in Intents :
                /\ provider[i].state = "none"
                /\ provider' = [provider EXCEPT ![i] =
                     [key |-> q.key, amount |-> amount, state |-> "created"]]
                /\ checkout' = [checkout EXCEPT ![c].stage = "lookup", ![c].intent = i]
        \/ /\ \E i \in same :
                /\ provider[i].amount = amount
                /\ checkout' = [checkout EXCEPT ![c].stage = "lookup", ![c].intent = i]
           /\ UNCHANGED provider
        \/ /\ \E i \in same : provider[i].amount # amount
           /\ checkout' = [checkout EXCEPT ![c] = NoCheckout]
           /\ UNCHANGED provider
     /\ UNCHANGED <<vars, event, stripeBooks, hook>>

IntentKeyed(q) == {e \in intentKey : e.actor = q.actor /\ e.key = q.key}

(* A replay and a conflict end the request; only its answer differs. *)
LookupIntent(c) ==
  /\ checkout[c].stage = "lookup"
  /\ checkout' = IF IntentKeyed(checkout[c].req) # {}
                 THEN [checkout EXCEPT ![c] = NoCheckout]
                 ELSE [checkout EXCEPT ![c].stage = "insert"]
  /\ UNCHANGED <<vars, provider, event, stripeBooks, hook>>

(* Faulty: the identifier of the provider's intent is not unique. *)
InsertIntentByKey(c) ==
  LET q == checkout[c].req
      i == checkout[c].intent
  IN /\ checkout[c].stage = "insert"
     /\ IntentKeyed(q) = {}
     /\ intent' = [intent EXCEPT ![i] =
          [status |-> "REQUIRES_PAYMENT_METHOD", amounts |-> q.amounts, payment |-> NoValue]]
     /\ intentKey' = intentKey \cup {[actor |-> q.actor, key |-> q.key, intent |-> i]}
     /\ checkout' = [checkout EXCEPT ![c] = NoCheckout]
     /\ UNCHANGED <<vars, provider, event, webhookEvent, reference, credit, hook>>

(* The identifier of the provider's intent and the key are unique; whoever    *)
(* violates them is answered with the intent stored, for whatever request.    *)
InsertIntent(c) ==
  LET q == checkout[c].req
      i == checkout[c].intent
  IN /\ checkout[c].stage = "insert"
     /\ \/ /\ intent[i].status = "NONE" /\ IntentKeyed(q) = {}
           /\ intent' = [intent EXCEPT ![i] =
                [status |-> "REQUIRES_PAYMENT_METHOD", amounts |-> q.amounts,
                 payment |-> NoValue]]
           /\ intentKey' = intentKey \cup {[actor |-> q.actor, key |-> q.key, intent |-> i]}
        \/ /\ intent[i].status # "NONE" \/ IntentKeyed(q) # {}
           /\ UNCHANGED <<intent, intentKey>>
     /\ checkout' = [checkout EXCEPT ![c] = NoCheckout]
     /\ UNCHANGED <<vars, provider, event, webhookEvent, reference, credit, hook>>

(* The API process dies, or a call or statement fails, at any point. *)
AbortCheckout(c) ==
  /\ checkout[c].stage # "idle"
  /\ checkout' = [checkout EXCEPT ![c] = NoCheckout]
  /\ UNCHANGED <<vars, provider, event, stripeBooks, hook>>

-----------------------------------------------------------------------------
(* The provider.  A card is confirmed with the client secret, which the API *)
(* hands out only with an intent it has stored.                             *)

Settle(i, from, to) ==
  /\ provider[i].state \in from
  /\ provider' = [provider EXCEPT ![i].state = to]
  /\ UNCHANGED <<vars, event, stripeBooks, checkout, hook>>

ProviderStep(i) ==
  /\ intent[i].status # "NONE"
  /\ \/ Settle(i, {"created", "failed"}, "processing")
     \/ Settle(i, {"processing"}, "failed")
     \/ Settle(i, {"processing"}, "succeeded")
     \/ Settle(i, {"created", "failed"}, "canceled")

(* An intent of the same provider account that was not made by the API. *)
CollectElsewhere(i) ==
  /\ provider[i].state = "none"
  /\ provider' = [provider EXCEPT ![i].amount = 1, ![i].state = "succeeded"]
  /\ UNCHANGED <<vars, event, stripeBooks, checkout, hook>>

EventType == [created |-> "payment_intent.created",
              processing |-> "payment_intent.processing",
              failed |-> "payment_intent.payment_failed",
              canceled |-> "payment_intent.canceled",
              succeeded |-> "payment_intent.succeeded"]

(* An event object about the intent's present state, delivered any time later. *)
Issue(i, e) ==
  LET fact == [type |-> EventType[provider[i].state], intent |-> i]
  IN /\ provider[i].state \in DOMAIN EventType
     /\ fact.type \in Subscribed /\ event[e] = NoValue
     /\ RepeatEvents \/ \A f \in Events : event[f] # fact
     /\ event' = [event EXCEPT ![e] = fact]
     /\ UNCHANGED <<vars, provider, stripeBooks, checkout, hook>>

-----------------------------------------------------------------------------
(* processWebhook. *)

(* Faulty: nothing makes the second of two concurrent deliveries wait. *)
NotBeingProcessedOrSo(e) == TRUE

NotBeingProcessed(e) == \A g \in Handlers : hook[g].event # e

(* The row of the event is inserted first; its unique identifier makes a      *)
(* second delivery wait, and end as a replay if the first one commits.        *)
Deliver(h, e) ==
  /\ hook[h].stage = "idle"
  /\ event[e] # NoValue
  /\ webhookEvent[e] = "NONE"
  /\ NotBeingProcessed(e)
  /\ hook' = [hook EXCEPT ![h] =
       [stage |-> "load", event |-> e, rows |-> {}, seen |-> Unseen]]
  /\ UNCHANGED <<vars, provider, event, stripeBooks, checkout>>

Finish(h, outcome) ==
  /\ webhookEvent' = [webhookEvent EXCEPT ![hook[h].event] = outcome]
  /\ hook' = [hook EXCEPT ![h] = NoHook]

(* Faulty: a confirmed card is taken for a collected amount. *)
StatusAfterEager ==
  [t \in {"payment_intent.processing", "payment_intent.canceled",
          "payment_intent.payment_failed"} |->
     CASE t = "payment_intent.processing" -> "SUCCEEDED"
       [] t = "payment_intent.canceled" -> "CANCELED"
       [] t = "payment_intent.payment_failed" -> "REQUIRES_PAYMENT_METHOD"]

(* The status an intent is given by an event that is not a success. *)
StatusAfter ==
  [t \in {"payment_intent.processing", "payment_intent.canceled",
          "payment_intent.payment_failed"} |->
     CASE t = "payment_intent.processing" -> "PROCESSING"
       [] t = "payment_intent.canceled" -> "CANCELED"
       [] t = "payment_intent.payment_failed" -> "REQUIRES_PAYMENT_METHOD"]

(* Faulty: the status is written whatever became of the intent. *)
StillUnpaidOrNot(i) == intent[i].status # "NONE"

(* The where clause of the status update: the intent has no payment yet. *)
StillUnpaid(i) == intent[i].status # "NONE" /\ intent[i].payment = NoValue

UpdateIntentStatus(h) ==
  LET e == event[hook[h].event]
  IN /\ hook[h].stage = "load"
     /\ e.type \in DOMAIN StatusAfter
     /\ intent' = IF StillUnpaid(e.intent)
                  THEN [intent EXCEPT ![e.intent].status = StatusAfter[e.type]]
                  ELSE intent
     /\ Finish(h, "PROCESSED")
     /\ UNCHANGED <<vars, provider, event, intentKey, reference, credit, checkout>>

IgnoreEvent(h) ==
  /\ hook[h].stage = "load"
  /\ event[hook[h].event].type = "payment_intent.created"
  /\ Finish(h, "PROCESSED")
  /\ UNCHANGED <<vars, provider, event, intent, intentKey, reference, credit, checkout>>

(* A success: the intent is read first; it may be unknown or paid already. *)
LoadIntent(h) ==
  LET e == event[hook[h].event]
      i == intent[e.intent]
  IN /\ hook[h].stage = "load"
     /\ e.type = "payment_intent.succeeded"
     /\ \/ i.status = "NONE" /\ Finish(h, "FAILED")
        \/ i.payment # NoValue /\ Finish(h, "PROCESSED")
        \/ /\ i.status # "NONE" /\ i.payment = NoValue
           /\ hook' = [hook EXCEPT ![h].stage = "versions"]
           /\ UNCHANGED webhookEvent
     /\ UNCHANGED <<vars, provider, event, intent, intentKey, reference, credit, checkout>>

HookAmounts(h) == intent[event[hook[h].event].intent].amounts

LoadIntentVersions(h) ==
  /\ hook[h].stage = "versions"
  /\ hook' = [hook EXCEPT ![h].stage = "allocations",
                          ![h].seen.version = VersionsOf(Included(HookAmounts(h)))]
  /\ UNCHANGED <<vars, provider, event, stripeBooks, checkout>>

LoadIntentAllocations(h) ==
  /\ hook[h].stage = "allocations"
  /\ hook' = [hook EXCEPT ![h].stage = "refunds",
                          ![h].rows = {p \in PaymentIds : payment[p] > 0}]
  /\ UNCHANGED <<vars, provider, event, stripeBooks, checkout>>

LoadIntentRefunds(h) ==
  LET named == Included(HookAmounts(h))
      rows == hook[h].rows
  IN /\ hook[h].stage = "refunds"
     /\ hook' = [hook EXCEPT ![h].stage = "commit", ![h].rows = {},
          ![h].seen.total = [o \in Obligations |-> IF o \in named THEN NetOf(rows, o) ELSE 0]]
     /\ UNCHANGED <<vars, provider, event, stripeBooks, checkout>>

(* The intent fits what was owed when it was read.  Neither the obligation's *)
(* status nor its version is part of the decision.                           *)
Allocatable(h) ==
  \A o \in Included(HookAmounts(h)) : hook[h].seen.total[o] + HookAmounts(h)[o] <= Rent[o]

(* The money is posted in any case: allocated to the obligations if it fits, *)
(* with no heed to an obligation whose versioned update found nothing, and   *)
(* kept as the tenant's credit otherwise.                                    *)
PostIntent(h) ==
  LET i == event[hook[h].event].intent
      amounts == HookAmounts(h)
      amount == UnitSum(amounts)
      updated == {o \in Included(amounts) : version[o] = hook[h].seen.version[o]}
  IN /\ hook[h].stage = "commit"
     /\ \E p \in PaymentIds :
          /\ payment[p] = 0
          /\ payment' = [payment EXCEPT ![p] = amount]
          /\ reference' = [reference EXCEPT ![p] = i]
          /\ intent' = [intent EXCEPT ![i].status = "SUCCEEDED", ![i].payment = p]
          /\ \/ /\ Allocatable(h)
                /\ allocation' = [allocation EXCEPT ![p] = amounts]
                /\ status' = [o \in Obligations |->
                     IF o \in updated
                     THEN PaidStatus(hook[h].seen.total[o] + amounts[o], o)
                     ELSE status[o]]
                /\ Bump(updated)
                /\ Post("CASH", "RENT_RECEIVABLE", amount)
                /\ item' = [item EXCEPT ![p] =
                     [status |-> "RESOLVED", version |-> 1, by |-> NoValue]]
                /\ UNCHANGED credit
             \/ /\ ~Allocatable(h)
                /\ balance' = [balance EXCEPT !["CASH"] = @ + amount]
                /\ credit' = credit - amount
                /\ OpenItem(p)
                /\ UNCHANGED <<allocation, status, version>>
     /\ Finish(h, "PROCESSED")
     /\ UNCHANGED <<refundOf, refundAllocation, idem, session, provider, event,
                    intentKey, checkout>>

(* Faulty: the event's row was committed before the rest. *)
AbortHookKeepingEvent(h) ==
  /\ hook[h].stage # "idle"
  /\ Finish(h, "PROCESSED")
  /\ UNCHANGED <<vars, provider, event, intent, intentKey, reference, credit, checkout>>

(* The delivery fails and rolls back, the event's row included. *)
AbortHook(h) ==
  /\ hook[h].stage # "idle"
  /\ hook' = [hook EXCEPT ![h] = NoHook]
  /\ UNCHANGED <<vars, provider, event, stripeBooks, checkout>>

-----------------------------------------------------------------------------
StripeInit ==
  /\ Init
  /\ provider = [i \in Intents |-> NoProvider]
  /\ event = [e \in Events |-> NoValue]
  /\ intent = [i \in Intents |-> NoIntent]
  /\ intentKey = {}
  /\ webhookEvent = [e \in Events |-> "NONE"]
  /\ reference = [p \in PaymentIds |-> NoValue]
  /\ credit = 0
  /\ checkout = [c \in Clients |-> NoCheckout]
  /\ hook = [h \in Handlers |-> NoHook]

RentStep == Next /\ UNCHANGED stripeVars

CheckoutStep(c) ==
  \/ \E q \in IntentRequests : Prepare(c, q)
  \/ PrepareAllocations(c) \/ PrepareRefunds(c)
  \/ CallProvider(c) \/ LookupIntent(c) \/ InsertIntent(c)
  \/ AbortCheckout(c)

HookStep(h) ==
  \/ UpdateIntentStatus(h) \/ IgnoreEvent(h)
  \/ LoadIntent(h) \/ LoadIntentVersions(h) \/ LoadIntentAllocations(h)
  \/ LoadIntentRefunds(h)
  \/ PostIntent(h)

StripeNext ==
  \/ RentStep
  \/ \E c \in Clients : CheckoutStep(c)
  \/ \E i \in Intents : ProviderStep(i) \/ CollectElsewhere(i) \/ \E e \in Events : Issue(i, e)
  \/ \E h \in Handlers : HookStep(h) \/ AbortHook(h) \/ \E e \in Events : Deliver(h, e)

StripeSpec == StripeInit /\ [][StripeNext]_allVars

(* The provider issues an event for every success and delivers it until the *)
(* API confirms it; a step of a delivery that is tried again and again does *)
(* not fail each time.                                                      *)
StripeFairSpec ==
  /\ StripeSpec
  /\ \A e \in Events :
       /\ WF_allVars(\E i \in Intents : provider[i].state = "succeeded" /\ Issue(i, e))
       /\ SF_allVars(\E h \in Handlers : Deliver(h, e))
  /\ \A h \in Handlers :
       /\ SF_allVars(UpdateIntentStatus(h)) /\ SF_allVars(IgnoreEvent(h))
       /\ SF_allVars(LoadIntent(h))
       /\ SF_allVars(LoadIntentVersions(h))
       /\ SF_allVars(LoadIntentAllocations(h)) /\ SF_allVars(LoadIntentRefunds(h))
       /\ SF_allVars(PostIntent(h))

-----------------------------------------------------------------------------
IntentStatus ==
  {"NONE", "REQUIRES_PAYMENT_METHOD", "PROCESSING", "SUCCEEDED", "CANCELED"}

CheckoutRow ==
  [stage : {"idle", "allocations", "refunds", "call", "lookup", "insert"},
   req : IntentRequests \cup {NoValue}, rows : SUBSET PaymentIds,
   intent : Intents \cup {NoValue}]

HookRow ==
  [stage : {"idle", "load", "versions", "allocations", "refunds", "commit"},
   event : Events \cup {NoValue}, rows : SUBSET PaymentIds,
   seen : [version : [Obligations -> Nat], total : [Obligations -> Int]]]

(* The types of the provider's state, the intent tables and the deliveries. *)
StripeTypeOK ==
  /\ TypeOK
  /\ provider \in [Intents -> [key : Keys \cup {NoValue}, amount : Nat,
                                state : {"none"} \cup DOMAIN EventType]]
  /\ \A e \in Events : event[e] = NoValue \/ event[e].intent \in Intents
  /\ intent \in [Intents -> [status : IntentStatus, amounts : Amounts,
                             payment : PaymentIds \cup {NoValue}]]
  /\ intentKey \subseteq [actor : Actors, key : Keys, intent : Intents]
  /\ webhookEvent \in [Events -> {"NONE", "PROCESSED", "FAILED"}]
  /\ reference \in [PaymentIds -> Intents \cup {NoValue}]
  /\ credit \in Int
  /\ checkout \in [Clients -> CheckoutRow]
  /\ hook \in [Handlers -> HookRow]

(* One ledger effect per intent, however its events are repeated, delayed or *)
(* delivered twice at the same time.                                         *)
OneEffectPerIntent ==
  \A p1, p2 \in PaymentIds :
    reference[p1] # NoValue /\ reference[p1] = reference[p2] => p1 = p2

(* Webhook, payments and refunds together never collect more than the rent. *)
NoOverCollection == \A o \in Obligations : Net(o) <= Rent[o]

(* A posted intent carries the amount the provider collected, allocated as *)
(* it was asked for or not at all.                                         *)
PostedAsCollected ==
  \A i \in Intents : intent[i].status = "SUCCEEDED" =>
    LET p == intent[i].payment
    IN /\ p # NoValue /\ reference[p] = i
       /\ provider[i].state = "succeeded" /\ payment[p] = provider[i].amount
       /\ allocation[p] \in {intent[i].amounts, Unseen.total}

(* With the tenants' credit the ledger still is what the rows say: what was *)
(* received and not allocated is owed back.                                 *)
LedgerAgreesWithCredit ==
  LET charged == [o \in Obligations |-> IF status[o] = "ABSENT" THEN 0 ELSE Rent[o]]
      gross == UnitSum([o \in Obligations |-> Gross(o)])
      refunded == UnitSum([o \in Obligations |-> Refunded(o)])
  IN /\ balance["CASH"] = UnitSum(payment) - refunded
     /\ balance["RENT_RECEIVABLE"] = UnitSum(charged) - gross + refunded
     /\ credit = gross - UnitSum(payment)

(* Whatever is retried, with the same key or another, by whom and after which  *)
(* failure: the intent that is stored asks for the amount the provider will    *)
(* collect, under the key the provider knows it by, and for one request only.  *)
IntentsAreStoredOnce ==
  /\ \A i \in Intents : intent[i].status # "NONE" =>
       /\ provider[i].amount = UnitSum(intent[i].amounts)
       /\ \E e \in intentKey : e.intent = i /\ e.key = provider[i].key
  /\ \A e \in intentKey : intent[e.intent].status # "NONE"
  /\ \A e1, e2 \in intentKey :
       e1.intent = e2.intent \/ (e1.actor = e2.actor /\ e1.key = e2.key) => e1 = e2

(* A late or reordered event never takes a paid intent back. *)
PaidIntentIsFinal ==
  [][\A i \in Intents : intent[i].payment # NoValue => intent[i]' = intent[i]]_allVars

(* What the provider collected for the API is posted in the end, whatever  *)
(* deliveries fail.                                                       *)
CollectedIsPosted ==
  \A i \in Intents :
    provider[i].state = "succeeded" /\ provider[i].key # NoValue ~> intent[i].payment # NoValue

=============================================================================
