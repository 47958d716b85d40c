-------------------------- MODULE StripeRentProofs --------------------------
(***************************************************************************)
(* Theorems about StripeRent: what the provider collected, what the tables *)
(* of intents say and what was posted agree, for any intents, events,      *)
(* requests and number of deliveries in service.                           *)
(***************************************************************************)
EXTENDS StripeRent, RentBooksProofs

Success == "payment_intent.succeeded"
Facts ==
  [type : {"payment_intent.created", "payment_intent.processing",
           "payment_intent.payment_failed", "payment_intent.canceled", Success},
   intent : Intents]

(* The amounts of a request for an intent are not nothing. *)
LEMMA IntentRequestShape ==
  ASSUME NEW q \in IntentRequests
  PROVE  /\ q.actor \in Actors /\ q.key \in Keys /\ q.amounts \in Amounts
         /\ UnitSum(q.amounts) \in Nat /\ UnitSum(q.amounts) > 0
BY StripeAssumption, AmountsPositive DEF IntentRequest

-----------------------------------------------------------------------------
(* What the properties rest on. *)

(* What of the books of rent does not need the versions to be moved. *)
RentBasics ==
  /\ TypeOK /\ RowsAreClean /\ AllocatedIsCharged /\ LedgerAgrees
  /\ \A c \in Clients : RefundsWhatWasPaid(c)

(* The accounts, the tenants' credit included, add up to nothing. *)
EntriesBalance ==
  credit + balance["CASH"] + balance["RENT_RECEIVABLE"] + balance["RENT_REVENUE"] = 0

ChargedOnly(amounts) == \A o \in Obligations : amounts[o] > 0 => status[o] # "ABSENT"

(* A request asks to pay what was charged, and holds an intent over its amount. *)
CheckoutOK(c) ==
  LET q == checkout[c].req
      i == checkout[c].intent
  IN /\ checkout[c].stage # "idle" => q \in IntentRequests /\ ChargedOnly(q.amounts)
     /\ checkout[c].stage \in {"lookup", "insert"} =>
          /\ i \in Intents /\ provider[i].state # "none"
          /\ provider[i].amount = UnitSum(q.amounts)

(* A posting of an intent: of what the provider collected, and as it was asked. *)
PostedBy(i, p) ==
  /\ p \in PaymentIds /\ reference[p] = i
  /\ payment[p] = provider[i].amount /\ provider[i].state = "succeeded"
  /\ allocation[p] \in {intent[i].amounts, Unseen.total}

(* A stored intent is the provider's; one with a payment is one that succeeded. *)
IntentOK(i) ==
  /\ intent[i].status # "NONE" =>
       /\ provider[i].state # "none"
       /\ provider[i].amount = UnitSum(intent[i].amounts) /\ provider[i].amount > 0
       /\ ChargedOnly(intent[i].amounts)
  /\ intent[i].status = "SUCCEEDED" => PostedBy(i, intent[i].payment)
  /\ intent[i].payment # NoValue => intent[i].status = "SUCCEEDED"

(* An event tells the truth, and a success is one for good. *)
EventOK(e) ==
  event[e] # NoValue =>
    /\ event[e] \in Facts
    /\ event[e].type = Success => provider[event[e].intent].state = "succeeded"

(* A delivery has an event; one that reads an intent has its success. *)
HookOK(h) ==
  LET e == hook[h].event IN
  /\ hook[h].stage # "idle" => e \in Events /\ event[e] # NoValue
  /\ hook[h].stage \in {"versions", "allocations", "refunds", "commit"} =>
       event[e].type = Success /\ intent[event[e].intent].status # "NONE"

ReferenceOK == \A p \in PaymentIds : reference[p] # NoValue => payment[p] > 0

(* An intent the provider does not have has no amount. *)
UnmadeIsEmpty == \A i \in Intents : provider[i].state = "none" => provider[i].amount = 0

StripeInv ==
  /\ StripeTypeOK /\ DOMAIN event = Events
  /\ RentBasics /\ EntriesBalance /\ ReferenceOK /\ UnmadeIsEmpty
  /\ \A c \in Clients : CheckoutOK(c)
  /\ \A i \in Intents : IntentOK(i)
  /\ \A e \in Events : EventOK(e)
  /\ \A h \in Handlers : HookOK(h)

(* With one event object for each fact, whatever processes the success of an  *)
(* intent is alone with it, and the intent has not been posted.               *)
OnceInv ==
  /\ \A e, f \in Events : event[e] # NoValue /\ event[e] = event[f] => e = f
  /\ \A g, h \in Handlers :
       hook[g].stage # "idle" /\ hook[h].stage # "idle" /\ hook[g].event = hook[h].event => g = h
  /\ \A h \in Handlers :
       hook[h].stage \in {"versions", "allocations", "refunds", "commit"} =>
         intent[event[hook[h].event].intent].payment = NoValue
  /\ \A p \in PaymentIds : reference[p] # NoValue => intent[reference[p]].payment = p

-----------------------------------------------------------------------------
(* What the requests of the rent module do, whoever else writes their tables. *)

(* A review is only closed where there is a row. *)
LEMMA ItemsStayNone ==
  ASSUME TypeOK, UNCHANGED item \/ \E c \in Clients : CommitItem(c)
  PROVE  \A i \in Items : item[i].status = "NONE" => item'[i].status = "NONE"
<1>1. ASSUME NEW c \in Clients, CommitItem(c), NEW i \in Items, item[i].status = "NONE"
      PROVE  item'[i].status = "NONE"
  <2>1. CASE UNCHANGED item
    BY <1>1, <2>1
  <2>2. CASE ~UNCHANGED item
    <3>1. PICK row : item' = [item EXCEPT ![req[c].target] = row]
      BY <1>1, <2>2 DEF CommitItem
    <3>2. item[req[c].target].status = "OPEN"
      BY <1>1, <2>2 DEF CommitItem, StillOpen
    <3> QED BY <1>1, <3>1, <3>2 DEF TypeOK, QueueOK
  <2> QED BY <2>1, <2>2
<1> QED BY <1>1

(* A posting keeps what does not exist empty. *)
LEMMA PostingKeepsClean ==
  ASSUME TypeOK, RowsAreClean, AllocatedIsCharged, NEW c \in Clients, RefundsWhatWasPaid(c),
         \/ \E o \in Obligations : PostsCharge(c, o)
         \/ \E p \in PaymentIds : PostsPayment(c, p)
         \/ \E f \in RefundIds : PostsRefund(c, f)
  PROVE  RowsAreClean'
<1>1. ASSUME NEW o \in Obligations, PostsCharge(c, o) PROVE RowsAreClean'
  <2>1. UnusedIsEmpty'
    BY <1>1 DEF PostsCharge, RowsAreClean, UnusedIsEmpty
  <2>2. \A x \in Obligations : x # o => status'[x] = status[x] /\ version'[x] = version[x]
    BY <1>1 DEF PostsCharge, TypeOK, BooksOK, Versions
  <2>3. status'[o] = "OPEN"
    BY <1>1 DEF PostsCharge, TypeOK, BooksOK
  <2> QED BY <2>1, <2>2, <2>3 DEF RowsAreClean, AbsentIsNew
<1>2. ASSUME NEW p \in PaymentIds, PostsPayment(c, p) PROVE RowsAreClean'
  <2>1. /\ payment'[p] > 0
        /\ \A q \in PaymentIds : q # p => payment'[q] = payment[q] /\ allocation'[q] = allocation[q]
        /\ \A o \in Obligations :
             /\ o \in Included(req[c].amounts) => status[o] \in Payable
             /\ status'[o] = "ABSENT" <=> status[o] = "ABSENT"
    BY <1>2, PaymentFacts
  <2>2. \A i \in Items : i # p => item'[i] = item[i]
    BY <1>2 DEF PostsPayment, OpenItem, TypeOK, QueueOK
  <2>3. UnusedIsEmpty'
    BY <1>2, <2>1, <2>2, SetsAssumption DEF PostsPayment, RowsAreClean, UnusedIsEmpty, Items
  <2>4. \A o \in Obligations : o \notin Included(req[c].amounts) => version'[o] = version[o]
    BY <1>2 DEF PostsPayment, Bump
  <2>5. AbsentIsNew'
    BY <2>1, <2>4 DEF RowsAreClean, AbsentIsNew, Payable
  <2> QED BY <2>3, <2>5 DEF RowsAreClean
<1>3. ASSUME NEW f \in RefundIds, PostsRefund(c, f) PROVE RowsAreClean'
  <2>1. /\ refundOf'[f] # NoValue
        /\ \A g \in RefundIds : g # f =>
             refundOf'[g] = refundOf[g] /\ refundAllocation'[g] = refundAllocation[g]
        /\ \A o \in Obligations :
             /\ o \in Included(req[c].amounts) => status[o] # "ABSENT"
             /\ status'[o] = "ABSENT" <=> status[o] = "ABSENT"
    BY <1>3, RefundFacts
  <2>2. \A i \in Items : i # f => item'[i] = item[i]
    BY <1>3 DEF PostsRefund, OpenItem, TypeOK, QueueOK
  <2>3. UnusedIsEmpty'
    BY <1>3, <2>1, <2>2, SetsAssumption DEF PostsRefund, RowsAreClean, UnusedIsEmpty, Items
  <2>4. \A o \in Obligations : o \notin Included(req[c].amounts) => version'[o] = version[o]
    BY <1>3 DEF PostsRefund, Bump
  <2>5. AbsentIsNew'
    BY <2>1, <2>4 DEF RowsAreClean, AbsentIsNew
  <2> QED BY <2>3, <2>5 DEF RowsAreClean
<1> QED BY <1>1, <1>2, <1>3

Accounted == balance["CASH"] + balance["RENT_RECEIVABLE"] + balance["RENT_REVENUE"]

(* Double entry moves amounts, it does not make any. *)
LEMMA PostKeepsSum ==
  ASSUME BooksOK, NEW debit \in Accounts, NEW to \in Accounts, debit # to,
         NEW amount \in Nat, Post(debit, to, amount)
  PROVE  Accounted' = Accounted
<1>1. \A a \in Accounts : balance[a] \in Int
  BY DEF BooksOK
<1>2. /\ balance'[debit] = balance[debit] + amount
      /\ balance'[to] = balance[to] - amount
      /\ \A a \in Accounts : a \notin {debit, to} => balance'[a] = balance[a]
  BY PostFacts
<1> QED BY <1>1, <1>2 DEF Accounted, Accounts

(* A posting keeps allocations to what was charged, and the ledger. *)
LEMMA PostingKeepsLedger ==
  ASSUME TypeOK, RowsAreClean, AllocatedIsCharged, LedgerAgrees, NEW c \in Clients,
         RefundsWhatWasPaid(c),
         \/ \E o \in Obligations : PostsCharge(c, o)
         \/ \E p \in PaymentIds : PostsPayment(c, p)
         \/ \E f \in RefundIds : PostsRefund(c, f)
  PROVE  AllocatedIsCharged' /\ LedgerAgrees' /\ RowsStay /\ Accounted' = Accounted
<1>1. ASSUME NEW o \in Obligations, PostsCharge(c, o)
      PROVE  AllocatedIsCharged' /\ LedgerAgrees' /\ RowsStay /\ Accounted' = Accounted
  <2>1. RowsStay /\ UNCHANGED allocation
    BY <1>1, ChargeFacts DEF PostsCharge
  <2>2. Post("RENT_RECEIVABLE", "RENT_REVENUE", Rent[o]) /\ Rent[o] \in Nat
    BY <1>1, RentAssumption DEF PostsCharge
  <2>3. AllocatedIsCharged'
    BY <2>1 DEF AllocatedIsCharged, RowsStay
  <2>4. Accounted' = Accounted
    BY <2>2, PostKeepsSum DEF TypeOK, Accounts
  <2> QED BY <1>1, <2>1, <2>3, <2>4, ChargeKeepsLedger
<1>2. ASSUME NEW p \in PaymentIds, PostsPayment(c, p)
      PROVE  AllocatedIsCharged' /\ LedgerAgrees' /\ RowsStay /\ Accounted' = Accounted
  <2>1. /\ RowsStay /\ UnitSum(req[c].amounts) \in Nat
        /\ allocation'[p] = req[c].amounts
        /\ \A q \in PaymentIds : q # p => allocation'[q] = allocation[q]
        /\ \A x \in Obligations :
             /\ x \in Included(req[c].amounts) => status[x] \in Payable
             /\ x \notin Included(req[c].amounts) => req[c].amounts[x] = 0
             /\ status'[x] = "ABSENT" <=> status[x] = "ABSENT"
    BY <1>2, PaymentFacts
  <2>2. AllocatedIsCharged'
    <3>1. SUFFICES ASSUME NEW q \in PaymentIds, NEW x \in Obligations, allocation'[q][x] > 0
                   PROVE  status'[x] # "ABSENT"
      BY DEF AllocatedIsCharged
    <3>2. CASE q = p
      BY <2>1, <3>1, <3>2 DEF Payable
    <3>3. CASE q # p
      BY <2>1, <3>1, <3>3 DEF AllocatedIsCharged
    <3> QED BY <3>2, <3>3
  <2>3. Post("CASH", "RENT_RECEIVABLE", UnitSum(req[c].amounts))
    BY <1>2 DEF PostsPayment
  <2>4. Accounted' = Accounted
    BY <2>1, <2>3, PostKeepsSum DEF TypeOK, Accounts
  <2> QED BY <1>2, <2>1, <2>2, <2>4, PaymentKeepsLedger
<1>3. ASSUME NEW f \in RefundIds, PostsRefund(c, f)
      PROVE  AllocatedIsCharged' /\ LedgerAgrees' /\ RowsStay /\ Accounted' = Accounted
  <2>1. RowsStay /\ UNCHANGED allocation /\ UnitSum(req[c].amounts) \in Nat
    BY <1>3, RefundFacts DEF PostsRefund
  <2>2. AllocatedIsCharged'
    BY <2>1 DEF AllocatedIsCharged, RowsStay
  <2>3. Post("RENT_RECEIVABLE", "CASH", UnitSum(req[c].amounts))
    BY <1>3 DEF PostsRefund
  <2>4. Accounted' = Accounted
    BY <2>1, <2>3, PostKeepsSum DEF TypeOK, Accounts
  <2> QED BY <1>3, <2>1, <2>2, <2>4, RefundKeepsLedger
<1> QED BY <1>1, <1>2, <1>3

(* A step that posts nothing keeps it all. *)
LEMMA QuietLedger ==
  ASSUME AllocatedIsCharged, LedgerAgrees, UNCHANGED books
  PROVE  AllocatedIsCharged' /\ LedgerAgrees' /\ RowsStay /\ Accounted' = Accounted
<1>1. UNCHANGED <<status, version, payment, allocation, refundOf, refundAllocation, balance>>
  BY DEF books
<1>2. \A o \in Obligations : Gross(o)' = Gross(o) /\ Refunded(o)' = Refunded(o)
  BY <1>1 DEF Gross, Refunded
<1>3. /\ ChargedTable' = ChargedTable /\ GrossTable' = GrossTable
      /\ RefundedTable' = RefundedTable /\ payment' = payment /\ balance' = balance
  BY <1>1, <1>2 DEF ChargedTable, GrossTable, RefundedTable
<1>4. /\ balance'["RENT_REVENUE"] = 0 - UnitSum(ChargedTable')
      /\ balance'["CASH"] = UnitSum(payment') - UnitSum(RefundedTable')
      /\ balance'["RENT_RECEIVABLE"] =
           UnitSum(ChargedTable') - UnitSum(GrossTable') + UnitSum(RefundedTable')
  BY <1>3, LedgerByTables
<1>5. LedgerAgrees'
  BY <1>4 DEF LedgerAgrees, ChargedTable, GrossTable, RefundedTable
<1>6. AllocatedIsCharged' /\ RowsStay /\ Accounted' = Accounted
  BY <1>1 DEF AllocatedIsCharged, RowsStay, Accounted
<1> QED BY <1>5, <1>6

(* A refund in service has found what it refunds, and it stays. *)
LEMMA OwnRefundChecked ==
  ASSUME TypeOK, NEW c \in Clients, RefundsWhatWasPaid(c), RowsStay, Steps(c)
  PROVE  RefundsWhatWasPaid(c)'
<1>1. ASSUME stage'[c] \in {"idle", "load", "recover"} PROVE RefundsWhatWasPaid(c)'
  BY <1>1 DEF RefundsWhatWasPaid
<1>2. ASSUME NEW kind, NEW result, Reply(c, kind, result) PROVE RefundsWhatWasPaid(c)'
  BY <1>1, <1>2, ReplyLeavesOthers
<1>3. ASSUME Continue(c, "recover") PROVE RefundsWhatWasPaid(c)'
  BY <1>1, <1>3, ContinueLeavesOthers
<1>4. ASSUME req'[c].op # "refund" PROVE RefundsWhatWasPaid(c)'
  BY <1>4 DEF RefundsWhatWasPaid
<1>5. ASSUME NEW r, Replay(c, r) PROVE RefundsWhatWasPaid(c)'
  <2>1. PICK e \in Recorded(r) : IF e.body = Body(r)
                                 THEN Reply(c, "replayed", e.result)
                                 ELSE Reply(c, "idempotency_conflict", NoValue)
    BY <1>5 DEF Replay
  <2> QED BY <1>2, <2>1
<1>6. ASSUME NEW r \in Requests, Begin(c, r) PROVE RefundsWhatWasPaid(c)'
  <2>1. req'[c] = r
    BY <1>6 DEF Begin, TypeOK, SessionOK
  <2>2. CASE stage'[c] = "load"
    BY <1>1, <2>2
  <2>3. CASE r.op # "refund"
    BY <1>4, <2>1, <2>3
  <2>4. CASE r.op = "refund" /\ stage'[c] # "load"
    <3>1. \/ \E kind : Reply(c, kind, NoValue)
          \/ Replay(c, r)
          \/ stage' = [stage EXCEPT ![c] = "load"]
      BY <1>6, <2>4 DEF Begin
    <3>2. stage' # [stage EXCEPT ![c] = "load"]
      BY <2>4 DEF TypeOK, SessionOK
    <3> QED BY <1>2, <1>5, <3>1, <3>2
  <2> QED BY <2>2, <2>3, <2>4
<1>7. ASSUME CommitCreate(c) \/ LoadPayment(c) \/ CheckPayment(c) \/ CommitPayment(c)
               \/ LoadItem(c) \/ CommitItem(c)
      PROVE  RefundsWhatWasPaid(c)'
  <2>1. req'[c] = req[c] /\ req[c].op # "refund"
    BY <1>7 DEF CommitCreate, LoadPayment, CheckPayment, CommitPayment, LoadItem, CommitItem, At
  <2> QED BY <1>4, <2>1
<1>8. ASSUME LoadRefund(c) PROVE RefundsWhatWasPaid(c)'
  <2>1. /\ UNCHANGED <<payment, allocation, req>>
        /\ \/ \E kind : Reply(c, kind, NoValue)
           \/ /\ payment[req[c].target] > 0
              /\ \A o \in Included(req[c].amounts) : allocation[req[c].target][o] > 0
    BY <1>8 DEF LoadRefund, books
  <2> QED BY <1>2, <2>1 DEF RefundsWhatWasPaid, Included
<1>9. ASSUME LoadRefundVersions(c) \/ LoadRefundTotals(c) PROVE RefundsWhatWasPaid(c)'
  <2>1. /\ UNCHANGED <<payment, allocation, req>>
        /\ stage[c] \in {"versions", "totals"} /\ req[c].op = "refund"
    BY <1>9 DEF LoadRefundVersions, LoadRefundTotals, At, books
  <2> QED BY <2>1 DEF RefundsWhatWasPaid, Included
<1>10. ASSUME CommitRefund(c) PROVE RefundsWhatWasPaid(c)'
  <2>1. Continue(c, "recover") \/ \E kind, result : Reply(c, kind, result)
    BY <1>10 DEF CommitRefund
  <2> QED BY <1>2, <1>3, <2>1
<1>11. ASSUME Recover(c) \/ Abort(c) PROVE RefundsWhatWasPaid(c)'
  <2>1. Replay(c, req[c]) \/ \E kind : Reply(c, kind, NoValue)
    BY <1>11 DEF Recover, Abort
  <2> QED BY <1>2, <1>5, <2>1
<1> QED BY <1>6, <1>7, <1>8, <1>9, <1>10, <1>11 DEF Steps, Serve

LEMMA RefundStaysChecked ==
  ASSUME TypeOK, NEW d \in Clients, RefundsWhatWasPaid(d), RowsStay,
         stage'[d] = stage[d], req'[d] = req[d]
  PROVE  RefundsWhatWasPaid(d)'
<1>1. SUFFICES ASSUME stage[d] \in {"versions", "totals", "commit"}, req[d].op = "refund"
               PROVE  /\ payment'[req[d].target] > 0
                      /\ \A o \in Included(req[d].amounts) : allocation'[req[d].target][o] > 0
  BY DEF RefundsWhatWasPaid, Included
<1>2. req[d].target \in PaymentIds
  BY <1>1, RequestShape DEF TypeOK, SessionOK
<1> QED BY <1>1, <1>2 DEF RefundsWhatWasPaid, RowsStay

(* The requests of rent keep the basics, and move no money they do not post. *)
LEMMA RentKeepsBasics ==
  ASSUME RentBasics, [Next]_vars
  PROVE  RentBasics' /\ RowsStay /\ Accounted' = Accounted
<1>1. /\ TypeOK /\ RowsAreClean /\ AllocatedIsCharged /\ LedgerAgrees
      /\ \A c \in Clients : RefundsWhatWasPaid(c)
  BY DEF RentBasics
<1>2. TypeOK'
  BY <1>1, NextTypeOK
<1>3. AllocatedIsCharged' /\ LedgerAgrees' /\ RowsStay /\ Accounted' = Accounted
  <2>1. CASE UNCHANGED books
    BY <1>1, <2>1, QuietLedger
  <2>2. CASE ~UNCHANGED books
    <3>1. Next
      BY <2>2 DEF vars
    <3>2. PICK c \in Clients : \/ \E o \in Obligations : PostsCharge(c, o)
                               \/ \E p \in PaymentIds : PostsPayment(c, p)
                               \/ \E f \in RefundIds : PostsRefund(c, f)
      BY <1>1, <2>2, <3>1, StepsPostOrNot
    <3> QED BY <1>1, <3>2, PostingKeepsLedger
  <2> QED BY <2>1, <2>2
<1>4. RowsAreClean'
  <2>1. CASE UNCHANGED books /\ (UNCHANGED item \/ \E c \in Clients : CommitItem(c))
    <3>1. \A i \in Items : item[i].status = "NONE" => item'[i].status = "NONE"
      BY <1>1, <2>1, ItemsStayNone
    <3> QED BY <1>1, <2>1, <3>1 DEF books, RowsAreClean, UnusedIsEmpty, AbsentIsNew, Items
  <2>2. CASE ~(UNCHANGED books /\ (UNCHANGED item \/ \E c \in Clients : CommitItem(c)))
    <3>1. Next
      BY <2>2 DEF vars
    <3>2. PICK c \in Clients : \/ \E o \in Obligations : PostsCharge(c, o)
                               \/ \E p \in PaymentIds : PostsPayment(c, p)
                               \/ \E f \in RefundIds : PostsRefund(c, f)
      BY <1>1, <2>2, <3>1, StepsPostOrNot
    <3> QED BY <1>1, <3>2, PostingKeepsClean
  <2> QED BY <2>1, <2>2
<1>5. ASSUME NEW d \in Clients PROVE RefundsWhatWasPaid(d)'
  <2>1. CASE UNCHANGED vars
    BY <1>1, <1>3, <2>1, RefundStaysChecked DEF vars, session
  <2>2. ASSUME NEW c \in Clients, Steps(c) PROVE RefundsWhatWasPaid(d)'
    <3>1. CASE d = c
      BY <1>1, <1>3, <2>2, <3>1, OwnRefundChecked
    <3>2. CASE d # c
      BY <1>1, <1>3, <2>2, <3>2, OthersUntouched, RefundStaysChecked
    <3> QED BY <3>1, <3>2
  <2> QED BY <2>1, <2>2 DEF Next, Steps
<1> QED BY <1>2, <1>3, <1>4, <1>5 DEF RentBasics

-----------------------------------------------------------------------------
(* How the invariant is carried over a step. *)

(* Nothing that was charged, paid, asked, issued or collected is taken back. *)
Kept ==
  /\ RowsStay
  /\ \A i \in Intents :
       /\ provider[i].state # "none" =>
            provider'[i].state # "none" /\ provider'[i].amount = provider[i].amount
       /\ provider[i].state = "succeeded" => provider'[i].state = "succeeded"
       /\ intent[i].status # "NONE" =>
            intent'[i].status # "NONE" /\ intent'[i].amounts = intent[i].amounts
  /\ \A e \in Events : event[e] # NoValue => event'[e] = event[e]
  /\ \A p \in PaymentIds : payment[p] > 0 => reference'[p] = reference[p]

(* A step keeps the books in order and whatever it does not write as it was. *)
Advances ==
  /\ Kept /\ StripeTypeOK' /\ DOMAIN event' = Events
  /\ RentBasics' /\ EntriesBalance' /\ ReferenceOK' /\ UnmadeIsEmpty'
  /\ \A c \in Clients : checkout'[c] = checkout[c] \/ CheckoutOK(c)'
  /\ \A i \in Intents : intent'[i] = intent[i] \/ IntentOK(i)'
  /\ \A e \in Events : event'[e] = event[e] \/ EventOK(e)'
  /\ \A h \in Handlers : hook'[h] = hook[h] \/ HookOK(h)'

LEMMA CheckoutStill ==
  ASSUME StripeTypeOK, Kept, NEW c \in Clients, CheckoutOK(c), checkout'[c] = checkout[c]
  PROVE  CheckoutOK(c)'
<1> DEFINE q == checkout[c].req
<1> DEFINE i == checkout[c].intent
<1>1. checkout[c].stage # "idle" => q \in IntentRequests /\ ChargedOnly(q.amounts)
  BY DEF CheckoutOK
<1>2. checkout[c].stage # "idle" => ChargedOnly(q.amounts)'
  BY <1>1 DEF ChargedOnly, Kept, RowsStay
<1>3. checkout[c].stage \in {"lookup", "insert"} =>
        /\ i \in Intents /\ provider'[i].state # "none"
        /\ provider'[i].amount = UnitSum(q.amounts)
  BY DEF CheckoutOK, Kept
<1> QED BY <1>1, <1>2, <1>3 DEF CheckoutOK, ChargedOnly

LEMMA IntentStill ==
  ASSUME StripeTypeOK, Kept, NEW i \in Intents, IntentOK(i),
         intent'[i].amounts = intent[i].amounts,
         intent[i].status # "NONE" \/ intent'[i].status = "NONE",
         \/ intent'[i].status = intent[i].status /\ intent'[i].payment = intent[i].payment
         \/ intent'[i].status # "SUCCEEDED" /\ intent'[i].payment = NoValue
  PROVE  IntentOK(i)'
<1>1. intent'[i].status # "NONE" =>
        /\ provider'[i].state # "none"
        /\ provider'[i].amount = UnitSum(intent'[i].amounts) /\ provider'[i].amount > 0
  BY DEF IntentOK, Kept
<1>2. intent'[i].status # "NONE" => ChargedOnly(intent[i].amounts)'
  <2>1. intent'[i].status # "NONE" => ChargedOnly(intent[i].amounts)
    BY DEF IntentOK
  <2> QED BY <2>1 DEF Kept, RowsStay, ChargedOnly
<1>3. ASSUME intent'[i].status = "SUCCEEDED" PROVE PostedBy(i, intent[i].payment)'
  <2> DEFINE p == intent[i].payment
  <2>1. PostedBy(i, p) /\ provider[i].amount > 0 /\ provider[i].state = "succeeded"
    BY <1>3 DEF IntentOK, PostedBy
  <2>2. p \in PaymentIds /\ payment[p] > 0
    BY <2>1 DEF PostedBy
  <2>3. payment'[p] = payment[p] /\ allocation'[p] = allocation[p] /\ reference'[p] = reference[p]
    BY <2>2 DEF Kept, RowsStay
  <2>4. provider'[i].amount = provider[i].amount /\ provider'[i].state = "succeeded"
    BY <2>1 DEF Kept
  <2>5. intent'[i].payment = p
    BY <1>3
  <2> QED BY <2>1, <2>2, <2>3, <2>4, <2>5 DEF PostedBy, Unseen
<1>4. intent'[i].payment # NoValue => intent'[i].status = "SUCCEEDED"
  BY DEF IntentOK
<1> QED BY <1>1, <1>2, <1>3, <1>4 DEF IntentOK

LEMMA EventStill ==
  ASSUME StripeTypeOK, Kept, NEW e \in Events, EventOK(e), event'[e] = event[e]
  PROVE  EventOK(e)'
BY DEF EventOK, Kept, StripeTypeOK

LEMMA HookStill ==
  ASSUME StripeTypeOK, Kept, NEW h \in Handlers, HookOK(h), hook'[h] = hook[h]
  PROVE  HookOK(h)'
<1> DEFINE e == hook[h].event
<1>1. hook[h].stage # "idle" => e \in Events /\ event[e] # NoValue /\ event'[e] = event[e]
  BY DEF HookOK, Kept
<1>2. hook[h].stage # "idle" => event[e].intent \in Intents
  BY <1>1 DEF StripeTypeOK
<1>3. hook[h].stage \in {"versions", "allocations", "refunds", "commit"} =>
        event[e].type = Success /\ intent'[event[e].intent].status # "NONE"
  BY <1>1, <1>2 DEF HookOK, Kept
<1> QED BY <1>1, <1>2, <1>3 DEF HookOK

LEMMA AdvancingKeeps ==
  ASSUME StripeInv, Advances
  PROVE  StripeInv'
<1>1. \A c \in Clients : CheckoutOK(c)'
  BY CheckoutStill DEF StripeInv, Advances
<1>2. \A i \in Intents : IntentOK(i)'
  BY IntentStill DEF StripeInv, Advances
<1>3. \A e \in Events : EventOK(e)'
  BY EventStill DEF StripeInv, Advances
<1>4. \A h \in Handlers : HookOK(h)'
  BY HookStill DEF StripeInv, Advances
<1> QED BY <1>1, <1>2, <1>3, <1>4 DEF StripeInv, Advances

(* A step that posts nothing keeps the books in order. *)
LEMMA NothingPosted ==
  ASSUME StripeInv, UNCHANGED <<vars, reference, credit>>
  PROVE  /\ TypeOK' /\ RentBasics' /\ RowsStay /\ EntriesBalance' /\ ReferenceOK'
         /\ \A p \in PaymentIds : payment[p] > 0 => reference'[p] = reference[p]
<1>1. UNCHANGED <<payment, balance>>
  BY DEF vars, books
<1>2. RentBasics' /\ RowsStay
  BY RentKeepsBasics DEF StripeInv
<1>3. EntriesBalance'
  BY <1>1 DEF StripeInv, EntriesBalance
<1>4. ReferenceOK'
  BY <1>1 DEF StripeInv, ReferenceOK
<1> QED BY <1>2, <1>3, <1>4 DEF RentBasics

(* A request of the rent module. *)
LEMMA RentAdvances ==
  ASSUME StripeInv, [Next]_vars, UNCHANGED stripeVars
  PROVE  Advances
<1>1. RentBasics' /\ RowsStay /\ Accounted' = Accounted
  BY RentKeepsBasics DEF StripeInv
<1>2. UNCHANGED <<provider, event, intent, intentKey, webhookEvent, reference, credit, checkout, hook>>
  BY DEF stripeVars, stripeBooks
<1>3. StripeTypeOK'
  BY <1>1, <1>2 DEF StripeInv, StripeTypeOK, RentBasics
<1>4. EntriesBalance'
  <2>1. /\ credit \in Int /\ \A a \in Accounts : balance[a] \in Int /\ balance'[a] \in Int
    BY <1>1 DEF StripeInv, StripeTypeOK, TypeOK, BooksOK, RentBasics
  <2> QED BY <1>1, <1>2, <2>1 DEF StripeInv, EntriesBalance, Accounted, Accounts
<1>5. ReferenceOK'
  <2>1. \A p \in PaymentIds : payment[p] > 0 => payment'[p] = payment[p]
    BY <1>1 DEF RowsStay
  <2> QED BY <1>2, <2>1 DEF StripeInv, ReferenceOK
<1>6. Kept /\ UnmadeIsEmpty'
  BY <1>1, <1>2 DEF Kept, StripeInv, UnmadeIsEmpty
<1> QED BY <1>1, <1>2, <1>3, <1>4, <1>5, <1>6 DEF Advances, StripeInv

(* Creating an intent: what is asked was charged, and the intent that is      *)
(* stored is over what was asked.                                             *)
LEMMA PrepareAdvances ==
  ASSUME StripeInv, NEW c \in Clients, NEW q \in IntentRequests, Prepare(c, q)
  PROVE  Advances
<1>1. UNCHANGED <<vars, provider, event, intent, intentKey, webhookEvent, reference, credit, hook>>
  BY DEF Prepare, stripeBooks
<1>2. /\ TypeOK' /\ RentBasics' /\ RowsStay /\ EntriesBalance' /\ ReferenceOK'
      /\ \A p \in PaymentIds : payment[p] > 0 => reference'[p] = reference[p]
  BY <1>1, NothingPosted
<1>3. /\ checkout' = [checkout EXCEPT ![c] = [@ EXCEPT !.stage = "allocations", !.req = q]]
      /\ checkout \in [Clients -> CheckoutRow]
  BY DEF Prepare, StripeInv, StripeTypeOK
<1>4. StripeTypeOK'
  <2>1. [checkout[c] EXCEPT !.stage = "allocations", !.req = q] \in CheckoutRow
    BY <1>3 DEF CheckoutRow
  <2>2. checkout' \in [Clients -> CheckoutRow]
    BY <1>3, <2>1
  <2> QED BY <1>1, <1>2, <2>2 DEF StripeInv, StripeTypeOK
<1>5. ChargedOnly(q.amounts)'
  <2>1. \A o \in Included(q.amounts) : status[o] # "ABSENT"
    BY DEF Prepare, Payable
  <2>2. UNCHANGED status
    BY <1>1 DEF vars, books
  <2> QED BY <2>1, <2>2 DEF ChargedOnly, Included
<1>6. /\ checkout'[c].stage = "allocations" /\ checkout'[c].req = q
      /\ \A d \in Clients : d # c => checkout'[d] = checkout[d]
  BY <1>3 DEF CheckoutRow
<1>7. CheckoutOK(c)'
  BY <1>5, <1>6 DEF CheckoutOK
<1>8. Kept /\ UnmadeIsEmpty'
  BY <1>1, <1>2 DEF Kept, StripeInv, UnmadeIsEmpty
<1> QED BY <1>1, <1>2, <1>4, <1>6, <1>7, <1>8 DEF Advances, StripeInv

(* What is read of the relations decides whether the request goes on, and      *)
(* leaves what it asks for as it was.                                          *)
LEMMA PrepareReadsAdvance ==
  ASSUME StripeInv, NEW c \in Clients, PrepareAllocations(c) \/ PrepareRefunds(c)
  PROVE  Advances
<1>1. UNCHANGED <<vars, provider, event, intent, intentKey, webhookEvent, reference, credit, hook>>
  BY DEF PrepareAllocations, PrepareRefunds, stripeBooks
<1>2. /\ TypeOK' /\ RentBasics' /\ RowsStay /\ EntriesBalance' /\ ReferenceOK'
      /\ \A p \in PaymentIds : payment[p] > 0 => reference'[p] = reference[p]
  BY <1>1, NothingPosted
<1>3. PICK next \in CheckoutRow :
        /\ checkout' = [checkout EXCEPT ![c] = next]
        /\ next.stage \notin {"lookup", "insert"}
        /\ next.stage # "idle" => next.req = checkout[c].req /\ checkout[c].stage # "idle"
  <2>1. checkout \in [Clients -> CheckoutRow]
    BY DEF StripeInv, StripeTypeOK
  <2>2. NoCheckout \in CheckoutRow
    BY DEF NoCheckout, CheckoutRow
  <2>3. ASSUME NEW s \in {"refunds", "call"}, NEW rows \in SUBSET PaymentIds
        PROVE  /\ [checkout[c] EXCEPT !.stage = s, !.rows = rows] \in CheckoutRow
               /\ [checkout[c] EXCEPT !.stage = s, !.rows = rows].req = checkout[c].req
               /\ [checkout[c] EXCEPT !.stage = s, !.rows = rows].stage = s
    BY <2>1 DEF CheckoutRow
  <2>4. CASE PrepareAllocations(c)
    <3>1. {p \in PaymentIds : payment[p] > 0} \in SUBSET PaymentIds
      OBVIOUS
    <3>2. PICK rows \in SUBSET PaymentIds :
            checkout[c].stage = "allocations"
              /\ checkout' = [checkout EXCEPT ![c].stage = "refunds", ![c].rows = rows]
      BY <2>4, <3>1 DEF PrepareAllocations
    <3>3. checkout' =
            [checkout EXCEPT ![c] = [checkout[c] EXCEPT !.stage = "refunds", !.rows = rows]]
      BY <2>1, <3>2
    <3> QED BY <2>3, <3>2, <3>3
  <2>5. CASE checkout[c].stage = "refunds" /\ checkout' = [checkout EXCEPT ![c] = NoCheckout]
    BY <2>2, <2>5 DEF NoCheckout
  <2>6. CASE /\ checkout[c].stage = "refunds"
             /\ checkout' = [checkout EXCEPT ![c].stage = "call", ![c].rows = {}]
    <3>1. checkout' = [checkout EXCEPT ![c] = [checkout[c] EXCEPT !.stage = "call", !.rows = {}]]
      BY <2>1, <2>6
    <3>2. {} \in SUBSET PaymentIds
      OBVIOUS
    <3> QED BY <2>3, <2>6, <3>1, <3>2
  <2> QED BY <2>4, <2>5, <2>6 DEF PrepareRefunds
<1>4. /\ checkout' \in [Clients -> CheckoutRow] /\ checkout'[c] = next
      /\ \A d \in Clients : d # c => checkout'[d] = checkout[d]
  BY <1>3 DEF StripeInv, StripeTypeOK
<1>5. StripeTypeOK'
  BY <1>1, <1>2, <1>4 DEF StripeInv, StripeTypeOK
<1>6. CheckoutOK(c) /\ UNCHANGED status
  BY <1>1 DEF StripeInv, vars, books
<1>7. CheckoutOK(c)'
  BY <1>3, <1>4, <1>6 DEF CheckoutOK, ChargedOnly
<1>8. Kept /\ UnmadeIsEmpty'
  BY <1>1, <1>2 DEF Kept, StripeInv, UnmadeIsEmpty
<1> QED BY <1>1, <1>2, <1>4, <1>5, <1>7, <1>8 DEF Advances, StripeInv

LEMMA CallAdvances ==
  ASSUME StripeInv, NEW c \in Clients, CallProvider(c)
  PROVE  Advances
<1> DEFINE q == checkout[c].req
<1> DEFINE amount == UnitSum(q.amounts)
<1>1. UNCHANGED <<vars, event, intent, intentKey, webhookEvent, reference, credit, hook>>
  BY DEF CallProvider, stripeBooks
<1>2. /\ TypeOK' /\ RentBasics' /\ RowsStay /\ EntriesBalance' /\ ReferenceOK'
      /\ \A p \in PaymentIds : payment[p] > 0 => reference'[p] = reference[p]
  BY <1>1, NothingPosted
<1>3. /\ checkout[c].stage = "call" /\ q \in IntentRequests /\ ChargedOnly(q.amounts)
      /\ q.key \in Keys /\ amount \in Nat
  BY IntentRequestShape DEF StripeInv, CheckoutOK, CallProvider
<1>4. ChargedOnly(q.amounts) => \A o \in Obligations : q.amounts[o] > 0 => status'[o] # "ABSENT"
  BY <1>1 DEF ChargedOnly, vars, books
<1>5. ASSUME NEW i \in Intents,
             provider'[i].amount = amount, provider'[i].state # "none",
             checkout' = [checkout EXCEPT ![c].stage = "lookup", ![c].intent = i]
      PROVE  /\ \A d \in Clients : checkout'[d] = checkout[d] \/ CheckoutOK(d)'
             /\ checkout' \in [Clients -> CheckoutRow]
  <2>1. /\ checkout'[c].stage = "lookup" /\ checkout'[c].req = q /\ checkout'[c].intent = i
        /\ \A d \in Clients : d # c => checkout'[d] = checkout[d]
    BY <1>5 DEF StripeInv, StripeTypeOK, CheckoutRow
  <2>2. CheckoutOK(c)'
    BY <1>3, <1>4, <1>5, <2>1 DEF CheckoutOK, ChargedOnly
  <2>3. checkout \in [Clients -> CheckoutRow]
    BY DEF StripeInv, StripeTypeOK
  <2>4. checkout' = [checkout EXCEPT ![c] = [@ EXCEPT !.stage = "lookup", !.intent = i]]
    BY <1>5, <2>3
  <2>5. [checkout[c] EXCEPT !.stage = "lookup", !.intent = i] \in CheckoutRow
    BY <2>3 DEF CheckoutRow
  <2>6. checkout' \in [Clients -> CheckoutRow]
    BY <2>3, <2>4, <2>5
  <2> QED BY <2>1, <2>2, <2>6
<1>6. CASE \E i \in Intents :
             /\ provider[i].state = "none"
             /\ provider' = [provider EXCEPT ![i] =
                  [key |-> q.key, amount |-> amount, state |-> "created"]]
             /\ checkout' = [checkout EXCEPT ![c].stage = "lookup", ![c].intent = i]
  <2>1. PICK i \in Intents :
             /\ provider[i].state = "none"
             /\ provider' = [provider EXCEPT ![i] =
                  [key |-> q.key, amount |-> amount, state |-> "created"]]
             /\ checkout' = [checkout EXCEPT ![c].stage = "lookup", ![c].intent = i]
    BY <1>6
  <2>2. /\ provider'[i].amount = amount /\ provider'[i].state = "created"
        /\ \A j \in Intents : j # i => provider'[j] = provider[j]
        /\ provider' \in [Intents -> [key : Keys \cup {NoValue}, amount : Nat,
                                      state : {"none"} \cup DOMAIN EventType]]
    BY <1>3, <2>1 DEF StripeInv, StripeTypeOK, EventType
  <2>3. Kept /\ UnmadeIsEmpty'
    BY <1>1, <1>2, <2>1, <2>2 DEF Kept, StripeInv, UnmadeIsEmpty
  <2>4. StripeTypeOK' /\ \A d \in Clients : checkout'[d] = checkout[d] \/ CheckoutOK(d)'
    BY <1>1, <1>2, <1>5, <2>1, <2>2 DEF StripeInv, StripeTypeOK
  <2> QED BY <1>1, <1>2, <2>3, <2>4 DEF Advances, StripeInv
<1>7. CASE UNCHANGED provider
  <2>1. Kept /\ UnmadeIsEmpty'
    BY <1>1, <1>2, <1>7 DEF Kept, StripeInv, UnmadeIsEmpty
  <2>2. CASE checkout' = [checkout EXCEPT ![c] = NoCheckout]
    <3>1. checkout'[c].stage = "idle" /\ \A d \in Clients : d # c => checkout'[d] = checkout[d]
      BY <2>2 DEF StripeInv, StripeTypeOK, NoCheckout, CheckoutRow
    <3>2. CheckoutOK(c)'
      BY <3>1 DEF CheckoutOK
    <3>3. StripeTypeOK'
      BY <1>1, <1>2, <1>7, <2>2 DEF StripeInv, StripeTypeOK, NoCheckout, CheckoutRow
    <3> QED BY <1>1, <1>2, <2>1, <3>1, <3>2, <3>3 DEF Advances, StripeInv
  <2>3. CASE \E i \in Intents :
               /\ provider[i].key = q.key /\ provider[i].amount = amount
               /\ checkout' = [checkout EXCEPT ![c].stage = "lookup", ![c].intent = i]
    <3>1. PICK i \in Intents :
               /\ provider[i].key = q.key /\ provider[i].amount = amount
               /\ checkout' = [checkout EXCEPT ![c].stage = "lookup", ![c].intent = i]
      BY <2>3
    <3>2. provider[i].state # "none"
      BY <1>3, <3>1, IntentRequestShape DEF StripeInv, UnmadeIsEmpty
    <3>3. StripeTypeOK' /\ \A d \in Clients : checkout'[d] = checkout[d] \/ CheckoutOK(d)'
      BY <1>1, <1>2, <1>5, <1>7, <3>1, <3>2 DEF StripeInv, StripeTypeOK
    <3> QED BY <1>1, <1>2, <2>1, <3>3 DEF Advances, StripeInv
  <2> QED BY <1>6, <1>7, <2>2, <2>3 DEF CallProvider
<1> QED BY <1>6, <1>7 DEF CallProvider

LEMMA LeavingCheckoutAdvances ==
  ASSUME StripeInv, NEW c \in Clients, LookupIntent(c) \/ AbortCheckout(c)
  PROVE  Advances
<1>1. UNCHANGED <<vars, provider, event, intent, intentKey, webhookEvent, reference, credit, hook>>
  BY DEF LookupIntent, AbortCheckout, stripeBooks
<1>2. /\ TypeOK' /\ RentBasics' /\ RowsStay /\ EntriesBalance' /\ ReferenceOK'
      /\ \A p \in PaymentIds : payment[p] > 0 => reference'[p] = reference[p]
  BY <1>1, NothingPosted
<1>3. Kept /\ UnmadeIsEmpty'
  BY <1>1, <1>2 DEF Kept, StripeInv, UnmadeIsEmpty
<1>4. CASE checkout' = [checkout EXCEPT ![c] = NoCheckout]
  <2>1. checkout'[c].stage = "idle" /\ \A d \in Clients : d # c => checkout'[d] = checkout[d]
    BY <1>4 DEF StripeInv, StripeTypeOK, NoCheckout, CheckoutRow
  <2>2. CheckoutOK(c)'
    BY <2>1 DEF CheckoutOK
  <2>3. StripeTypeOK'
    BY <1>1, <1>2, <1>4 DEF StripeInv, StripeTypeOK, NoCheckout, CheckoutRow
  <2> QED BY <1>1, <1>2, <1>3, <2>1, <2>2, <2>3 DEF Advances, StripeInv
<1>5. CASE checkout[c].stage = "lookup" /\ checkout' = [checkout EXCEPT ![c].stage = "insert"]
  <2>1. /\ checkout'[c].stage = "insert"
        /\ checkout'[c].req = checkout[c].req /\ checkout'[c].intent = checkout[c].intent
        /\ \A d \in Clients : d # c => checkout'[d] = checkout[d]
    BY <1>5 DEF StripeInv, StripeTypeOK, CheckoutRow
  <2>2. UNCHANGED <<status, provider>>
    BY <1>1 DEF vars, books
  <2>3. CheckoutOK(c)
    BY DEF StripeInv
  <2>4. CheckoutOK(c)'
    BY <1>5, <2>1, <2>2, <2>3 DEF CheckoutOK, ChargedOnly
  <2>5. checkout' \in [Clients -> CheckoutRow]
    <3>1. checkout \in [Clients -> CheckoutRow]
      BY DEF StripeInv, StripeTypeOK
    <3> DEFINE next == [checkout[c] EXCEPT !.stage = "insert"]
    <3>2. next \in CheckoutRow
      BY <3>1 DEF CheckoutRow
    <3>3. checkout' = [checkout EXCEPT ![c] = next]
      BY <1>5
    <3> QED BY <3>1, <3>2, <3>3
  <2>6. StripeTypeOK'
    BY <1>1, <1>2, <2>5 DEF StripeInv, StripeTypeOK
  <2> QED BY <1>1, <1>2, <1>3, <2>1, <2>4, <2>6 DEF Advances, StripeInv
<1> QED BY <1>4, <1>5 DEF LookupIntent, AbortCheckout

LEMMA InsertAdvances ==
  ASSUME StripeInv, NEW c \in Clients, InsertIntent(c)
  PROVE  Advances
<1> DEFINE q == checkout[c].req
<1> DEFINE i == checkout[c].intent
<1>1. /\ UNCHANGED <<vars, provider, event, webhookEvent, reference, credit, hook>>
      /\ checkout' = [checkout EXCEPT ![c] = NoCheckout]
  BY DEF InsertIntent
<1>2. /\ TypeOK' /\ RentBasics' /\ RowsStay /\ EntriesBalance' /\ ReferenceOK'
      /\ \A p \in PaymentIds : payment[p] > 0 => reference'[p] = reference[p]
  BY <1>1, NothingPosted
<1>3. /\ checkout'[c].stage = "idle" /\ \A d \in Clients : d # c => checkout'[d] = checkout[d]
      /\ checkout' \in [Clients -> CheckoutRow]
  BY <1>1 DEF StripeInv, StripeTypeOK, NoCheckout, CheckoutRow
<1>4. \A d \in Clients : checkout'[d] = checkout[d] \/ CheckoutOK(d)'
  BY <1>3 DEF CheckoutOK
<1>5. CheckoutOK(c)
  BY DEF StripeInv
<1>6. /\ q \in IntentRequests /\ i \in Intents
      /\ ChargedOnly(q.amounts) /\ provider[i].state # "none"
      /\ provider[i].amount = UnitSum(q.amounts)
  BY <1>5 DEF InsertIntent, CheckoutOK
<1>7. /\ q.actor \in Actors /\ q.key \in Keys /\ q.amounts \in Amounts
      /\ UnitSum(q.amounts) > 0
  BY <1>6, IntentRequestShape
<1>8. CASE UNCHANGED <<intent, intentKey>>
  <2>1. Kept /\ UnmadeIsEmpty'
    BY <1>1, <1>2, <1>8 DEF Kept, StripeInv, UnmadeIsEmpty
  <2>2. StripeTypeOK'
    BY <1>1, <1>2, <1>3, <1>8 DEF StripeInv, StripeTypeOK
  <2> QED BY <1>1, <1>2, <1>4, <1>8, <2>1, <2>2 DEF Advances, StripeInv
<1>9. CASE /\ intent[i].status = "NONE"
           /\ intent' = [intent EXCEPT ![i] =
                [status |-> "REQUIRES_PAYMENT_METHOD", amounts |-> q.amounts,
                 payment |-> NoValue]]
           /\ intentKey' = intentKey \cup {[actor |-> q.actor, key |-> q.key, intent |-> i]}
  <2>1. /\ intent'[i].status = "REQUIRES_PAYMENT_METHOD" /\ intent'[i].amounts = q.amounts
        /\ intent'[i].payment = NoValue
        /\ \A j \in Intents : j # i => intent'[j] = intent[j]
        /\ intent' \in [Intents -> [status : IntentStatus, amounts : Amounts,
                                    payment : PaymentIds \cup {NoValue}]]
    BY <1>6, <1>7, <1>9 DEF StripeInv, StripeTypeOK, IntentStatus
  <2>2. Kept /\ UnmadeIsEmpty'
    BY <1>1, <1>2, <1>9, <2>1 DEF Kept, StripeInv, UnmadeIsEmpty
  <2>3. intentKey' \subseteq [actor : Actors, key : Keys, intent : Intents]
    BY <1>6, <1>7, <1>9 DEF StripeInv, StripeTypeOK
  <2>4. StripeTypeOK'
    BY <1>1, <1>2, <1>3, <2>1, <2>3 DEF StripeInv, StripeTypeOK
  <2>5. UNCHANGED <<status, provider>>
    BY <1>1 DEF vars, books
  <2>6. \A o \in Obligations : q.amounts[o] > 0 => status'[o] # "ABSENT"
    BY <1>6, <2>5 DEF ChargedOnly
  <2>7. provider'[i].state # "none" /\ provider'[i].amount = UnitSum(q.amounts)
    BY <1>6, <2>5
  <2>8. \A j \in Intents : intent'[j] = intent[j] \/ IntentOK(j)'
    BY <1>6, <1>7, <2>1, <2>6, <2>7 DEF IntentOK, ChargedOnly
  <2> QED BY <1>1, <1>2, <1>4, <2>2, <2>4, <2>8 DEF Advances, StripeInv
<1> QED BY <1>8, <1>9 DEF InsertIntent

(* The provider: it never forgets an intent, nor a success.                   *)
LEMMA ProviderAdvances ==
  ASSUME StripeInv, NEW i \in Intents, ProviderStep(i) \/ CollectElsewhere(i)
  PROVE  Advances
<1>1. UNCHANGED <<vars, event, intent, intentKey, webhookEvent, reference, credit, checkout, hook>>
  BY DEF ProviderStep, Settle, CollectElsewhere, stripeBooks
<1>2. /\ TypeOK' /\ RentBasics' /\ RowsStay /\ EntriesBalance' /\ ReferenceOK'
      /\ \A p \in PaymentIds : payment[p] > 0 => reference'[p] = reference[p]
  BY <1>1, NothingPosted
<1>3. /\ \A j \in Intents : j # i => provider'[j] = provider[j]
      /\ provider[i].state # "succeeded"
      /\ provider[i].state # "none" => provider'[i].amount = provider[i].amount
      /\ provider'[i].state # "none"
      /\ provider' \in [Intents -> [key : Keys \cup {NoValue}, amount : Nat,
                                    state : {"none"} \cup DOMAIN EventType]]
  <2>1. provider \in [Intents -> [key : Keys \cup {NoValue}, amount : Nat,
                                  state : {"none"} \cup DOMAIN EventType]]
    BY DEF StripeInv, StripeTypeOK
  <2>2. CASE provider[i].state = "none" /\ CollectElsewhere(i)
    BY <2>1, <2>2 DEF CollectElsewhere, EventType
  <2>3. ASSUME NEW from \in {{"created", "failed"}, {"processing"}},
               NEW to \in {"processing", "failed", "succeeded", "canceled"}, Settle(i, from, to)
        PROVE  /\ provider[i].state \in {"created", "failed", "processing"}
               /\ provider' = [provider EXCEPT ![i].state = to]
    BY <2>3 DEF Settle
  <2>4. ASSUME provider[i].state \in {"created", "failed", "processing"},
               NEW to \in {"processing", "failed", "succeeded", "canceled"},
               provider' = [provider EXCEPT ![i].state = to]
        PROVE  <1>3
    BY <2>1, <2>4 DEF EventType
  <2>5. CASE ProviderStep(i)
    <3>1. \E from \in {{"created", "failed"}, {"processing"}},
             to \in {"processing", "failed", "succeeded", "canceled"} : Settle(i, from, to)
      BY <2>5 DEF ProviderStep
    <3> QED BY <3>1, <2>3, <2>4
  <2>6. CollectElsewhere(i) => provider[i].state = "none"
    BY DEF CollectElsewhere
  <2> QED BY <2>2, <2>5, <2>6
<1>4. Kept
  BY <1>1, <1>2, <1>3 DEF Kept
<1>5. UnmadeIsEmpty'
  BY <1>3 DEF StripeInv, UnmadeIsEmpty
<1>6. StripeTypeOK'
  BY <1>1, <1>2, <1>3 DEF StripeInv, StripeTypeOK
<1> QED BY <1>1, <1>2, <1>4, <1>5, <1>6 DEF Advances, StripeInv

LEMMA IssueAdvances ==
  ASSUME StripeInv, NEW i \in Intents, NEW e \in Events, Issue(i, e)
  PROVE  Advances
<1> DEFINE fact == [type |-> EventType[provider[i].state], intent |-> i]
<1>1. UNCHANGED <<vars, provider, intent, intentKey, webhookEvent, reference, credit, checkout, hook>>
  BY DEF Issue, stripeBooks
<1>2. /\ TypeOK' /\ RentBasics' /\ RowsStay /\ EntriesBalance' /\ ReferenceOK'
      /\ \A p \in PaymentIds : payment[p] > 0 => reference'[p] = reference[p]
  BY <1>1, NothingPosted
<1>3. /\ event[e] = NoValue /\ event'[e] = fact /\ DOMAIN event' = Events
      /\ \A f \in Events : f # e => event'[f] = event[f]
      /\ provider[i].state \in DOMAIN EventType
  BY DEF Issue, StripeInv
<1>4. fact \in Facts /\ (fact.type = Success => provider[i].state = "succeeded")
  BY <1>3 DEF EventType, Facts, Success
<1>5. EventOK(e)'
  BY <1>1, <1>3, <1>4 DEF EventOK
<1>6. Kept /\ UnmadeIsEmpty'
  BY <1>1, <1>2, <1>3 DEF Kept, StripeInv, UnmadeIsEmpty
<1>7. StripeTypeOK'
  <2>1. \A f \in Events : event'[f] = NoValue \/ event'[f].intent \in Intents
    BY <1>3 DEF StripeInv, StripeTypeOK
  <2> QED BY <1>1, <1>2, <2>1 DEF StripeInv, StripeTypeOK
<1> QED BY <1>1, <1>2, <1>3, <1>5, <1>6, <1>7 DEF Advances, StripeInv

-----------------------------------------------------------------------------
(* Deliveries. *)

LEMMA NoHookType == NoHook \in HookRow /\ NoHook.stage = "idle" /\ NoHook.event = NoValue
BY DEF NoHook, HookRow, Unseen

LEMMA HookType ==
  ASSUME StripeInv, NEW h \in Handlers
  PROVE  /\ hook \in [Handlers -> HookRow] /\ hook[h] \in HookRow
         /\ hook[h].seen.version \in [Obligations -> Nat]
         /\ hook[h].seen.total \in [Obligations -> Int]
         /\ hook[h].stage # "idle" => /\ hook[h].event \in Events
                                      /\ event[hook[h].event] \in Facts
                                      /\ event[hook[h].event].intent \in Intents
<1>1. hook \in [Handlers -> HookRow]
  BY DEF StripeInv, StripeTypeOK, HookRow
<1>2. HookOK(h) /\ \A e \in Events : EventOK(e)
  BY DEF StripeInv
<1>3. hook[h].stage # "idle" =>
        hook[h].event \in Events /\ event[hook[h].event] \in Facts
  BY <1>2 DEF HookOK, EventOK
<1>4. \A f \in Facts : f.intent \in Intents
  BY DEF Facts
<1> QED BY <1>1, <1>3, <1>4 DEF HookRow

(* What a delivery adds up is a number, whichever rows it found. *)
LEMMA NetOfType ==
  ASSUME BooksOK, NEW rows \in SUBSET PaymentIds, NEW o \in Obligations
  PROVE  NetOf(rows, o) \in Int
<1> DEFINE of == {f \in RefundIds : refundOf[f] \in rows}
<1>1. IsFiniteSet(rows) /\ IsFiniteSet(of)
  BY SetsAssumption, FS_Subset
<1>2. [p \in rows |-> allocation[p][o]] \in [rows -> Nat]
  BY DEF BooksOK, Amounts
<1>3. [r \in of |-> refundAllocation[r][o]] \in [of -> Nat]
  BY DEF BooksOK, Amounts
<1> QED BY <1>1, <1>2, <1>3, UnitSumType DEF NetOf

LEMMA FinishType ==
  ASSUME StripeInv, NEW h \in Handlers, hook[h].stage # "idle",
         NEW outcome \in {"PROCESSED", "FAILED"}, Finish(h, outcome)
  PROVE  /\ webhookEvent' \in [Events -> {"NONE", "PROCESSED", "FAILED"}]
         /\ hook' = [hook EXCEPT ![h] = NoHook]
BY HookType DEF Finish, StripeInv, StripeTypeOK

(* A delivery that only reads keeps what it knows in its own row. *)
LEMMA ReadingAdvances ==
  ASSUME StripeInv, NEW h \in Handlers,
         hook' \in [Handlers -> HookRow], \A g \in Handlers : g # h => hook'[g] = hook[g],
         UNCHANGED <<vars, provider, event, intent, intentKey, reference, credit, checkout>>,
         webhookEvent' \in [Events -> {"NONE", "PROCESSED", "FAILED"}],
         hook'[h].stage # "idle" =>
           hook'[h].event \in Events /\ event[hook'[h].event] # NoValue,
         hook'[h].stage \in {"versions", "allocations", "refunds", "commit"} =>
           /\ event[hook'[h].event].type = Success
           /\ intent[event[hook'[h].event].intent].status # "NONE"
  PROVE  Advances
<1>1. /\ TypeOK' /\ RentBasics' /\ RowsStay /\ EntriesBalance' /\ ReferenceOK'
      /\ \A p \in PaymentIds : payment[p] > 0 => reference'[p] = reference[p]
  BY NothingPosted
<1>2. Kept /\ UnmadeIsEmpty'
  BY <1>1 DEF Kept, StripeInv, UnmadeIsEmpty
<1>3. StripeTypeOK'
  BY <1>1 DEF StripeInv, StripeTypeOK, HookRow
<1>4. HookOK(h)'
  BY DEF HookOK
<1> QED BY <1>1, <1>2, <1>3, <1>4 DEF Advances, StripeInv

LEMMA DeliverAdvances ==
  ASSUME StripeInv, NEW h \in Handlers, NEW e \in Events, Deliver(h, e)
  PROVE  Advances
<1> DEFINE row == [stage |-> "load", event |-> e, rows |-> {}, seen |-> Unseen]
<1>1. /\ UNCHANGED <<vars, provider, event, intent, intentKey, webhookEvent, reference, credit, checkout>>
      /\ hook' = [hook EXCEPT ![h] = row] /\ event[e] # NoValue
  BY DEF Deliver, stripeBooks
<1>2. row \in HookRow /\ row.stage = "load" /\ row.event = e
  <2>1. {} \in SUBSET PaymentIds /\ Unseen.version \in [Obligations -> Nat]
        /\ Unseen.total \in [Obligations -> Int]
        /\ Unseen = [version |-> Unseen.version, total |-> Unseen.total]
    BY DEF Unseen
  <2> QED BY <2>1 DEF HookRow
<1>3. webhookEvent' \in [Events -> {"NONE", "PROCESSED", "FAILED"}]
  BY <1>1 DEF StripeInv, StripeTypeOK
<1>4. /\ hook' \in [Handlers -> HookRow] /\ hook'[h] = row
      /\ \A g \in Handlers : g # h => hook'[g] = hook[g]
  BY <1>1, <1>2, HookType
<1> HIDE DEF row
<1> QED BY <1>1, <1>2, <1>3, <1>4, ReadingAdvances

LEMMA LeavingHookAdvances ==
  ASSUME StripeInv, NEW h \in Handlers,
         \/ AbortHook(h)
         \/ IgnoreEvent(h)
         \/ LoadIntent(h) /\ \E outcome \in {"PROCESSED", "FAILED"} : Finish(h, outcome)
  PROVE  Advances
<1>1. /\ UNCHANGED <<vars, provider, event, intent, intentKey, reference, credit, checkout>>
      /\ hook[h].stage # "idle"
  BY DEF AbortHook, IgnoreEvent, LoadIntent, stripeBooks
<1>2. /\ webhookEvent' \in [Events -> {"NONE", "PROCESSED", "FAILED"}]
      /\ hook' = [hook EXCEPT ![h] = NoHook]
  <2>1. CASE AbortHook(h)
    BY <2>1 DEF AbortHook, stripeBooks, StripeInv, StripeTypeOK
  <2>2. CASE \E outcome \in {"PROCESSED", "FAILED"} : Finish(h, outcome)
    BY <1>1, <2>2, FinishType
  <2> QED BY <2>1, <2>2 DEF IgnoreEvent
<1>3. /\ hook' \in [Handlers -> HookRow] /\ hook'[h].stage = "idle"
      /\ \A g \in Handlers : g # h => hook'[g] = hook[g]
  BY <1>2, NoHookType, HookType
<1> QED BY <1>1, <1>2, <1>3, ReadingAdvances

LEMMA LoadingAdvances ==
  ASSUME StripeInv, NEW h \in Handlers,
         \/ LoadIntent(h) /\ ~\E outcome \in {"PROCESSED", "FAILED"} : Finish(h, outcome)
         \/ LoadIntentVersions(h) \/ LoadIntentAllocations(h) \/ LoadIntentRefunds(h)
  PROVE  Advances
<1> DEFINE e == hook[h].event
<1> DEFINE old == hook[h].seen
<1> DEFINE wanted == Included(HookAmounts(h))
<1> DEFINE total == [o \in Obligations |->
                       IF o \in wanted THEN NetOf(hook[h].rows, o) ELSE 0]
<1> DEFINE found == {p \in PaymentIds : payment[p] > 0}
<1>1. /\ UNCHANGED <<vars, provider, event, intent, intentKey, webhookEvent, reference, credit, checkout>>
      /\ hook[h].stage \in {"load", "versions", "allocations", "refunds"}
  BY DEF LoadIntent, LoadIntentVersions, LoadIntentAllocations, LoadIntentRefunds, stripeBooks
<1>2. webhookEvent' \in [Events -> {"NONE", "PROCESSED", "FAILED"}]
  BY <1>1 DEF StripeInv, StripeTypeOK
<1>3. /\ e \in Events /\ event[e] # NoValue
      /\ hook[h].stage \in {"versions", "allocations", "refunds"} =>
           event[e].type = Success /\ intent[event[e].intent].status # "NONE"
  <2>1. HookOK(h)
    BY DEF StripeInv
  <2> QED BY <1>1, <2>1 DEF HookOK
<1>4. event[e].type = Success /\ intent[event[e].intent].status # "NONE"
  BY <1>3 DEF LoadIntent, LoadIntentVersions, LoadIntentAllocations, LoadIntentRefunds, Success
<1>5. VersionsOf(wanted) \in [Obligations -> Nat] /\ total \in [Obligations -> Int]
  <2>1. BooksOK /\ hook[h].rows \subseteq PaymentIds
    BY HookType DEF StripeInv, StripeTypeOK, TypeOK, HookRow
  <2>2. \A o \in Obligations : NetOf(hook[h].rows, o) \in Int
    BY <2>1, NetOfType
  <2> QED BY <2>1, <2>2 DEF VersionsOf, BooksOK, Versions
<1>6. \/ hook' = [hook EXCEPT ![h].stage = "versions"]
      \/ hook' = [hook EXCEPT ![h].stage = "allocations", ![h].seen.version = VersionsOf(wanted)]
      \/ hook' = [hook EXCEPT ![h].stage = "refunds", ![h].rows = found]
      \/ hook' = [hook EXCEPT ![h].stage = "commit", ![h].rows = {}, ![h].seen.total = total]
  BY DEF LoadIntent, LoadIntentVersions, LoadIntentAllocations, LoadIntentRefunds
<1>7. /\ hook' \in [Handlers -> HookRow]
      /\ hook'[h].event = e /\ \A g \in Handlers : g # h => hook'[g] = hook[g]
  <2>1. hook \in [Handlers -> HookRow] /\ hook[h] \in HookRow
    BY HookType
  <2>0. found \in SUBSET PaymentIds /\ {} \in SUBSET PaymentIds
    OBVIOUS
  <2> HIDE DEF total, wanted, found
  <2>2. CASE hook' = [hook EXCEPT ![h].stage = "versions"]
    BY <2>1, <2>2 DEF HookRow
  <2>3. CASE hook' = [hook EXCEPT ![h].stage = "allocations",
                                  ![h].seen.version = VersionsOf(wanted)]
    BY <1>5, <2>1, <2>3 DEF HookRow
  <2>4. CASE hook' = [hook EXCEPT ![h].stage = "refunds", ![h].rows = found]
    BY <2>0, <2>1, <2>4 DEF HookRow
  <2>5. CASE hook' = [hook EXCEPT ![h].stage = "commit", ![h].rows = {}, ![h].seen.total = total]
    BY <1>5, <2>0, <2>1, <2>5 DEF HookRow
  <2> QED BY <1>6, <2>2, <2>3, <2>4, <2>5
<1> QED BY <1>1, <1>2, <1>3, <1>4, <1>7, ReadingAdvances

-----------------------------------------------------------------------------
(* What a success posts: the amount of its intent, in any case. *)

Receives(p, amounts) ==
  /\ payment[p] = 0 /\ payment' = [payment EXCEPT ![p] = UnitSum(amounts)]
  /\ \A j \in Items : j # p => item'[j] = item[j]
  /\ item' \in [Items -> ItemRow]
  /\ UNCHANGED <<refundOf, refundAllocation, idem, session>>

Allocates(p, amounts) ==
  /\ Receives(p, amounts)
  /\ allocation' = [allocation EXCEPT ![p] = amounts]
  /\ \E updated \in SUBSET Included(amounts), total \in [Obligations -> Int] :
       /\ status' = [o \in Obligations |->
            IF o \in updated THEN PaidStatus(total[o] + amounts[o], o) ELSE status[o]]
       /\ Bump(updated)
  /\ Post("CASH", "RENT_RECEIVABLE", UnitSum(amounts))
  /\ UNCHANGED credit

Credits(p, amounts) ==
  /\ Receives(p, amounts)
  /\ balance' = [balance EXCEPT !["CASH"] = @ + UnitSum(amounts)]
  /\ credit' = credit - UnitSum(amounts)
  /\ UNCHANGED <<allocation, status, version>>

Received(p, amounts) ==
  /\ RentBasics' /\ RowsStay /\ EntriesBalance' /\ credit' \in Int
  /\ payment'[p] = UnitSum(amounts) /\ allocation'[p] \in {amounts, Unseen.total}
  /\ \A q \in PaymentIds : q # p => payment'[q] = payment[q]

LEMMA ReceivingFacts ==
  ASSUME TypeOK, RowsAreClean, NEW p \in PaymentIds, NEW amounts \in Amounts,
         UnitSum(amounts) > 0, Receives(p, amounts)
  PROVE  /\ UnitSum(amounts) \in Nat
         /\ payment' \in [PaymentIds -> Nat] /\ payment'[p] = UnitSum(amounts)
         /\ \A q \in PaymentIds : q # p => payment'[q] = payment[q]
         /\ \A o \in Obligations : allocation[p][o] = 0
         /\ \A f \in RefundIds : item'[f] = item[f]
         /\ QueueOK' /\ SessionOK'
<1>1. UnitSum(amounts) \in Nat
  BY AmountsPositive
<1>2. /\ payment' \in [PaymentIds -> Nat] /\ payment'[p] = UnitSum(amounts)
      /\ \A q \in PaymentIds : q # p => payment'[q] = payment[q]
  BY <1>1 DEF Receives, TypeOK, BooksOK
<1>3. \A o \in Obligations : allocation[p][o] = 0
  BY DEF Receives, RowsAreClean, UnusedIsEmpty
<1>4. \A f \in RefundIds : f \in Items /\ f # p
  BY SetsAssumption DEF Items
<1>5. \A f \in RefundIds : item'[f] = item[f]
  BY <1>4 DEF Receives
<1>6. QueueOK'
  BY DEF Receives, TypeOK, QueueOK, IdempotencyRecord
<1>7. SessionOK'
  BY DEF Receives, TypeOK, SessionOK, session
<1> QED BY <1>1, <1>2, <1>3, <1>5, <1>6, <1>7

LEMMA ReceivingKeepsClean ==
  ASSUME TypeOK, RowsAreClean, NEW p \in PaymentIds, NEW amounts \in Amounts,
         UnitSum(amounts) > 0, Receives(p, amounts),
         \A q \in PaymentIds : q # p => allocation'[q] = allocation[q]
  PROVE  UnusedIsEmpty'
<1>1. /\ payment'[p] > 0 /\ \A q \in PaymentIds : q # p => payment'[q] = payment[q]
      /\ \A f \in RefundIds : item'[f] = item[f]
  BY ReceivingFacts
<1>2. \A q \in PaymentIds : q # p => item'[q] = item[q]
  BY DEF Receives, Items
<1>3. UNCHANGED <<refundOf, refundAllocation>>
  BY DEF Receives
<1> QED BY <1>1, <1>2, <1>3 DEF RowsAreClean, UnusedIsEmpty

LEMMA AllocatingIsReceived ==
  ASSUME RentBasics, EntriesBalance, credit \in Int,
         NEW p \in PaymentIds, NEW amounts \in Amounts,
         UnitSum(amounts) > 0, ChargedOnly(amounts), Allocates(p, amounts)
  PROVE  Received(p, amounts)
<1>1. /\ TypeOK /\ BooksOK /\ RowsAreClean /\ UnusedIsEmpty /\ AbsentIsNew
      /\ AllocatedIsCharged /\ LedgerAgrees
      /\ \A c \in Clients : RefundsWhatWasPaid(c)
  BY DEF RentBasics, TypeOK, RowsAreClean
<1>2. /\ Receives(p, amounts)
      /\ payment[p] = 0 /\ payment' = [payment EXCEPT ![p] = UnitSum(amounts)]
      /\ allocation' = [allocation EXCEPT ![p] = amounts]
      /\ Post("CASH", "RENT_RECEIVABLE", UnitSum(amounts))
      /\ UNCHANGED <<refundOf, refundAllocation, stage, req, credit>>
  BY DEF Allocates, Receives, session
<1>3. /\ UnitSum(amounts) \in Nat
      /\ payment' \in [PaymentIds -> Nat] /\ payment'[p] = UnitSum(amounts)
      /\ \A q \in PaymentIds : q # p => payment'[q] = payment[q]
      /\ QueueOK' /\ SessionOK'
  BY <1>1, <1>2, ReceivingFacts
<1>4. /\ allocation' \in [PaymentIds -> Amounts] /\ allocation'[p] = amounts
      /\ \A q \in PaymentIds : q # p => allocation'[q] = allocation[q]
  BY <1>1, <1>2 DEF BooksOK
<1>5. PICK updated \in SUBSET Included(amounts), total \in [Obligations -> Int] :
        /\ status' = [o \in Obligations |->
             IF o \in updated THEN PaidStatus(total[o] + amounts[o], o) ELSE status[o]]
        /\ Bump(updated)
  BY DEF Allocates
<1>6. /\ status' \in [Obligations -> {"ABSENT", "OPEN", "PARTIALLY_PAID", "PAID"}]
      /\ version' \in Versions
  <2> DEFINE new == [o \in Obligations |-> PaidStatus(total[o] + amounts[o], o)]
  <2>1. \A o \in Obligations : new[o] \in {"OPEN", "PARTIALLY_PAID", "PAID"}
    BY DEF PaidStatus
  <2>2. status' = [o \in Obligations |-> IF o \in updated THEN new[o] ELSE status[o]]
    BY <1>5
  <2> HIDE DEF new
  <2> QED BY <1>1, <1>5, <2>1, <2>2, StatusType
<1>7. \A o \in Obligations :
        /\ o \in updated => status[o] # "ABSENT" /\ status'[o] # "ABSENT"
        /\ o \notin updated => status'[o] = status[o] /\ version'[o] = version[o]
  BY <1>5 DEF Bump, PaidStatus, ChargedOnly, Included
<1>8. TypeOK'
  <2>1. balance' \in [Accounts -> Int]
    BY <1>1, <1>2, <1>3, PostType DEF Accounts
  <2> QED BY <1>1, <1>2, <1>3, <1>4, <1>6, <2>1 DEF TypeOK, BooksOK
<1>9. RowsAreClean'
  <2>1. UnusedIsEmpty'
    BY <1>1, <1>2, <1>4, ReceivingKeepsClean
  <2>2. AbsentIsNew'
    BY <1>1, <1>7 DEF AbsentIsNew
  <2> QED BY <2>1, <2>2 DEF RowsAreClean
<1>10. AllocatedIsCharged'
  <2>1. SUFFICES ASSUME NEW q \in PaymentIds, NEW o \in Obligations, allocation'[q][o] > 0
                 PROVE  status'[o] # "ABSENT"
    BY DEF AllocatedIsCharged
  <2>2. status[o] # "ABSENT"
    BY <1>1, <1>4, <2>1 DEF AllocatedIsCharged, ChargedOnly
  <2> QED BY <1>7, <2>2
<1>11. LedgerAgrees'
  <2>1. \A o \in Obligations : Gross(o)' = Gross(o) + amounts[o]
    BY <1>1, <1>2, GrossGrows
  <2>2. \A o \in Obligations : Refunded(o)' = Refunded(o)
    BY <1>2 DEF Refunded
  <2> QED BY <1>1, <1>2, <1>7, <2>1, <2>2, ReceiptKeepsLedger
<1>12. RowsStay
  <2>1. \A q \in PaymentIds : payment[q] > 0 => q # p
    BY <1>2
  <2> QED BY <1>2, <1>3, <1>4, <1>7, <2>1 DEF RowsStay
<1>13. \A c \in Clients : RefundsWhatWasPaid(c)'
  BY <1>1, <1>2, <1>12, RefundStaysChecked
<1>14. EntriesBalance'
  <2>1. Accounted' = Accounted
    BY <1>1, <1>2, <1>3, PostKeepsSum DEF Accounts
  <2>2. \A a \in Accounts : balance[a] \in Int /\ balance'[a] \in Int
    BY <1>1, <1>8 DEF TypeOK, BooksOK
  <2> QED BY <1>2, <2>1, <2>2 DEF EntriesBalance, Accounted, Accounts
<1> QED BY <1>2, <1>3, <1>4, <1>8, <1>9, <1>10, <1>11, <1>12, <1>13, <1>14
        DEF Received, RentBasics

LEMMA CreditingIsReceived ==
  ASSUME RentBasics, EntriesBalance, credit \in Int,
         NEW p \in PaymentIds, NEW amounts \in Amounts,
         UnitSum(amounts) > 0, Credits(p, amounts)
  PROVE  Received(p, amounts)
<1>1. /\ TypeOK /\ BooksOK /\ RowsAreClean /\ AbsentIsNew
      /\ AllocatedIsCharged /\ LedgerAgrees
      /\ \A c \in Clients : RefundsWhatWasPaid(c)
  BY DEF RentBasics, TypeOK, RowsAreClean
<1>2. /\ Receives(p, amounts)
      /\ payment[p] = 0 /\ payment' = [payment EXCEPT ![p] = UnitSum(amounts)]
      /\ balance' = [balance EXCEPT !["CASH"] = balance["CASH"] + UnitSum(amounts)]
      /\ credit' = credit - UnitSum(amounts)
      /\ UNCHANGED <<status, version, allocation, refundOf, refundAllocation, stage, req>>
  BY DEF Credits, Receives, session
<1>3. /\ UnitSum(amounts) \in Nat
      /\ payment' \in [PaymentIds -> Nat] /\ payment'[p] = UnitSum(amounts)
      /\ \A q \in PaymentIds : q # p => payment'[q] = payment[q]
      /\ \A o \in Obligations : allocation[p][o] = 0
      /\ QueueOK' /\ SessionOK'
  BY <1>1, <1>2, ReceivingFacts
<1>4. /\ balance["CASH"] \in Int /\ balance["RENT_RECEIVABLE"] \in Int
      /\ balance["RENT_REVENUE"] \in Int
      /\ balance' \in [Accounts -> Int]
      /\ balance'["CASH"] = balance["CASH"] + UnitSum(amounts)
      /\ balance'["RENT_RECEIVABLE"] = balance["RENT_RECEIVABLE"]
      /\ balance'["RENT_REVENUE"] = balance["RENT_REVENUE"]
  BY <1>1, <1>2, <1>3 DEF BooksOK, Accounts
<1>5. TypeOK'
  BY <1>1, <1>2, <1>3, <1>4 DEF TypeOK, BooksOK
<1>6. RowsAreClean'
  <2>1. UnusedIsEmpty'
    BY <1>1, <1>2, ReceivingKeepsClean
  <2>2. AbsentIsNew'
    BY <1>1, <1>2 DEF AbsentIsNew
  <2> QED BY <2>1, <2>2 DEF RowsAreClean
<1>7. AllocatedIsCharged'
  BY <1>1, <1>2 DEF AllocatedIsCharged
<1>8. LedgerAgrees'
  <2>1. \A o \in Obligations : Gross(o)' = Gross(o) /\ Refunded(o)' = Refunded(o)
    BY <1>2 DEF Gross, Refunded
  <2>2. /\ ChargedTable' = ChargedTable /\ GrossTable' = GrossTable
        /\ RefundedTable' = RefundedTable
    BY <1>2, <2>1 DEF ChargedTable, GrossTable, RefundedTable
  <2>3. UnitSum(payment)' = UnitSum(payment) + UnitSum(amounts)
    BY <1>1, <1>2, <1>3, PaymentAdds
  <2>4. UnitSum(RefundedTable) \in Nat /\ UnitSum(payment) \in Nat
    BY <1>1, TablesType
  <2>5. /\ balance'["RENT_REVENUE"] = 0 - UnitSum(ChargedTable)'
        /\ balance'["CASH"] = UnitSum(payment)' - UnitSum(RefundedTable)'
        /\ balance'["RENT_RECEIVABLE"] =
             UnitSum(ChargedTable)' - UnitSum(GrossTable)' + UnitSum(RefundedTable)'
    BY <1>1, <1>3, <1>4, <2>2, <2>3, <2>4, LedgerByTables
  <2> QED BY <2>5 DEF LedgerAgrees, ChargedTable, GrossTable, RefundedTable
<1>9. RowsStay
  <2>1. \A q \in PaymentIds : payment[q] > 0 => q # p
    BY <1>2
  <2> QED BY <1>2, <1>3, <2>1 DEF RowsStay
<1>10. \A c \in Clients : RefundsWhatWasPaid(c)'
  BY <1>1, <1>2, <1>9, RefundStaysChecked
<1>11. EntriesBalance'
  BY <1>2, <1>3, <1>4 DEF EntriesBalance
<1>12. allocation'[p] = Unseen.total
  BY <1>1, <1>2, <1>3 DEF BooksOK, Amounts, Unseen
<1>13. credit' \in Int
  BY <1>2, <1>3
<1> QED BY <1>3, <1>5, <1>6, <1>7, <1>8, <1>9, <1>10, <1>11, <1>12, <1>13
        DEF Received, RentBasics

-----------------------------------------------------------------------------
(* The deliveries that write. *)

LEMMA StatusAfterType ==
  ASSUME NEW t \in DOMAIN StatusAfter
  PROVE  StatusAfter[t] \in {"PROCESSING", "CANCELED", "REQUIRES_PAYMENT_METHOD"}
<1>1. t \in {"payment_intent.processing", "payment_intent.canceled",
             "payment_intent.payment_failed"}
  BY DEF StatusAfter
<1>2. CASE t = "payment_intent.processing"
  <2>1. StatusAfter[t] = "PROCESSING"
    BY <1>2 DEF StatusAfter
  <2> QED BY <2>1
<1>3. CASE t = "payment_intent.canceled"
  <2>1. StatusAfter[t] = "CANCELED"
    BY <1>3 DEF StatusAfter
  <2> QED BY <2>1
<1>4. CASE t = "payment_intent.payment_failed"
  <2>1. StatusAfter[t] = "REQUIRES_PAYMENT_METHOD"
    BY <1>4 DEF StatusAfter
  <2> QED BY <2>1
<1> QED BY <1>1, <1>2, <1>3, <1>4

(* A status is only written where there is no payment, and is never a success. *)
LEMMA UpdatingAdvances ==
  ASSUME StripeInv, NEW h \in Handlers, UpdateIntentStatus(h)
  PROVE  Advances
<1> DEFINE e == event[hook[h].event]
<1>1. /\ UNCHANGED <<vars, provider, event, intentKey, reference, credit, checkout>>
      /\ hook[h].stage # "idle" /\ e.type \in DOMAIN StatusAfter
      /\ Finish(h, "PROCESSED")
  BY DEF UpdateIntentStatus
<1>2. /\ TypeOK' /\ RentBasics' /\ RowsStay /\ EntriesBalance' /\ ReferenceOK'
      /\ \A p \in PaymentIds : payment[p] > 0 => reference'[p] = reference[p]
  BY <1>1, NothingPosted
<1>3. /\ webhookEvent' \in [Events -> {"NONE", "PROCESSED", "FAILED"}]
      /\ hook' = [hook EXCEPT ![h] = NoHook] /\ e.intent \in Intents
  BY <1>1, FinishType, HookType
<1>4. /\ hook' \in [Handlers -> HookRow] /\ hook'[h].stage = "idle"
      /\ \A g \in Handlers : g # h => hook'[g] = hook[g]
  BY <1>3, NoHookType, HookType
<1>5. HookOK(h)'
  BY <1>4 DEF HookOK
<1>6. PICK i \in Intents, s \in {"PROCESSING", "CANCELED", "REQUIRES_PAYMENT_METHOD"} :
        intent' = IF StillUnpaid(i) THEN [intent EXCEPT ![i].status = s] ELSE intent
  <2>1. intent' = IF StillUnpaid(e.intent)
                  THEN [intent EXCEPT ![e.intent].status = StatusAfter[e.type]] ELSE intent
    BY DEF UpdateIntentStatus
  <2>2. StatusAfter[e.type] \in {"PROCESSING", "CANCELED", "REQUIRES_PAYMENT_METHOD"}
    BY <1>1, StatusAfterType
  <2> HIDE DEF e
  <2> QED BY <1>3, <2>1, <2>2
<1>7. /\ intent' \in [Intents -> [status : IntentStatus, amounts : Amounts,
                                  payment : PaymentIds \cup {NoValue}]]
      /\ \A j \in Intents :
           \/ intent'[j] = intent[j]
           \/ /\ intent[j].status # "NONE" /\ intent'[j].status # "NONE"
              /\ intent'[j].amounts = intent[j].amounts
              /\ intent'[j].status # "SUCCEEDED" /\ intent'[j].payment = NoValue
  <2>1. intent \in [Intents -> [status : IntentStatus, amounts : Amounts,
                                payment : PaymentIds \cup {NoValue}]]
    BY DEF StripeInv, StripeTypeOK
  <2>2. CASE ~StillUnpaid(i)
    BY <1>6, <2>1, <2>2
  <2>3. CASE StillUnpaid(i)
    <3>1. /\ intent[i].status # "NONE" /\ intent[i].payment = NoValue
          /\ intent' = [intent EXCEPT ![i].status = s]
      BY <1>6, <2>3 DEF StillUnpaid
    <3> DEFINE next == [intent[i] EXCEPT !.status = s]
    <3>2. /\ next \in [status : IntentStatus, amounts : Amounts,
                       payment : PaymentIds \cup {NoValue}]
          /\ next.status = s /\ next.amounts = intent[i].amounts /\ next.payment = NoValue
      BY <2>1, <3>1 DEF IntentStatus
    <3>3. intent' = [intent EXCEPT ![i] = next]
      BY <3>1
    <3> HIDE DEF next
    <3> QED BY <2>1, <3>1, <3>2, <3>3
  <2> QED BY <2>2, <2>3
<1>8. StripeTypeOK'
  BY <1>1, <1>2, <1>3, <1>4, <1>7 DEF StripeInv, StripeTypeOK, HookRow
<1>9. Kept /\ UnmadeIsEmpty'
  BY <1>1, <1>2, <1>7 DEF Kept, StripeInv, UnmadeIsEmpty
<1>10. \A j \in Intents : intent'[j] = intent[j] \/ IntentOK(j)'
  BY <1>7, <1>9, IntentStill DEF StripeInv
<1> QED BY <1>1, <1>2, <1>4, <1>5, <1>8, <1>9, <1>10 DEF Advances, StripeInv

(* What is posted is a payment of the intent's amount, and nothing else of it. *)
PostsSuccess(h, i, amounts, p) ==
  /\ i = event[hook[h].event].intent /\ amounts = intent[i].amounts
  /\ UnitSum(amounts) > 0 /\ ChargedOnly(amounts) /\ intent[i].status # "NONE"
  /\ provider[i].state = "succeeded" /\ provider[i].amount = UnitSum(amounts)
  /\ Allocates(p, amounts) \/ Credits(p, amounts)
  /\ reference' = [reference EXCEPT ![p] = i]
  /\ intent' = [intent EXCEPT ![i].status = "SUCCEEDED", ![i].payment = p]

LEMMA PostIntentFacts ==
  ASSUME StripeInv, NEW h \in Handlers, PostIntent(h)
  PROVE  /\ hook[h].stage = "commit" /\ hook' = [hook EXCEPT ![h] = NoHook]
         /\ webhookEvent' \in [Events -> {"NONE", "PROCESSED", "FAILED"}]
         /\ UNCHANGED <<provider, event, intentKey, checkout>>
         /\ \E i \in Intents, amounts \in Amounts, p \in PaymentIds : PostsSuccess(h, i, amounts, p)
<1> DEFINE e == hook[h].event
<1> DEFINE i == event[e].intent
<1> DEFINE amounts == intent[i].amounts
<1>1. hook[h].stage = "commit" /\ UNCHANGED <<provider, event, intentKey, checkout>>
  BY DEF PostIntent
<1>2. /\ e \in Events /\ i \in Intents /\ event[e] # NoValue
      /\ event[e].type = Success /\ intent[i].status # "NONE"
  <2>1. HookOK(h)
    BY DEF StripeInv
  <2> QED BY <1>1, <2>1, HookType DEF HookOK
<1>3. /\ EventOK(e) /\ IntentOK(i)
  BY <1>2 DEF StripeInv
<1>4. /\ provider[i].state = "succeeded" /\ provider[i].amount = UnitSum(amounts)
      /\ UnitSum(amounts) > 0 /\ ChargedOnly(amounts)
  BY <1>2, <1>3 DEF EventOK, IntentOK
<1>5. amounts \in Amounts
  BY <1>2 DEF StripeInv, StripeTypeOK
<1>6. /\ hook' = [hook EXCEPT ![h] = NoHook]
      /\ webhookEvent' \in [Events -> {"NONE", "PROCESSED", "FAILED"}]
  <2>1. Finish(h, "PROCESSED")
    BY DEF PostIntent
  <2> QED BY <1>1, <2>1, FinishType
<1>7. \E p \in PaymentIds :
        /\ Allocates(p, amounts) \/ Credits(p, amounts)
        /\ reference' = [reference EXCEPT ![p] = i]
        /\ intent' = [intent EXCEPT ![i].status = "SUCCEEDED", ![i].payment = p]
  <2> DEFINE total == hook[h].seen.total
  <2> DEFINE updated == {o \in Included(amounts) : version[o] = hook[h].seen.version[o]}
  <2> DEFINE allocated(p) ==
        /\ allocation' = [allocation EXCEPT ![p] = amounts]
        /\ status' = [o \in Obligations |->
             IF o \in updated THEN PaidStatus(total[o] + amounts[o], o) ELSE status[o]]
        /\ Bump(updated)
        /\ Post("CASH", "RENT_RECEIVABLE", UnitSum(amounts))
        /\ item' = [item EXCEPT ![p] = [status |-> "RESOLVED", version |-> 1, by |-> NoValue]]
        /\ UNCHANGED credit
  <2> DEFINE credited(p) ==
        /\ balance' = [balance EXCEPT !["CASH"] = @ + UnitSum(amounts)]
        /\ credit' = credit - UnitSum(amounts)
        /\ OpenItem(p)
        /\ UNCHANGED <<allocation, status, version>>
  <2>1. PICK p \in PaymentIds :
          /\ payment[p] = 0
          /\ payment' = [payment EXCEPT ![p] = UnitSum(amounts)]
          /\ reference' = [reference EXCEPT ![p] = i]
          /\ intent' = [intent EXCEPT ![i].status = "SUCCEEDED", ![i].payment = p]
          /\ allocated(p) \/ credited(p)
    BY DEF PostIntent, HookAmounts
  <2>2. UNCHANGED <<refundOf, refundAllocation, idem, session>>
    BY DEF PostIntent
  <2>3. item \in [Items -> ItemRow] /\ p \in Items
    BY <2>1 DEF StripeInv, StripeTypeOK, TypeOK, QueueOK, Items
  <2>4. total \in [Obligations -> Int]
    BY HookType
  <2>5. CASE allocated(p)
    <3>1. Receives(p, amounts)
      BY <2>1, <2>2, <2>3, <2>5 DEF Receives, ItemRow
    <3>2. \E up \in SUBSET Included(amounts), t \in [Obligations -> Int] :
            /\ status' = [o \in Obligations |->
                 IF o \in up THEN PaidStatus(t[o] + amounts[o], o) ELSE status[o]]
            /\ Bump(up)
      <4>1. updated \in SUBSET Included(amounts)
        OBVIOUS
      <4> QED BY <2>4, <2>5, <4>1
    <3> QED BY <2>1, <2>5, <3>1, <3>2 DEF Allocates
  <2>6. CASE credited(p)
    <3>1. Receives(p, amounts)
      BY <2>1, <2>2, <2>3, <2>6 DEF Receives, ItemRow, OpenItem
    <3> QED BY <2>1, <2>6, <3>1 DEF Credits
  <2> QED BY <2>1, <2>5, <2>6
<1>8. \E p \in PaymentIds : PostsSuccess(h, i, amounts, p)
  BY <1>2, <1>4, <1>7 DEF PostsSuccess
<1> HIDE DEF i, amounts
<1> QED BY <1>1, <1>2, <1>5, <1>6, <1>8

LEMMA PostingAdvances ==
  ASSUME StripeInv, NEW h \in Handlers, PostIntent(h)
  PROVE  Advances
<1>0. PICK i \in Intents, amounts \in Amounts, p \in PaymentIds : PostsSuccess(h, i, amounts, p)
  BY PostIntentFacts
<1>1. /\ hook' = [hook EXCEPT ![h] = NoHook]
      /\ webhookEvent' \in [Events -> {"NONE", "PROCESSED", "FAILED"}]
      /\ UNCHANGED <<provider, event, intentKey, checkout>>
  BY PostIntentFacts
<1>2. /\ i = event[hook[h].event].intent /\ amounts = intent[i].amounts
      /\ UnitSum(amounts) > 0 /\ ChargedOnly(amounts) /\ intent[i].status # "NONE"
      /\ provider[i].state = "succeeded" /\ provider[i].amount = UnitSum(amounts)
      /\ Allocates(p, amounts) \/ Credits(p, amounts)
      /\ reference' = [reference EXCEPT ![p] = i]
      /\ intent' = [intent EXCEPT ![i].status = "SUCCEEDED", ![i].payment = p]
  BY <1>0 DEF PostsSuccess
<1>3. RentBasics /\ EntriesBalance /\ credit \in Int /\ payment[p] = 0
  BY <1>2 DEF StripeInv, StripeTypeOK, Allocates, Credits, Receives
<1>4. Received(p, amounts)
  BY <1>2, <1>3, AllocatingIsReceived, CreditingIsReceived
<1>5. /\ RentBasics' /\ TypeOK' /\ RowsStay /\ EntriesBalance' /\ credit' \in Int
      /\ payment'[p] = UnitSum(amounts) /\ allocation'[p] \in {amounts, Unseen.total}
      /\ \A q \in PaymentIds : q # p => payment'[q] = payment[q]
  BY <1>4 DEF Received, RentBasics
<1>6. /\ reference' \in [PaymentIds -> Intents \cup {NoValue}] /\ reference'[p] = i
      /\ \A q \in PaymentIds : q # p => reference'[q] = reference[q]
  BY <1>2 DEF StripeInv, StripeTypeOK
<1>7. /\ intent' \in [Intents -> [status : IntentStatus, amounts : Amounts,
                                  payment : PaymentIds \cup {NoValue}]]
      /\ intent'[i].status = "SUCCEEDED" /\ intent'[i].payment = p
      /\ intent'[i].amounts = amounts
      /\ \A j \in Intents : j # i => intent'[j] = intent[j]
  <2>1. intent \in [Intents -> [status : IntentStatus, amounts : Amounts,
                                payment : PaymentIds \cup {NoValue}]]
    BY DEF StripeInv, StripeTypeOK
  <2> QED BY <1>2, <2>1 DEF IntentStatus
<1>8. /\ hook' \in [Handlers -> HookRow] /\ hook'[h].stage = "idle"
      /\ \A g \in Handlers : g # h => hook'[g] = hook[g]
  BY <1>1, NoHookType, HookType
<1>9. HookOK(h)'
  BY <1>8 DEF HookOK
<1>10. StripeTypeOK'
  BY <1>1, <1>5, <1>6, <1>7, <1>8 DEF StripeInv, StripeTypeOK, HookRow
<1>11. ReferenceOK'
  BY <1>2, <1>5, <1>6 DEF StripeInv, ReferenceOK
<1>12. UnmadeIsEmpty'
  BY <1>1 DEF StripeInv, UnmadeIsEmpty
<1>13. Kept
  <2>1. \A q \in PaymentIds : payment[q] > 0 => reference'[q] = reference[q]
    BY <1>3, <1>6
  <2>2. \A j \in Intents : intent[j].status # "NONE" =>
          intent'[j].status # "NONE" /\ intent'[j].amounts = intent[j].amounts
    BY <1>2, <1>7
  <2>3. UNCHANGED <<provider, event>>
    BY <1>1
  <2> QED BY <1>5, <2>1, <2>2, <2>3 DEF Kept
<1>14. IntentOK(i)'
  <2>1. \A o \in Obligations : amounts[o] > 0 => status'[o] # "ABSENT"
    BY <1>2, <1>5 DEF ChargedOnly, RowsStay
  <2>2. PostedBy(i, p)'
    BY <1>1, <1>2, <1>5, <1>6, <1>7 DEF PostedBy, Unseen
  <2>3. p # NoValue /\ UNCHANGED provider
    BY <1>1, SetsAssumption
  <2> QED BY <1>2, <1>7, <2>1, <2>2, <2>3 DEF IntentOK, ChargedOnly
<1>15. \A j \in Intents : intent'[j] = intent[j] \/ IntentOK(j)'
  BY <1>7, <1>14
<1> QED BY <1>1, <1>5, <1>8, <1>9, <1>10, <1>11, <1>12, <1>13, <1>15 DEF Advances, StripeInv

-----------------------------------------------------------------------------
(* The invariant of every step. *)

LEMMA InitStripe == StripeInit => StripeInv
<1> SUFFICES ASSUME StripeInit PROVE StripeInv
  OBVIOUS
<1>1. Init
  BY DEF StripeInit
<1>2. TypeOK /\ SafetyInv /\ BooksInv
  BY <1>1, InitTypeOK, InitSafety, InitBooks
<1>3. RentBasics
  BY <1>2, CleanRows DEF BooksInv, SessionAgrees, RentBasics
<1>4. StripeTypeOK
  <2>1. NoProvider \in [key : Keys \cup {NoValue}, amount : Nat,
                        state : {"none"} \cup DOMAIN EventType]
    BY DEF NoProvider, EventType
  <2>2. NoIntent \in [status : IntentStatus, amounts : Amounts,
                      payment : PaymentIds \cup {NoValue}]
    BY DEF NoIntent, IntentStatus, Amounts, Unseen
  <2>3. NoCheckout \in CheckoutRow
    BY DEF NoCheckout, CheckoutRow
  <2> QED BY <1>2, <2>1, <2>2, <2>3, NoHookType DEF StripeInit, StripeTypeOK, HookRow
<1>5. EntriesBalance
  BY <1>1 DEF StripeInit, Init, EntriesBalance, Accounts
<1>6. ReferenceOK /\ UnmadeIsEmpty
  BY DEF StripeInit, ReferenceOK, UnmadeIsEmpty, NoProvider
<1>7. \A c \in Clients : CheckoutOK(c)
  BY DEF StripeInit, CheckoutOK, NoCheckout
<1>8. \A i \in Intents : IntentOK(i)
  BY DEF StripeInit, IntentOK, NoIntent
<1>9. \A e \in Events : EventOK(e)
  BY DEF StripeInit, EventOK
<1>10. \A h \in Handlers : HookOK(h)
  BY DEF StripeInit, HookOK, NoHook
<1>11. DOMAIN event = Events
  BY DEF StripeInit
<1> QED BY <1>3, <1>4, <1>5, <1>6, <1>7, <1>8, <1>9, <1>10, <1>11 DEF StripeInv


LEMMA NextStripe == StripeInv /\ [StripeNext]_allVars => StripeInv'
<1> SUFFICES ASSUME StripeInv, [StripeNext]_allVars PROVE Advances
  BY AdvancingKeeps
<1>1. CASE RentStep \/ UNCHANGED allVars
  BY <1>1, RentAdvances DEF RentStep, allVars
<1>2. ASSUME NEW c \in Clients, CheckoutStep(c) PROVE Advances
  BY <1>2, PrepareAdvances, PrepareReadsAdvance, CallAdvances, LeavingCheckoutAdvances,
     InsertAdvances DEF CheckoutStep
<1>3. ASSUME NEW i \in Intents,
             ProviderStep(i) \/ CollectElsewhere(i) \/ \E e \in Events : Issue(i, e)
      PROVE  Advances
  BY <1>3, ProviderAdvances, IssueAdvances
<1>4. ASSUME NEW h \in Handlers, HookStep(h) PROVE Advances
  <2>1. CASE IgnoreEvent(h)
    BY <2>1, LeavingHookAdvances
  <2>2. CASE LoadIntent(h) /\ \E outcome \in {"PROCESSED", "FAILED"} : Finish(h, outcome)
    BY <2>2, LeavingHookAdvances
  <2>3. CASE LoadIntent(h) /\ ~\E outcome \in {"PROCESSED", "FAILED"} : Finish(h, outcome)
    BY <2>3, LoadingAdvances
  <2>4. CASE LoadIntentVersions(h) \/ LoadIntentAllocations(h) \/ LoadIntentRefunds(h)
    BY <2>4, LoadingAdvances
  <2> QED BY <1>4, <2>1, <2>2, <2>3, <2>4, UpdatingAdvances, PostingAdvances DEF HookStep
<1>5. ASSUME NEW h \in Handlers, AbortHook(h) \/ \E e \in Events : Deliver(h, e)
      PROVE  Advances
  <2>1. CASE AbortHook(h)
    BY <2>1, LeavingHookAdvances
  <2> QED BY <1>5, <2>1, DeliverAdvances
<1> QED BY <1>1, <1>2, <1>3, <1>4, <1>5 DEF StripeNext

(* What the online payment rests on is true of every reachable state: the     *)
(* tables of intents, events and payments agree with the provider and with    *)
(* each other, whatever fails, is repeated or comes late.                     *)
THEOREM OnlinePaymentAgrees == StripeSpec => []StripeInv
BY InitStripe, NextStripe, PTL DEF StripeSpec

(* The intent tables, the deliveries in service and the provider's state, as  *)
(* far as the code relies on it, have their types.                            *)
THEOREM StripeTypesCorrect == StripeSpec => []StripeTypeOK
<1>1. StripeInv => StripeTypeOK
  BY DEF StripeInv
<1> QED BY <1>1, OnlinePaymentAgrees, PTL

(* An intent that processWebhook marked as paid has the payment it names: of  *)
(* exactly what the provider collected, allocated as it was asked or not at   *)
(* all.                                                                       *)
THEOREM PostedIsCollected == StripeSpec => []PostedAsCollected
<1>1. ASSUME StripeInv, NEW i \in Intents, intent[i].status = "SUCCEEDED"
      PROVE  LET p == intent[i].payment
             IN /\ p # NoValue /\ reference[p] = i
                /\ provider[i].state = "succeeded" /\ payment[p] = provider[i].amount
                /\ allocation[p] \in {intent[i].amounts, Unseen.total}
  BY <1>1, SetsAssumption DEF StripeInv, IntentOK, PostedBy
<1>2. StripeInv => PostedAsCollected
  BY <1>1 DEF PostedAsCollected
<1> QED BY <1>2, OnlinePaymentAgrees, PTL

(* With the tenants' credit, what processWebhook and the rent requests post   *)
(* is derivable from the rows: what was received and not allocated is owed.   *)
THEOREM LedgerIsDerivableWithCredit == StripeSpec => []LedgerAgreesWithCredit
<1>1. ASSUME StripeInv PROVE LedgerAgreesWithCredit
  <2>1. TypeOK /\ LedgerAgrees /\ EntriesBalance /\ credit \in Int
    BY <1>1 DEF StripeInv, RentBasics, StripeTypeOK
  <2>2. /\ balance["RENT_REVENUE"] = 0 - UnitSum(ChargedTable)
        /\ balance["CASH"] = UnitSum(payment) - UnitSum(RefundedTable)
        /\ balance["RENT_RECEIVABLE"] =
             UnitSum(ChargedTable) - UnitSum(GrossTable) + UnitSum(RefundedTable)
    BY <2>1, LedgerByTables
  <2>3. /\ UnitSum(ChargedTable) \in Nat /\ UnitSum(GrossTable) \in Nat
        /\ UnitSum(RefundedTable) \in Nat /\ UnitSum(payment) \in Nat
    BY <2>1, TablesType DEF TypeOK
  <2>4. credit = UnitSum(GrossTable) - UnitSum(payment)
    BY <2>1, <2>2, <2>3 DEF EntriesBalance
  <2> QED BY <2>2, <2>4 DEF LedgerAgreesWithCredit, ChargedTable, GrossTable, RefundedTable
<1> QED BY <1>1, OnlinePaymentAgrees, PTL

-----------------------------------------------------------------------------
(* One effect for one success, as long as the provider issues one event       *)
(* object for it: what waits for the row of the event then waits for the      *)
(* posting of the intent.                                                     *)

LEMMA InitOnce == StripeInit => OnceInv
<1> SUFFICES ASSUME StripeInit PROVE OnceInv
  OBVIOUS
<1>1. /\ \A e \in Events : event[e] = NoValue
      /\ \A h \in Handlers : hook[h].stage = "idle"
      /\ \A p \in PaymentIds : reference[p] = NoValue
  BY DEF StripeInit, NoHook
<1> QED BY <1>1 DEF OnceInv

(* Steps that issue, receive and post nothing. *)
LEMMA OnceStill ==
  ASSUME StripeInv, OnceInv, UNCHANGED <<event, reference>>,
         \A i \in Intents : intent'[i].payment = intent[i].payment,
         \A g \in Handlers :
           \/ hook'[g] = hook[g]
           \/ hook'[g].stage = "idle"
           \/ /\ hook[g].stage # "idle" /\ hook'[g].event = hook[g].event
              /\ hook[g].stage = "load" => intent[event[hook[g].event].intent].payment = NoValue
  PROVE  OnceInv'
<1>1. \A g \in Handlers : hook'[g].stage # "idle" =>
        hook[g].stage # "idle" /\ hook'[g].event = hook[g].event
  OBVIOUS
<1>2. \A g \in Handlers : hook[g].stage # "idle" => event[hook[g].event].intent \in Intents
  BY HookType
<1>3. \A g \in Handlers : hook[g].stage \in {"idle", "load", "versions", "allocations", "refunds", "commit"}
  BY HookType DEF HookRow
<1>4. ASSUME NEW h \in Handlers, hook'[h].stage \in {"versions", "allocations", "refunds", "commit"}
      PROVE  intent'[event'[hook'[h].event].intent].payment = NoValue
  <2>1. hook[h].stage # "idle" /\ hook'[h].event = hook[h].event
    BY <1>1, <1>4
  <2>2. intent[event[hook[h].event].intent].payment = NoValue
    BY <1>3, <1>4, <2>1 DEF OnceInv
  <2> QED BY <1>2, <2>1, <2>2
<1>5. ASSUME NEW p \in PaymentIds, reference'[p] # NoValue
      PROVE  intent'[reference'[p]].payment = p
  BY <1>5 DEF OnceInv, StripeInv, StripeTypeOK
<1>6. \A e, f \in Events : event'[e] # NoValue /\ event'[e] = event'[f] => e = f
  BY DEF OnceInv
<1>7. \A g, h \in Handlers :
        hook'[g].stage # "idle" /\ hook'[h].stage # "idle" /\ hook'[g].event = hook'[h].event
          => g = h
  BY <1>1 DEF OnceInv
<1> QED BY <1>4, <1>5, <1>6, <1>7 DEF OnceInv

LEMMA IssueOnce ==
  ASSUME StripeInv, OnceInv, RepeatEvents = FALSE, NEW i \in Intents, NEW e \in Events, Issue(i, e)
  PROVE  OnceInv'
<1> DEFINE fact == [type |-> EventType[provider[i].state], intent |-> i]
<1>1. /\ UNCHANGED <<intent, reference, hook>>
      /\ event[e] = NoValue /\ event'[e] = fact /\ \A f \in Events : event[f] # fact
      /\ \A f \in Events : f # e => event'[f] = event[f]
  BY DEF Issue, StripeInv, stripeBooks
<1> HIDE DEF fact
<1>2. \A g \in Handlers : hook[g].stage # "idle" => event'[hook[g].event] = event[hook[g].event]
  BY <1>1, HookType DEF StripeInv, HookOK
<1>3. \A f, g \in Events : event'[f] # NoValue /\ event'[f] = event'[g] => f = g
  BY <1>1 DEF OnceInv
<1> QED BY <1>1, <1>2, <1>3 DEF OnceInv

LEMMA DeliverOnce ==
  ASSUME StripeInv, OnceInv, NEW h \in Handlers, NEW e \in Events, Deliver(h, e)
  PROVE  OnceInv'
<1>1. /\ UNCHANGED <<event, intent, reference>>
      /\ \A g \in Handlers : hook[g].event # e
  BY DEF Deliver, stripeBooks, NotBeingProcessed
<1>2. /\ hook'[h].stage = "load" /\ hook'[h].event = e
      /\ \A g \in Handlers : g # h => hook'[g] = hook[g]
  BY HookType DEF Deliver
<1>3. \A f, g \in Handlers :
        hook'[f].stage # "idle" /\ hook'[g].stage # "idle" /\ hook'[f].event = hook'[g].event
          => f = g
  BY <1>1, <1>2 DEF OnceInv
<1>4. \A g \in Handlers : hook'[g].stage \in {"versions", "allocations", "refunds", "commit"} => g # h
  BY <1>2
<1> QED BY <1>1, <1>2, <1>3, <1>4 DEF OnceInv

(* No other delivery has the success of the intent that is posted. *)
LEMMA PostingOnce ==
  ASSUME StripeInv, OnceInv, NEW h \in Handlers, PostIntent(h)
  PROVE  OnceInv'
<1>0. PICK i \in Intents, amounts \in Amounts, p \in PaymentIds : PostsSuccess(h, i, amounts, p)
  BY PostIntentFacts
<1>1. /\ hook[h].stage = "commit" /\ hook' = [hook EXCEPT ![h] = NoHook]
      /\ UNCHANGED event
  BY PostIntentFacts
<1>2. /\ i = event[hook[h].event].intent
      /\ reference' = [reference EXCEPT ![p] = i]
      /\ intent' = [intent EXCEPT ![i].status = "SUCCEEDED", ![i].payment = p]
  BY <1>0 DEF PostsSuccess
<1>3. /\ hook'[h].stage = "idle" /\ \A g \in Handlers : g # h => hook'[g] = hook[g]
  BY <1>1, NoHookType, HookType
<1>4. /\ reference'[p] = i /\ \A q \in PaymentIds : q # p => reference'[q] = reference[q]
      /\ \A q \in PaymentIds : reference[q] \in Intents \cup {NoValue}
  BY <1>2 DEF StripeInv, StripeTypeOK
<1>5. intent'[i].payment = p /\ \A j \in Intents : j # i => intent'[j] = intent[j]
  BY <1>2 DEF StripeInv, StripeTypeOK
<1>6. intent[i].payment = NoValue
  BY <1>1, <1>2 DEF OnceInv
<1>7. ASSUME NEW q \in PaymentIds, reference'[q] # NoValue
      PROVE  intent'[reference'[q]].payment = q
  <2>1. CASE q = p
    BY <1>4, <1>5, <2>1
  <2>2. CASE q # p
    <3>1. reference'[q] = reference[q] /\ intent[reference[q]].payment = q /\ reference[q] \in Intents
      BY <1>4, <1>7, <2>2 DEF OnceInv
    <3>2. reference[q] # i
      BY <1>6, <3>1, SetsAssumption
    <3> QED BY <1>5, <3>1, <3>2
  <2> QED BY <2>1, <2>2
<1>8. ASSUME NEW g \in Handlers, hook'[g].stage \in {"versions", "allocations", "refunds", "commit"}
      PROVE  intent'[event'[hook'[g].event].intent].payment = NoValue
  <2>1. g # h /\ hook'[g] = hook[g] /\ hook[g].stage \in {"versions", "allocations", "refunds", "commit"}
    BY <1>3, <1>8
  <2>2. /\ HookOK(g) /\ HookOK(h)
        /\ event[hook[g].event] \in Facts /\ event[hook[h].event] \in Facts
        /\ event[hook[g].event].intent \in Intents
    BY <1>1, <2>1, HookType DEF StripeInv
  <2>3. /\ hook[g].event \in Events /\ hook[h].event \in Events
        /\ event[hook[g].event].type = Success /\ event[hook[h].event].type = Success
        /\ event[hook[g].event] # NoValue
    BY <1>1, <2>1, <2>2 DEF HookOK
  <2>4. event[hook[g].event].intent # i
    <3>1. SUFFICES ASSUME event[hook[g].event].intent = i PROVE FALSE
      OBVIOUS
    <3>2. event[hook[g].event] = event[hook[h].event]
      BY <1>2, <2>2, <2>3, <3>1 DEF Facts
    <3>3. hook[g].event = hook[h].event
      BY <2>3, <3>2 DEF OnceInv
    <3> QED BY <1>1, <2>1, <3>3 DEF OnceInv
  <2>5. intent[event[hook[g].event].intent].payment = NoValue
    BY <2>1 DEF OnceInv
  <2> QED BY <1>1, <1>5, <2>1, <2>2, <2>4, <2>5
<1>9. \A f, g \in Handlers :
        hook'[f].stage # "idle" /\ hook'[g].stage # "idle" /\ hook'[f].event = hook'[g].event
          => f = g
  BY <1>3 DEF OnceInv
<1>10. \A e, f \in Events : event'[e] # NoValue /\ event'[e] = event'[f] => e = f
  BY <1>1 DEF OnceInv
<1> QED BY <1>7, <1>8, <1>9, <1>10 DEF OnceInv

(* The payment of an intent is written by the posting of its success alone. *)
LEMMA PaymentsStay ==
  ASSUME StripeInv,
         \/ UNCHANGED intent
         \/ \E c \in Clients : InsertIntent(c)
         \/ \E h \in Handlers : UpdateIntentStatus(h)
  PROVE  \A i \in Intents :
           /\ intent'[i].payment = intent[i].payment
           /\ intent[i].payment # NoValue => intent'[i] = intent[i]
<1>1. \A i \in Intents : intent[i].status = "NONE" => intent[i].payment = NoValue
  BY DEF StripeInv, IntentOK
<1>2. CASE UNCHANGED intent
  BY <1>2
<1>3. ASSUME NEW i \in Intents, intent[i].payment = NoValue,
             intent'[i].payment = NoValue, \A j \in Intents : j # i => intent'[j] = intent[j]
      PROVE  \A j \in Intents :
               /\ intent'[j].payment = intent[j].payment
               /\ intent[j].payment # NoValue => intent'[j] = intent[j]
  BY <1>3
<1>4. ASSUME NEW c \in Clients, InsertIntent(c), ~UNCHANGED intent
      PROVE  \E i \in Intents :
               /\ intent[i].payment = NoValue /\ intent'[i].payment = NoValue
               /\ \A j \in Intents : j # i => intent'[j] = intent[j]
  <2>1. CheckoutOK(c)
    BY DEF StripeInv
  <2>2. PICK i \in Intents : i = checkout[c].intent
    BY <1>4, <2>1 DEF CheckoutOK, InsertIntent
  <2>3. /\ intent[i].status = "NONE"
        /\ intent' = [intent EXCEPT ![i] =
             [status |-> "REQUIRES_PAYMENT_METHOD", amounts |-> checkout[c].req.amounts,
              payment |-> NoValue]]
    BY <1>4, <2>2 DEF InsertIntent
  <2> QED BY <1>1, <2>3 DEF StripeInv, StripeTypeOK
<1>5. ASSUME NEW h \in Handlers, UpdateIntentStatus(h), ~UNCHANGED intent
      PROVE  \E i \in Intents :
               /\ intent[i].payment = NoValue /\ intent'[i].payment = NoValue
               /\ \A j \in Intents : j # i => intent'[j] = intent[j]
  <2>1. hook[h].stage # "idle"
    BY <1>5 DEF UpdateIntentStatus
  <2>2. PICK i \in Intents : i = event[hook[h].event].intent
    BY <2>1, HookType
  <2>3. /\ intent[i].payment = NoValue
        /\ \E s : intent' = [intent EXCEPT ![i].status = s]
    BY <1>5, <2>2 DEF UpdateIntentStatus, StillUnpaid
  <2> QED BY <2>3 DEF StripeInv, StripeTypeOK
<1> QED BY <1>2, <1>3, <1>4, <1>5

LEMMA NextOnce ==
  ASSUME RepeatEvents = FALSE, StripeInv, OnceInv, [StripeNext]_allVars
  PROVE  OnceInv'
<1>1. ASSUME UNCHANGED <<event, reference, intent, hook>> PROVE OnceInv'
  BY <1>1, OnceStill
<1>2. CASE RentStep \/ UNCHANGED allVars
  BY <1>1, <1>2 DEF RentStep, allVars, stripeVars, stripeBooks
<1>3. ASSUME NEW c \in Clients, CheckoutStep(c) PROVE OnceInv'
  <2>1. CASE InsertIntent(c)
    <3>1. UNCHANGED <<event, reference, hook>>
      BY <2>1 DEF InsertIntent
    <3> QED BY <2>1, <3>1, PaymentsStay, OnceStill
  <2>2. CASE ~InsertIntent(c)
    BY <1>1, <1>3, <2>2 DEF CheckoutStep, Prepare, PrepareAllocations,
       PrepareRefunds, CallProvider, LookupIntent, AbortCheckout,
       stripeBooks
  <2> QED BY <2>1, <2>2
<1>4. ASSUME NEW i \in Intents,
             ProviderStep(i) \/ CollectElsewhere(i) \/ \E e \in Events : Issue(i, e)
      PROVE  OnceInv'
  BY <1>1, <1>4, IssueOnce DEF ProviderStep, Settle, CollectElsewhere, stripeBooks
<1>5. ASSUME NEW h \in Handlers, HookStep(h) \/ AbortHook(h) PROVE OnceInv'
  <2>1. CASE PostIntent(h)
    BY <2>1, PostingOnce
  <2>2. CASE ~PostIntent(h)
    <3>1. UNCHANGED <<event, reference>> /\ hook[h].stage # "idle"
      BY <1>5, <2>2 DEF HookStep, AbortHook, UpdateIntentStatus, IgnoreEvent, LoadIntent,
         LoadIntentVersions, LoadIntentAllocations, LoadIntentRefunds, stripeBooks
    <3>2. UNCHANGED intent \/ UpdateIntentStatus(h)
      BY <1>5, <2>2 DEF HookStep, AbortHook, IgnoreEvent, LoadIntent,
         LoadIntentVersions, LoadIntentAllocations, LoadIntentRefunds, stripeBooks
    <3>3. \A i \in Intents : intent'[i].payment = intent[i].payment
      BY <3>2, PaymentsStay
    <3>4. \/ hook' = [hook EXCEPT ![h] = NoHook]
          \/ /\ intent[event[hook[h].event].intent].payment = NoValue
             /\ hook' = [hook EXCEPT ![h].stage = "versions"]
          \/ /\ hook[h].stage # "load"
             /\ \E v : hook' = [hook EXCEPT ![h].stage = "allocations", ![h].seen.version = v]
          \/ /\ hook[h].stage # "load"
             /\ \E ps : hook' = [hook EXCEPT ![h].stage = "refunds", ![h].rows = ps]
          \/ /\ hook[h].stage # "load"
             /\ \E t : hook' = [hook EXCEPT ![h].stage = "commit", ![h].rows = {},
                                             ![h].seen.total = t]
      BY <1>5, <2>2 DEF HookStep, AbortHook, UpdateIntentStatus, IgnoreEvent, LoadIntent,
         LoadIntentVersions, LoadIntentAllocations, LoadIntentRefunds, Finish
    <3>5. \/ hook'[h].stage = "idle"
          \/ /\ hook'[h].event = hook[h].event
             /\ hook[h].stage = "load" => intent[event[hook[h].event].intent].payment = NoValue
      BY <3>4, NoHookType, HookType DEF HookRow
    <3>6. \A g \in Handlers : g # h => hook'[g] = hook[g]
      BY <3>4, HookType
    <3> QED BY <3>1, <3>3, <3>5, <3>6, OnceStill
  <2> QED BY <2>1, <2>2
<1> QED BY <1>2, <1>3, <1>4, <1>5, DeliverOnce DEF StripeNext

(* A paid intent is read once more by nothing that could write it.            *)
LEMMA PaidStays ==
  ASSUME RepeatEvents = FALSE, StripeInv, OnceInv, [StripeNext]_allVars,
         NEW i \in Intents, intent[i].payment # NoValue
  PROVE  intent'[i] = intent[i]
<1>1. CASE \/ UNCHANGED intent
           \/ \E c \in Clients : InsertIntent(c)
           \/ \E h \in Handlers : UpdateIntentStatus(h)
  BY <1>1, PaymentsStay
<1>2. ASSUME NEW h \in Handlers, PostIntent(h) PROVE intent'[i] = intent[i]
  <2>1. hook[h].stage = "commit"
    BY <1>2, PostIntentFacts
  <2>2. PICK j \in Intents, amounts \in Amounts, p \in PaymentIds :
          PostsSuccess(h, j, amounts, p)
    BY <1>2, PostIntentFacts
  <2>3. /\ j = event[hook[h].event].intent
        /\ intent' = [intent EXCEPT ![j].status = "SUCCEEDED", ![j].payment = p]
    BY <2>2 DEF PostsSuccess
  <2>4. j # i
    BY <2>1, <2>3 DEF OnceInv
  <2> QED BY <2>3, <2>4 DEF StripeInv, StripeTypeOK
<1>3. \/ UNCHANGED intent
      \/ \E c \in Clients : InsertIntent(c)
      \/ \E h \in Handlers : UpdateIntentStatus(h) \/ PostIntent(h)
  BY DEF StripeNext, RentStep, allVars, stripeVars, stripeBooks,
     CheckoutStep, Prepare, PrepareAllocations, PrepareRefunds, CallProvider, LookupIntent,
     AbortCheckout,
     ProviderStep, Settle, CollectElsewhere, Issue,
     HookStep, IgnoreEvent, LoadIntent, LoadIntentVersions, LoadIntentAllocations,
     LoadIntentRefunds, AbortHook, Deliver
<1> QED BY <1>1, <1>2, <1>3

LEMMA SuccessesAreAlone == RepeatEvents = FALSE => (StripeSpec => []OnceInv)
<1> SUFFICES ASSUME RepeatEvents = FALSE PROVE StripeSpec => []OnceInv
  OBVIOUS
<1>1. StripeInv /\ OnceInv /\ [StripeNext]_allVars => OnceInv'
  BY NextOnce
<1> QED BY <1>1, InitOnce, OnlinePaymentAgrees, PTL DEF StripeSpec

(* If the provider issues one event object for one fact, an intent is posted  *)
(* once, however its event is repeated, delayed or delivered concurrently.    *)
THEOREM OneEffectUnlessRepeated ==
  RepeatEvents = FALSE => (StripeSpec => []OneEffectPerIntent)
<1> SUFFICES ASSUME RepeatEvents = FALSE PROVE StripeSpec => []OneEffectPerIntent
  OBVIOUS
<1>1. OnceInv => OneEffectPerIntent
  BY DEF OnceInv, OneEffectPerIntent
<1> QED BY <1>1, SuccessesAreAlone, PTL

(* And an intent that was paid stays as it is: no late or reordered event     *)
(* writes its status again.                                                   *)
THEOREM PaidIsFinalUnlessRepeated ==
  RepeatEvents = FALSE => (StripeSpec => PaidIntentIsFinal)
<1> SUFFICES ASSUME RepeatEvents = FALSE PROVE StripeSpec => PaidIntentIsFinal
  OBVIOUS
<1>1. StripeInv /\ OnceInv /\ [StripeNext]_allVars =>
        [\A i \in Intents : intent[i].payment # NoValue => intent[i]' = intent[i]]_allVars
  BY PaidStays
<1> QED BY <1>1, OnlinePaymentAgrees, SuccessesAreAlone, PTL DEF StripeSpec, PaidIntentIsFinal

-----------------------------------------------------------------------------
(* Intents are stored once: the provider never gives an intent another key,   *)
(* so what a checkout holds and what a record names stay the same intent.     *)

KeyOK(c) ==
  checkout[c].stage \in {"lookup", "insert"} =>
    provider[checkout[c].intent].key = checkout[c].req.key

KeyInv ==
  /\ \A c \in Clients : KeyOK(c)
  /\ \A i \in Intents : intent[i].status # "NONE" =>
       \E e \in intentKey : e.intent = i /\ e.key = provider[i].key
  /\ \A e \in intentKey : intent[e.intent].status # "NONE"
  /\ \A e1, e2 \in intentKey :
       e1.intent = e2.intent \/ (e1.actor = e2.actor /\ e1.key = e2.key) => e1 = e2

KeysStay == \A i \in Intents : provider[i].state # "none" => provider'[i].key = provider[i].key

(* The key of a checkout that a step does not touch. *)
LEMMA KeyStill ==
  ASSUME StripeInv, KeyInv, KeysStay, NEW c \in Clients, checkout'[c] = checkout[c]
  PROVE  KeyOK(c)'
<1>1. CheckoutOK(c) /\ KeyOK(c)
  BY DEF StripeInv, KeyInv
<1> QED BY <1>1 DEF CheckoutOK, KeyOK, KeysStay

(* Steps that store no intent. *)
LEMMA StoringNothing ==
  ASSUME StripeInv, KeyInv, KeysStay, UNCHANGED intentKey,
         \A i \in Intents : intent'[i].status = "NONE" <=> intent[i].status = "NONE",
         \A c \in Clients : checkout'[c] = checkout[c] \/ KeyOK(c)'
  PROVE  KeyInv'
<1>1. \A c \in Clients : KeyOK(c)'
  BY KeyStill
<1>2. \A i \in Intents : intent[i].status # "NONE" => provider'[i].key = provider[i].key
  BY DEF StripeInv, IntentOK, KeysStay
<1>3. \A i \in Intents : intent'[i].status # "NONE" =>
        \E e \in intentKey : e.intent = i /\ e.key = provider'[i].key
  BY <1>2 DEF KeyInv
<1>4. \A e \in intentKey : e.intent \in Intents
  BY DEF StripeInv, StripeTypeOK
<1>5. \A e \in intentKey : intent'[e.intent].status # "NONE"
  BY <1>4 DEF KeyInv
<1>6. \A e1, e2 \in intentKey' :
        e1.intent = e2.intent \/ (e1.actor = e2.actor /\ e1.key = e2.key) => e1 = e2
  BY DEF KeyInv
<1> QED BY <1>1, <1>3, <1>5, <1>6 DEF KeyInv

LEMMA CheckoutKeepsKeys ==
  ASSUME StripeInv, KeyInv, NEW c \in Clients, CheckoutStep(c), ~InsertIntent(c)
  PROVE  KeyInv'
<1>1. UNCHANGED <<intent, intentKey>>
  BY DEF CheckoutStep, Prepare, PrepareAllocations, PrepareRefunds, CallProvider,
     LookupIntent, AbortCheckout, stripeBooks
<1>2. checkout \in [Clients -> CheckoutRow]
  BY DEF StripeInv, StripeTypeOK
<1>3. CASE CallProvider(c)
  <2> DEFINE q == checkout[c].req
  <2> DEFINE calls(i) == checkout' = [checkout EXCEPT ![c].stage = "lookup", ![c].intent = i]
  <2> DEFINE new(amount) == [key |-> q.key, amount |-> amount, state |-> "created"]
  <2>1. \/ checkout' = [checkout EXCEPT ![c] = NoCheckout] /\ UNCHANGED provider
        \/ \E i \in Intents : provider[i].key = q.key /\ UNCHANGED provider /\ calls(i)
        \/ \E i \in Intents : /\ provider[i].state = "none" /\ calls(i)
                            /\ provider' = [provider EXCEPT ![i] = new(UnitSum(q.amounts))]
    BY <1>3 DEF CallProvider
  <2>2. /\ KeysStay /\ \A d \in Clients : d # c => checkout'[d] = checkout[d]
        /\ \/ checkout'[c].stage = "idle"
           \/ checkout'[c].req = q /\ provider'[checkout'[c].intent].key = q.key
    <3>1. CASE checkout' = [checkout EXCEPT ![c] = NoCheckout] /\ UNCHANGED provider
      BY <1>2, <3>1 DEF NoCheckout, KeysStay
    <3>2. ASSUME NEW i \in Intents, calls(i)
          PROVE  /\ \A d \in Clients : d # c => checkout'[d] = checkout[d]
                 /\ checkout'[c].req = q /\ checkout'[c].intent = i
      BY <1>2, <3>2 DEF CheckoutRow
    <3>3. ASSUME NEW i \in Intents, provider[i].key = q.key, UNCHANGED provider, calls(i)
          PROVE  /\ KeysStay
                 /\ \A d \in Clients : d # c => checkout'[d] = checkout[d]
                 /\ checkout'[c].req = q /\ provider'[checkout'[c].intent].key = q.key
      <4> HIDE DEF calls, q
      <4> QED BY <3>2, <3>3 DEF KeysStay
    <3>4. ASSUME NEW i \in Intents, provider[i].state = "none", calls(i),
                 provider' = [provider EXCEPT ![i] = new(UnitSum(q.amounts))]
          PROVE  /\ KeysStay
                 /\ \A d \in Clients : d # c => checkout'[d] = checkout[d]
                 /\ checkout'[c].req = q /\ provider'[checkout'[c].intent].key = q.key
      <4>1. DOMAIN provider = Intents
        BY DEF StripeInv, StripeTypeOK
      <4>2. \A n : new(n).key = q.key
        OBVIOUS
      <4> HIDE DEF calls, q, new
      <4> QED BY <3>2, <3>4, <4>1, <4>2 DEF KeysStay
    <3> HIDE DEF calls, q, new
    <3> QED BY <2>1, <3>1, <3>3, <3>4
  <2>3. KeyOK(c)'
    BY <2>2 DEF KeyOK
  <2> QED BY <1>1, <2>2, <2>3, StoringNothing
<1>4. CASE ~CallProvider(c)
  <2>1. UNCHANGED provider
    BY <1>4 DEF CheckoutStep, Prepare, PrepareAllocations, PrepareRefunds,
       LookupIntent, AbortCheckout
  <2>2. /\ \A d \in Clients : d # c => checkout'[d] = checkout[d]
        /\ \/ checkout'[c].stage \notin {"lookup", "insert"}
           \/ /\ checkout[c].stage = "lookup"
              /\ checkout'[c].req = checkout[c].req /\ checkout'[c].intent = checkout[c].intent
    BY <1>2, <1>4 DEF CheckoutStep, Prepare, PrepareAllocations, PrepareRefunds,
       LookupIntent, AbortCheckout, CheckoutRow, NoCheckout
  <2>3. KeyOK(c)
    BY DEF KeyInv
  <2>4. KeyOK(c)'
    BY <2>1, <2>2, <2>3 DEF KeyOK
  <2> QED BY <1>1, <2>1, <2>2, <2>4, StoringNothing DEF KeysStay
<1> QED BY <1>3, <1>4

LEMMA StoringKeepsKeys ==
  ASSUME StripeInv, KeyInv, NEW c \in Clients, InsertIntent(c)
  PROVE  KeyInv'
<1> DEFINE q == checkout[c].req
<1> DEFINE i == checkout[c].intent
<1> DEFINE new == [actor |-> q.actor, key |-> q.key, intent |-> i]
<1>1. /\ UNCHANGED provider /\ checkout' = [checkout EXCEPT ![c] = NoCheckout]
      /\ checkout[c].stage = "insert"
  BY DEF InsertIntent
<1>2. \A d \in Clients : checkout'[d] = checkout[d] \/ KeyOK(d)'
  BY <1>1 DEF KeyOK, NoCheckout, StripeInv, StripeTypeOK
<1>3. KeysStay
  BY <1>1 DEF KeysStay
<1>4. CASE UNCHANGED <<intent, intentKey>>
  BY <1>2, <1>3, <1>4, StoringNothing
<1>5. CASE ~UNCHANGED <<intent, intentKey>>
  <2>1. /\ intent[i].status = "NONE" /\ IntentKeyed(q) = {} /\ intentKey' = intentKey \cup {new}
        /\ intent' = [intent EXCEPT ![i] =
             [status |-> "REQUIRES_PAYMENT_METHOD", amounts |-> q.amounts, payment |-> NoValue]]
    BY <1>5 DEF InsertIntent
  <2>2. CheckoutOK(c) /\ KeyOK(c)
    BY DEF StripeInv, KeyInv
  <2>3. i \in Intents /\ provider[i].key = q.key
    BY <1>1, <2>2 DEF CheckoutOK, KeyOK
  <2>4. /\ intent'[i].status # "NONE" /\ \A j \in Intents : j # i => intent'[j] = intent[j]
    BY <2>1, <2>3 DEF StripeInv, StripeTypeOK
  <2>5. /\ new.intent = i /\ new.actor = q.actor /\ new.key = q.key
        /\ \A e \in intentKey : e.intent \in Intents /\ e.intent # i
        /\ \A e \in intentKey : ~(e.actor = q.actor /\ e.key = q.key)
    BY <2>1 DEF KeyInv, IntentKeyed, StripeInv, StripeTypeOK
  <2> HIDE DEF new, i, q
  <2>6. \A d \in Clients : KeyOK(d)'
    BY <1>2, <1>3, KeyStill
  <2>7. \A j \in Intents : intent'[j].status # "NONE" =>
          \E e \in intentKey' : e.intent = j /\ e.key = provider'[j].key
    BY <1>1, <2>1, <2>3, <2>4, <2>5 DEF KeyInv
  <2>8. \A e \in intentKey' : intent'[e.intent].status # "NONE"
    BY <2>1, <2>4, <2>5 DEF KeyInv
  <2>9. \A e1, e2 \in intentKey' :
          e1.intent = e2.intent \/ (e1.actor = e2.actor /\ e1.key = e2.key) => e1 = e2
    BY <2>1, <2>5 DEF KeyInv
  <2> QED BY <2>6, <2>7, <2>8, <2>9 DEF KeyInv
<1> QED BY <1>4, <1>5

LEMMA NextKeys == StripeInv /\ KeyInv /\ [StripeNext]_allVars => KeyInv'
<1> SUFFICES ASSUME StripeInv, KeyInv, [StripeNext]_allVars PROVE KeyInv'
  OBVIOUS
<1>1. ASSUME KeysStay, UNCHANGED <<intentKey, checkout>>,
             \A i \in Intents : intent'[i].status = "NONE" <=> intent[i].status = "NONE"
      PROVE  KeyInv'
  BY <1>1, StoringNothing
<1>2. CASE RentStep \/ UNCHANGED allVars
  BY <1>1, <1>2 DEF RentStep, allVars, stripeVars, stripeBooks, KeysStay
<1>3. ASSUME NEW c \in Clients, CheckoutStep(c) PROVE KeyInv'
  BY <1>3, CheckoutKeepsKeys, StoringKeepsKeys
<1>4. ASSUME NEW i \in Intents,
             ProviderStep(i) \/ CollectElsewhere(i) \/ \E e \in Events : Issue(i, e)
      PROVE  KeyInv'
  <2>1. UNCHANGED <<intent, intentKey, checkout>>
    BY <1>4 DEF ProviderStep, Settle, CollectElsewhere, Issue, stripeBooks
  <2>2. \/ UNCHANGED provider
        \/ \E to : provider' = [provider EXCEPT ![i].state = to]
        \/ provider[i].state = "none" /\ \A j \in Intents : j # i => provider'[j] = provider[j]
    BY <1>4 DEF ProviderStep, Settle, CollectElsewhere, Issue, StripeInv, StripeTypeOK
  <2>3. KeysStay
    BY <2>2 DEF KeysStay, StripeInv, StripeTypeOK
  <2> QED BY <1>1, <2>1, <2>3
<1>5. ASSUME NEW h \in Handlers,
             HookStep(h) \/ AbortHook(h) \/ \E e \in Events : Deliver(h, e)
      PROVE  KeyInv'
  <2>1. CASE PostIntent(h)
    <3>1. PICK j \in Intents, amounts \in Amounts, p \in PaymentIds :
            PostsSuccess(h, j, amounts, p)
      BY <2>1, PostIntentFacts
    <3>2. UNCHANGED <<provider, intentKey, checkout>> /\ hook[h].stage = "commit"
      BY <2>1 DEF PostIntent
    <3>3. HookOK(h)
      BY DEF StripeInv
    <3>4. /\ j = event[hook[h].event].intent /\ intent[j].status # "NONE"
          /\ intent' = [intent EXCEPT ![j].status = "SUCCEEDED", ![j].payment = p]
      BY <3>1, <3>2, <3>3 DEF PostsSuccess, HookOK
    <3>5. \A i \in Intents : intent'[i].status = "NONE" <=> intent[i].status = "NONE"
      BY <3>4 DEF StripeInv, StripeTypeOK
    <3> QED BY <1>1, <3>2, <3>5 DEF KeysStay
  <2>2. CASE UpdateIntentStatus(h)
    <3> DEFINE e == event[hook[h].event]
    <3>1. /\ UNCHANGED <<provider, intentKey, checkout>> /\ e.type \in DOMAIN StatusAfter
          /\ intent' = IF StillUnpaid(e.intent)
                       THEN [intent EXCEPT ![e.intent].status = StatusAfter[e.type]]
                       ELSE intent
      BY <2>2 DEF UpdateIntentStatus
    <3>2. \A i \in Intents : intent'[i].status = "NONE" <=> intent[i].status = "NONE"
      <4>1. StatusAfter[e.type] # "NONE"
        BY <3>1, StatusAfterType
      <4> HIDE DEF e
      <4> QED BY <3>1, <4>1 DEF StillUnpaid, StripeInv, StripeTypeOK
    <3> QED BY <1>1, <3>1, <3>2 DEF KeysStay
  <2>3. CASE ~PostIntent(h) /\ ~UpdateIntentStatus(h)
    <3>1. UNCHANGED <<provider, intent, intentKey, checkout>>
      BY <1>5, <2>3 DEF HookStep, IgnoreEvent, LoadIntent, LoadIntentVersions,
         LoadIntentAllocations, LoadIntentRefunds,
         AbortHook, Deliver, stripeBooks
    <3> QED BY <1>1, <3>1 DEF KeysStay
  <2> QED BY <2>1, <2>2, <2>3
<1> QED BY <1>2, <1>3, <1>4, <1>5 DEF StripeNext

(* However creations of intents fail, are retried and race, an intent is      *)
(* stored for one request, over the amount and under the key the provider     *)
(* knows it by.                                                               *)
THEOREM StoredOnce == StripeSpec => []IntentsAreStoredOnce
<1>1. StripeInit => KeyInv
  BY DEF StripeInit, KeyInv, KeyOK, NoIntent, NoCheckout
<1>2. StripeInv /\ KeyInv => IntentsAreStoredOnce
  BY DEF StripeInv, IntentOK, KeyInv, IntentsAreStoredOnce
<1> QED BY <1>1, <1>2, NextKeys, OnlinePaymentAgrees, PTL DEF StripeSpec

=============================================================================
