----------------------------- MODULE RentLedger -----------------------------
(***************************************************************************)
(* The rent module's write side for one active organization: charging a    *)
(* rent obligation, recording a payment, refunding it and resolving a      *)
(* reconciliation item, by requests that run concurrently as READ          *)
(* COMMITTED transactions and may fail and be retried at any point.        *)
(*                                                                         *)
(* A transaction is a few steps: one per group of statements that reads    *)
(* the same version of the books, and one commit.  All writes of a         *)
(* transaction are the commit's step: its row locks are held to the end,   *)
(* and a conditional update that had to wait re-evaluates its condition.   *)
(***************************************************************************)
EXTENDS UnitSums

CONSTANTS
  Clients,      \* requests the API may be serving at the same time
  Actors,       \* members of the organization
  Role,         \* [Actors -> MembershipRole]
  Keys,         \* idempotency keys
  Obligations,  \* (lease, period) pairs covered by an active lease
  LeaseOf,      \* the lease of an obligation
  TenantOf,     \* the tenant profile of that lease
  Rent,         \* its monthly rent, in minor units
  PaymentIds,   \* identifiers of payments
  RefundIds,    \* identifiers of refunds
  Requests,     \* the requests clients send
  NoValue

MembershipRole ==
  {"OWNER", "PROPERTY_MANAGER", "ACCOUNTANT", "MAINTENANCE_MANAGER"}

Accounts == {"CASH", "RENT_RECEIVABLE", "RENT_REVENUE"}
Items == PaymentIds \cup RefundIds
Amounts == [Obligations -> Nat]   \* 0 for an obligation not named
Included(amounts) == {o \in Obligations : amounts[o] > 0}
Payable == {"OPEN", "PARTIALLY_PAID"}   \* the statuses payments look for

CreateRequest == [op : {"create"}, actor : Actors, key : Keys, target : Obligations]
PayRequest == [op : {"pay"}, actor : Actors, key : Keys, amounts : Amounts]
RefundRequest ==
  [op : {"refund"}, actor : Actors, key : Keys, target : PaymentIds, amounts : Amounts]
ResolveRequest ==
  [op : {"resolve"}, actor : Actors, target : Items, expected : Nat]

ASSUME SetsAssumption ==
  /\ IsFiniteSet(Obligations) /\ IsFiniteSet(PaymentIds) /\ IsFiniteSet(RefundIds)
  /\ PaymentIds \cap RefundIds = {}
  /\ Obligations \cap (PaymentIds \cup RefundIds) = {}
  /\ NoValue \notin PaymentIds \cup RefundIds \cup Obligations \cup Actors

ASSUME RentAssumption == Rent \in [Obligations -> Nat \ {0}]

ASSUME RoleAssumption == Role \in [Actors -> MembershipRole]

(* The service rejects a payment or refund without allocations or with the *)
(* same line twice, so the amounts of a request name at least one line.    *)
ASSUME RequestsAssumption ==
  \A r \in Requests :
    \/ r \in CreateRequest
    \/ r \in PayRequest /\ Included(r.amounts) # {}
    \/ r \in RefundRequest /\ Included(r.amounts) # {}
    \/ r \in ResolveRequest

VARIABLES
  status, version,   \* of rent_obligations
  payment,           \* amount of a payment, 0 while it does not exist
  allocation,        \* payment_allocations: [PaymentIds -> Amounts]
  refundOf,          \* the payment a refund belongs to, or NoValue
  refundAllocation,  \* refund_allocations: [RefundIds -> Amounts]
  balance,           \* ledger balances, debits minus credits
  item,              \* reconciliation_items, at most one per payment or refund
  idem,              \* idempotency_records
  stage, req, seen,  \* of each request in service: step, input, what it read
  answer             \* its last answer

books == <<status, version, payment, allocation, refundOf, refundAllocation, balance>>
session == <<stage, req, seen, answer>>
vars == <<books, item, idem, session>>

-----------------------------------------------------------------------------
(* Totals the code derives from allocation rows. *)

(* All that was ever allocated to o: recordPayment does not subtract refunds. *)
Gross(o) == UnitSum([p \in PaymentIds |-> allocation[p][o]])

(* All that was refunded of o, and of one payment's allocation to o. *)
Refunded(o) == UnitSum([r \in RefundIds |-> refundAllocation[r][o]])
RefundedOf(p, o) ==
  UnitSum([r \in RefundIds |-> IF refundOf[r] = p THEN refundAllocation[r][o] ELSE 0])

Net(o) == Gross(o) - Refunded(o)

(* The idempotency record of a request: unique per actor, scope and key. *)
Slot(r) ==
  <<r.actor, r.key, r.op,
    CASE r.op = "create" -> LeaseOf[r.target]
      [] r.op = "pay"    -> NoValue
      [] r.op = "refund" -> r.target>>

Body(r) ==
  CASE r.op = "create" -> r.target
    [] r.op \in {"pay", "refund"} -> r.amounts

(* Faulty: a key taken by another request does not count. *)
RecordedSameBody(r) == {e \in idem : e.slot = Slot(r) /\ e.body = Body(r)}

Recorded(r) == {e \in idem : e.slot = Slot(r)}
Record(r, result) == idem' = idem \cup {[slot |-> Slot(r), body |-> Body(r), result |-> result]}

Unseen == [version |-> [o \in Obligations |-> 0], total |-> [o \in Obligations |-> 0]]
NoAnswer == [kind |-> "none", result |-> NoValue]

-----------------------------------------------------------------------------
(* Bookkeeping of the request in service. *)

At(c, s, op) == stage[c] = s /\ req[c].op = op

Reply(c, kind, result) ==
  /\ stage' = [stage EXCEPT ![c] = "idle"]
  /\ answer' = [answer EXCEPT ![c] = [kind |-> kind, result |-> result]]
  /\ seen' = [seen EXCEPT ![c] = Unseen]

Continue(c, s) ==
  /\ stage' = [stage EXCEPT ![c] = s]
  /\ UNCHANGED answer

(* Faulty: replays whatever the key was used for. *)
ReplayAnything(c, r) == \E e \in Recorded(r) : Reply(c, "replayed", e.result)

(* The stored response, if the key was used for the same request. *)
Replay(c, r) ==
  \E e \in Recorded(r) :
    IF e.body = Body(r)
    THEN Reply(c, "replayed", e.result)
    ELSE Reply(c, "idempotency_conflict", NoValue)

Permitted(r) ==
  Role[r.actor] \in
    IF r.op \in {"refund", "resolve"}
    THEN {"OWNER", "ACCOUNTANT"}
    ELSE {"OWNER", "PROPERTY_MANAGER", "ACCOUNTANT"}

(* Membership check and idempotency lookup, in the transaction's first *)
(* statements; resolveReconciliation takes no idempotency key.         *)
Begin(c, r) ==
  /\ stage[c] = "idle"
  /\ req' = [req EXCEPT ![c] = r]
  /\ \/ /\ ~Permitted(r)
        /\ Reply(c, IF r.op = "resolve" THEN "not_found" ELSE "forbidden", NoValue)
     \/ /\ Permitted(r)
        /\ r.op # "resolve"
        /\ Replay(c, r)
     \/ /\ Permitted(r)
        /\ IF r.op = "resolve" THEN TRUE ELSE Recorded(r) = {}
        /\ stage' = [stage EXCEPT ![c] = IF r.op = "create" THEN "commit" ELSE "load"]
        /\ answer' = [answer EXCEPT ![c] = NoAnswer]
        /\ UNCHANGED seen
  /\ UNCHANGED <<books, item, idem>>

(* A unique key was violated at commit: look the idempotency record up *)
(* again, outside the rolled-back transaction.                         *)
Recover(c) ==
  /\ stage[c] = "recover"
  /\ \/ Replay(c, req[c])
     \/ /\ Recorded(req[c]) = {}
        /\ Reply(c, IF req[c].op = "create" THEN "duplicate" ELSE "concurrent", NoValue)
  /\ UNCHANGED <<books, item, idem, req>>

(* The transaction rolls back for a reason outside this model: the process *)
(* dies, the connection is lost, the transaction times out, the database   *)
(* breaks a deadlock.  The client gets an error and may send again.        *)
Abort(c) ==
  /\ stage[c] # "idle"
  /\ Reply(c, "failed", NoValue)
  /\ UNCHANGED <<books, item, idem, req>>

-----------------------------------------------------------------------------
(* Faulty: the two sides exchanged. *)
PostReversed(debit, credit, amount) ==
  balance' = [balance EXCEPT ![debit] = @ - amount, ![credit] = @ + amount]

(* Double entry: debit one account and credit another. *)
Post(debit, credit, amount) ==
  balance' = [balance EXCEPT ![debit] = @ + amount, ![credit] = @ - amount]

OpenItem(i) == item' = [item EXCEPT ![i] = [status |-> "OPEN", version |-> 1, by |-> NoValue]]

(* The versions of the obligations a request names, 0 for the others. *)
VersionsOf(named) == [o \in Obligations |-> IF o \in named THEN version[o] ELSE 0]

(* Faulty: the status is written but the version is not incremented. *)
BumpNothing(named) == UNCHANGED version

Bump(named) ==
  version' = [o \in Obligations |-> IF o \in named THEN version[o] + 1 ELSE version[o]]

(* Faulty: updates by identifier only. *)
UnchangedOrNot(c) == TRUE

(* The updateMany calls all find the version the request read; a payment's  *)
(* also ask for an obligation that is still open.                           *)
Unchanged(c) ==
  \A o \in Included(req[c].amounts) :
    /\ version[o] = seen[c].version[o]
    /\ req[c].op = "pay" => status[o] \in Payable

(* rent.obligation.create: the lease and the period give the obligation, its *)
(* unique key is checked by the insert only.                                 *)
CommitCreate(c) ==
  LET r == req[c]
      o == r.target
  IN /\ At(c, "commit", "create")
     /\ \/ /\ status[o] = "ABSENT"
           /\ Recorded(r) = {}
           /\ status' = [status EXCEPT ![o] = "OPEN"]
           /\ version' = [version EXCEPT ![o] = 1]
           /\ Post("RENT_RECEIVABLE", "RENT_REVENUE", Rent[o])
           /\ Record(r, o)
           /\ Reply(c, "created", o)
        \/ /\ status[o] # "ABSENT" \/ Recorded(r) # {}
           /\ Continue(c, "recover")
           /\ UNCHANGED <<status, version, balance, idem, seen>>
     /\ UNCHANGED <<payment, allocation, refundOf, refundAllocation, item, req>>

(* recordPayment reads the open obligations and their versions ... *)
LoadPayment(c) ==
  LET named == Included(req[c].amounts)
      sameTenant == \A o1, o2 \in named : TenantOf[o1] = TenantOf[o2]
      open == \A o \in named : status[o] \in Payable
  IN /\ At(c, "load", "pay")
     /\ \/ ~open /\ Reply(c, "allocation_invalid", NoValue)
        \/ open /\ ~sameTenant /\ Reply(c, "tenant_mismatch", NoValue)
        \/ /\ open /\ sameTenant
           /\ seen' = [seen EXCEPT ![c].version = VersionsOf(named)]
           /\ Continue(c, "totals")
     /\ UNCHANGED <<books, item, idem, req>>

(* ... then their allocations, and checks the amounts against the rent. *)
CheckPayment(c) ==
  LET named == Included(req[c].amounts)
      fits == \A o \in named : Gross(o) + req[c].amounts[o] <= Rent[o]
  IN /\ At(c, "totals", "pay")
     /\ \/ ~fits /\ Reply(c, "allocation_invalid", NoValue)
        \/ /\ fits
           /\ seen' = [seen EXCEPT ![c].total =
                         [o \in Obligations |-> IF o \in named THEN Gross(o) ELSE 0]]
           /\ Continue(c, "commit")
     /\ UNCHANGED <<books, item, idem, req>>

(* Faulty: a status the schema does not know. *)
PaidStatusSettled(total, o) == IF total = Rent[o] THEN "SETTLED" ELSE "PARTIALLY_PAID"

PaidStatus(total, o) == IF total = Rent[o] THEN "PAID" ELSE "PARTIALLY_PAID"

(* The payment, its allocations, the obligations' status, the ledger, the    *)
(* review item and the idempotency record, or nothing.                       *)
CommitPayment(c) ==
  LET r == req[c]
      named == Included(r.amounts)
  IN /\ At(c, "commit", "pay")
     /\ \/ /\ ~Unchanged(c)
           /\ Reply(c, "concurrent", NoValue)
           /\ UNCHANGED <<books, item, idem>>
        \/ /\ Unchanged(c)
           /\ Recorded(r) # {}
           /\ Continue(c, "recover")
           /\ UNCHANGED <<books, item, idem, seen>>
        \/ /\ Unchanged(c)
           /\ Recorded(r) = {}
           /\ \E p \in PaymentIds :
                /\ payment[p] = 0
                /\ payment' = [payment EXCEPT ![p] = UnitSum(r.amounts)]
                /\ allocation' = [allocation EXCEPT ![p] = r.amounts]
                /\ OpenItem(p)
                /\ Record(r, p)
                /\ Reply(c, "created", p)
           /\ status' = [o \in Obligations |->
                IF o \in named
                THEN PaidStatus(seen[c].total[o] + r.amounts[o], o)
                ELSE status[o]]
           /\ Bump(named)
           /\ Post("CASH", "RENT_RECEIVABLE", UnitSum(r.amounts))
           /\ UNCHANGED <<refundOf, refundAllocation>>
     /\ UNCHANGED req

(* recordRefund reads the payment's allocations with what was refunded of     *)
(* each; the other relations it selects are loaded by later statements ...    *)
LoadRefund(c) ==
  LET r == req[c]
      named == Included(r.amounts)
      found == payment[r.target] > 0 /\ \A o \in named : allocation[r.target][o] > 0
      fits == \A o \in named :
                RefundedOf(r.target, o) + r.amounts[o] <= allocation[r.target][o]
  IN /\ At(c, "load", "refund")
     /\ \/ ~found /\ Reply(c, "not_found", NoValue)
        \/ found /\ ~fits /\ Reply(c, "allocation_invalid", NoValue)
        \/ found /\ fits /\ Continue(c, "versions") /\ UNCHANGED seen
     /\ UNCHANGED <<books, item, idem, req>>

(* ... the obligations with their versions ... *)
LoadRefundVersions(c) ==
  /\ At(c, "versions", "refund")
  /\ seen' = [seen EXCEPT ![c].version = VersionsOf(Included(req[c].amounts))]
  /\ Continue(c, "totals")
  /\ UNCHANGED <<books, item, idem, req>>

(* ... and all allocations of each obligation, less their refunds. *)
LoadRefundTotals(c) ==
  /\ At(c, "totals", "refund")
  /\ seen' = [seen EXCEPT ![c].total =
       [o \in Obligations |-> IF o \in Included(req[c].amounts) THEN Net(o) ELSE 0]]
  /\ Continue(c, "commit")
  /\ UNCHANGED <<books, item, idem, req>>

(* Faulty: an obligation is open only below nothing. *)
NetStatusBelow(net, o) ==
  CASE net < 0 -> "OPEN"
    [] net >= 0 /\ net >= Rent[o] -> "PAID"
    [] OTHER -> "PARTIALLY_PAID"

NetStatus(net, o) ==
  CASE net <= 0 -> "OPEN"
    [] net > 0 /\ net >= Rent[o] -> "PAID"
    [] OTHER -> "PARTIALLY_PAID"

CommitRefund(c) ==
  LET r == req[c]
      named == Included(r.amounts)
  IN /\ At(c, "commit", "refund")
     /\ \/ /\ ~Unchanged(c)
           /\ Reply(c, "concurrent", NoValue)
           /\ UNCHANGED <<books, item, idem>>
        \/ /\ Unchanged(c)
           /\ Recorded(r) # {}
           /\ Continue(c, "recover")
           /\ UNCHANGED <<books, item, idem, seen>>
        \/ /\ Unchanged(c)
           /\ Recorded(r) = {}
           /\ \E f \in RefundIds :
                /\ refundOf[f] = NoValue
                /\ refundOf' = [refundOf EXCEPT ![f] = r.target]
                /\ refundAllocation' = [refundAllocation EXCEPT ![f] = r.amounts]
                /\ OpenItem(f)
                /\ Record(r, f)
                /\ Reply(c, "created", f)
           /\ status' = [o \in Obligations |->
                IF o \in named
                THEN NetStatus(seen[c].total[o] - r.amounts[o], o)
                ELSE status[o]]
           /\ Bump(named)
           /\ Post("RENT_RECEIVABLE", "CASH", UnitSum(r.amounts))
           /\ UNCHANGED <<payment, allocation>>
     /\ UNCHANGED req

(* resolveReconciliation reads the item ... *)
LoadItem(c) ==
  LET r == req[c]
      i == item[r.target]
  IN /\ At(c, "load", "resolve")
     /\ \/ i.status = "NONE" /\ Reply(c, "not_found", NoValue)
        \/ i.status = "RESOLVED" /\ Reply(c, "resolved", r.target)
        \/ /\ i.status = "OPEN" /\ i.version # r.expected
           /\ Reply(c, "version_mismatch", NoValue)
        \/ /\ i.status = "OPEN" /\ i.version = r.expected
           /\ Continue(c, "commit")
           /\ UNCHANGED seen
     /\ UNCHANGED <<books, item, idem, req>>

(* Faulty: the item is updated by identifier only. *)
StillOpenOrNot(c) == TRUE

StillOpen(c) ==
  LET i == item[req[c].target] IN i.status = "OPEN" /\ i.version = req[c].expected

(* ... and resolves it if it is still open at the version read. *)
CommitItem(c) ==
  LET r == req[c]
      i == item[r.target]
  IN /\ At(c, "commit", "resolve")
     /\ \/ /\ ~StillOpen(c)
           /\ Reply(c, "concurrent", NoValue)
           /\ UNCHANGED item
        \/ /\ StillOpen(c)
           /\ item' = [item EXCEPT ![r.target] =
                [status |-> "RESOLVED", version |-> i.version + 1, by |-> r.actor]]
           /\ Reply(c, "resolved", r.target)
     /\ UNCHANGED <<books, idem, req>>

-----------------------------------------------------------------------------
Init ==
  /\ status = [o \in Obligations |-> "ABSENT"]
  /\ version = [o \in Obligations |-> 0]
  /\ payment = [p \in PaymentIds |-> 0]
  /\ allocation = [p \in PaymentIds |-> [o \in Obligations |-> 0]]
  /\ refundOf = [f \in RefundIds |-> NoValue]
  /\ refundAllocation = [f \in RefundIds |-> [o \in Obligations |-> 0]]
  /\ balance = [a \in Accounts |-> 0]
  /\ item = [i \in Items |-> [status |-> "NONE", version |-> 0, by |-> NoValue]]
  /\ idem = {}
  /\ stage = [c \in Clients |-> "idle"]
  /\ req = [c \in Clients |-> NoValue]
  /\ seen = [c \in Clients |-> Unseen]
  /\ answer = [c \in Clients |-> NoAnswer]

(* A request in service moves on: its statements run, one after another. *)
Serve(c) ==
  \/ CommitCreate(c)
  \/ LoadPayment(c) \/ CheckPayment(c) \/ CommitPayment(c)
  \/ LoadRefund(c) \/ LoadRefundVersions(c) \/ LoadRefundTotals(c) \/ CommitRefund(c)
  \/ LoadItem(c) \/ CommitItem(c)
  \/ Recover(c)

Next ==
  \E c \in Clients :
    \/ \E r \in Requests : Begin(c, r)
    \/ Serve(c)
    \/ Abort(c)

Spec == Init /\ [][Next]_vars

-----------------------------------------------------------------------------
KeyedRequests == {r \in Requests : r.op # "resolve"}
IdempotencyRecord ==
  [slot : {Slot(r) : r \in KeyedRequests}, body : {Body(r) : r \in KeyedRequests},
   result : Obligations \cup Items]

AnswerKinds ==
  {"none", "created", "replayed", "resolved", "forbidden", "not_found", "failed",
   "idempotency_conflict", "duplicate", "concurrent", "allocation_invalid",
   "tenant_mismatch", "version_mismatch"}

Versions == [Obligations -> Nat]
Reading == [version : Versions, total : [Obligations -> Int]]
ItemRow == [status : {"NONE", "OPEN", "RESOLVED"}, version : Nat, by : Actors \cup {NoValue}]
Answer == [kind : AnswerKinds, result : Obligations \cup Items \cup {NoValue}]

BooksOK ==
  /\ status \in [Obligations -> {"ABSENT", "OPEN", "PARTIALLY_PAID", "PAID"}]
  /\ version \in Versions
  /\ payment \in [PaymentIds -> Nat]
  /\ allocation \in [PaymentIds -> Amounts]
  /\ refundOf \in [RefundIds -> PaymentIds \cup {NoValue}]
  /\ refundAllocation \in [RefundIds -> Amounts]
  /\ balance \in [Accounts -> Int]

QueueOK == item \in [Items -> ItemRow] /\ idem \subseteq IdempotencyRecord

SessionOK ==
  /\ stage \in [Clients -> {"idle", "load", "versions", "totals", "commit", "recover"}]
  /\ req \in [Clients -> Requests \cup {NoValue}]
  /\ \A c \in Clients : stage[c] # "idle" => req[c] \in Requests
  /\ seen \in [Clients -> Reading]
  /\ answer \in [Clients -> Answer]

(* Every variable of the books and of the requests in service has its type. *)
TypeOK == BooksOK /\ QueueOK /\ SessionOK

(* However payments race, no obligation is ever allocated more than its rent *)
(* (recordPayment's check, made on rows read before the versioned update).   *)
NoOverAllocation == \A o \in Obligations : Gross(o) <= Rent[o]

(* However refunds race, no payment line is refunded beyond what it allocated: *)
(* recordRefund's check, made on refunds read before the obligation's version. *)
NoOverRefund ==
  \A p \in PaymentIds, o \in Obligations : RefundedOf(p, o) <= allocation[p][o]

(* The ledger's balances are derivable from the obligations, allocations and *)
(* refunds: what tenants owe, what was received and what was charged.        *)
LedgerAgrees ==
  LET charged == [o \in Obligations |-> IF status[o] = "ABSENT" THEN 0 ELSE Rent[o]]
      gross == [o \in Obligations |-> Gross(o)]
      refunded == [o \in Obligations |-> Refunded(o)]
  IN /\ balance["RENT_REVENUE"] = 0 - UnitSum(charged)
     /\ balance["CASH"] = UnitSum(payment) - UnitSum(refunded)
     /\ balance["RENT_RECEIVABLE"] = UnitSum(charged) - UnitSum(gross) + UnitSum(refunded)

(* A key has at most one outcome, and every charge, payment and refund is the *)
(* outcome of exactly one key: retries and races never post twice.            *)
EffectsAreKeyed ==
  /\ \A e1, e2 \in idem : e1.slot = e2.slot => e1 = e2
  /\ \A o \in Obligations : status[o] # "ABSENT" <=> \E e \in idem : e.result = o
  /\ \A p \in PaymentIds : payment[p] > 0 <=> \E e \in idem : e.result = p
  /\ \A f \in RefundIds : refundOf[f] # NoValue <=> \E e \in idem : e.result = f
  /\ \A e1, e2 \in idem : e1.result = e2.result => e1 = e2

(* Whoever is told "created" or "replayed" is told about a posting of exactly *)
(* what it asked for.                                                         *)
AnswersAreTrue ==
  \A c \in Clients :
    LET r == req[c]
        found == answer[c].result
    IN stage[c] = "idle" /\ answer[c].kind \in {"created", "replayed"} =>
         CASE r.op = "create" -> found = r.target /\ status[found] # "ABSENT"
           [] r.op = "pay"    -> found \in PaymentIds /\ allocation[found] = r.amounts
           [] r.op = "refund" -> /\ found \in RefundIds /\ refundOf[found] = r.target
                                 /\ refundAllocation[found] = r.amounts

(* A payment is refused for its amount only if it "exceeds an open            *)
(* obligation": an obligation shown as open accepts what is still owed of it. *)
OpenCanBePaid ==
  \A o \in Obligations : status[o] \in {"OPEN", "PARTIALLY_PAID"} => Gross(o) < Rent[o]

(* Optimistic locking is sound only if every change to what an obligation's *)
(* readers derive from it moves its version.                                *)
ChangesMoveVersion ==
  [][\A o \in Obligations :
       \/ status[o]' # status[o] \/ Gross(o)' # Gross(o) \/ Refunded(o)' # Refunded(o)
       => version[o]' = version[o] + 1]_vars

(* The status a posting stores, computed from totals read statements earlier, *)
(* is what the rows say as the posting leaves them: a payment settles the     *)
(* obligation when all of the rent was allocated, a refund reopens it when    *)
(* nothing is left, and keeps it settled when nothing is owed.                *)
StatusesAreCurrent ==
  [][\A o \in Obligations :
       /\ Gross(o)' # Gross(o) =>
            status[o]' = IF Gross(o)' = Rent[o] THEN "PAID" ELSE "PARTIALLY_PAID"
       /\ Refunded(o)' # Refunded(o) =>
            /\ status[o]' = "OPEN" <=> Net(o)' <= 0
            /\ status[o]' = "PAID" <=> Net(o)' >= Rent[o]
            /\ status[o]' \in {"OPEN", "PARTIALLY_PAID", "PAID"}
       /\ status[o]' # status[o] =>
            \/ status[o] = "ABSENT" /\ status[o]' = "OPEN"
            \/ Gross(o)' # Gross(o) \/ Refunded(o)' # Refunded(o)]_vars

(* Once resolved, an item keeps its resolver and version, whoever else had *)
(* read it as open.                                                        *)
ResolutionIsFinal ==
  [][\A i \in Items : item[i].status = "RESOLVED" => item[i]' = item[i]]_vars

-----------------------------------------------------------------------------
(* What the properties rest on: the inductive invariant of RentSafetyProofs. *)

(* A row that does not exist holds nothing and is under no review. *)
UnusedIsEmpty ==
  /\ \A p \in PaymentIds : payment[p] = 0 =>
       item[p].status = "NONE" /\ \A o \in Obligations : allocation[p][o] = 0
  /\ \A f \in RefundIds : refundOf[f] = NoValue =>
       item[f].status = "NONE" /\ \A o \in Obligations : refundAllocation[f][o] = 0

AbsentIsNew == \A o \in Obligations : status[o] = "ABSENT" => version[o] = 0

(* A request has read no version that does not exist yet, and what it checked *)
(* is true of every obligation whose version is still the one it read.        *)
ReadingIsPast(c) == \A o \in Obligations : seen[c].version[o] <= version[o]

PaymentStillFits(c) ==
  At(c, "commit", "pay") =>
    \A o \in Included(req[c].amounts) :
      version[o] = seen[c].version[o] => Gross(o) + req[c].amounts[o] <= Rent[o]

(* What remains true of recordRefund's check: a line's amount never changes,   *)
(* but its refunds may have grown since, unnoticed (NoOverRefund).            *)
RefundFitsLine(c) ==
  stage[c] \in {"versions", "totals", "commit"} /\ req[c].op = "refund" =>
    LET p == req[c].target IN
    /\ payment[p] > 0
    /\ \A o \in Included(req[c].amounts) : req[c].amounts[o] <= allocation[p][o]

ReadingOK(c) == ReadingIsPast(c) /\ PaymentStillFits(c) /\ RefundFitsLine(c)

(* Between a request's check and its commit, what it checked stays true of   *)
(* every obligation nobody has posted to since (the versions recordPayment   *)
(* keeps) or for good; hence nothing is paid beyond its due.                 *)
SafetyInv ==
  /\ UnusedIsEmpty /\ AbsentIsNew
  /\ NoOverAllocation
  /\ \A c \in Clients : ReadingOK(c)

-----------------------------------------------------------------------------
(* The books as accounts of their obligations. *)
Account ==
  INSTANCE RentAccount WITH
    due <- [o \in Obligations |-> IF status[o] = "ABSENT" THEN 0 ELSE Rent[o]],
    received <- [o \in Obligations |-> Gross(o)],
    returned <- [o \in Obligations |-> Refunded(o)]

(* The requests, with all their races, implement the accounts. *)
ImplementsAccount == Account!Spec

=============================================================================
