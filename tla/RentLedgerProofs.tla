-------------------------- MODULE RentLedgerProofs --------------------------
(***************************************************************************)
(* Theorems about RentLedger, for any number of clients, obligations,      *)
(* payments, refunds, keys and amounts.                                    *)
(***************************************************************************)
EXTENDS RentLedger, UnitSumsProofs

(* What each kind of request carries. *)
LEMMA RequestShape ==
  ASSUME NEW r \in Requests
  PROVE  /\ r.op \in {"create", "pay", "refund", "resolve"}
         /\ r.op = "create" => r.target \in Obligations
         /\ r.op \in {"pay", "refund"} => r.amounts \in Amounts /\ Included(r.amounts) # {}
         /\ r.op = "refund" => r.target \in PaymentIds
         /\ r.op = "resolve" => r.target \in Items /\ r.actor \in Actors /\ r.expected \in Nat
BY RequestsAssumption DEF CreateRequest, PayRequest, RefundRequest, ResolveRequest

(* A request carries a positive amount of money. *)
LEMMA AmountsPositive ==
  ASSUME NEW amounts \in Amounts
  PROVE  /\ UnitSum(amounts) \in Nat
         /\ Included(amounts) # {} => UnitSum(amounts) > 0
BY SetsAssumption, UnitSumType, UnitSumPositive DEF Amounts, Included

(* The totals of allocation rows are natural numbers. *)
LEMMA TotalsType ==
  ASSUME BooksOK, NEW o \in Obligations
  PROVE  Gross(o) \in Nat /\ Refunded(o) \in Nat /\ Net(o) \in Int
<1>1. [p \in PaymentIds |-> allocation[p][o]] \in [PaymentIds -> Nat]
  BY DEF BooksOK, Amounts
<1>2. [r \in RefundIds |-> refundAllocation[r][o]] \in [RefundIds -> Nat]
  BY DEF BooksOK, Amounts
<1> QED BY <1>1, <1>2, SetsAssumption, UnitSumType DEF Gross, Refunded, Net

(* Answering a request keeps the session well typed. *)
LEMMA ReplyType ==
  ASSUME SessionOK, NEW c \in Clients, NEW kind \in AnswerKinds,
         NEW result \in Obligations \cup Items \cup {NoValue},
         Reply(c, kind, result), UNCHANGED req
  PROVE  SessionOK'
BY DEF SessionOK, Reply, Reading, Versions, Unseen, Answer

(* A step of a transaction that reads keeps it well typed. *)
LEMMA ContinueType ==
  ASSUME SessionOK, NEW c \in Clients, stage[c] # "idle",
         NEW s \in {"load", "versions", "totals", "commit", "recover"},
         Continue(c, s), UNCHANGED req, seen' \in [Clients -> Reading]
  PROVE  SessionOK'
BY DEF SessionOK, Continue

(* Replaying a recorded answer. *)
LEMMA ReplayType ==
  ASSUME SessionOK, QueueOK, NEW c \in Clients, NEW r, Replay(c, r), UNCHANGED req
  PROVE  SessionOK'
<1> PICK e \in Recorded(r) : IF e.body = Body(r)
                             THEN Reply(c, "replayed", e.result)
                             ELSE Reply(c, "idempotency_conflict", NoValue)
  BY DEF Replay
<1>1. e.result \in Obligations \cup Items
  BY DEF Recorded, QueueOK, IdempotencyRecord
<1>2. {"replayed", "idempotency_conflict"} \subseteq AnswerKinds
  BY DEF AnswerKinds
<1>3. CASE e.body = Body(r)
  BY <1>1, <1>2, <1>3, ReplyType
<1>4. CASE e.body # Body(r)
  BY <1>2, <1>4, ReplyType
<1> QED BY <1>3, <1>4

-----------------------------------------------------------------------------
(* The initial state is well typed. *)
LEMMA InitTypeOK == Init => TypeOK
BY SetsAssumption DEF Init, TypeOK, BooksOK, QueueOK, SessionOK, Amounts, Versions,
   ItemRow, IdempotencyRecord, Reading, Unseen, Answer, NoAnswer, AnswerKinds, Accounts

(* Steps that only read, or that post nothing, keep the types. *)
LEMMA BeginTypeOK ==
  ASSUME TypeOK, NEW c \in Clients, NEW r \in Requests, Begin(c, r)
  PROVE  TypeOK'
<1> USE DEF TypeOK
<1>1. BooksOK' /\ QueueOK'
  BY DEF Begin, books, BooksOK, QueueOK, IdempotencyRecord
<1> DEFINE other == req' = [req EXCEPT ![c] = r]
<1>2. other BY DEF Begin
<1>3. req' \in [Clients -> Requests \cup {NoValue}]
  BY <1>2 DEF SessionOK
<1>4. ASSUME NEW kind \in AnswerKinds, NEW result \in Obligations \cup Items \cup {NoValue},
             Reply(c, kind, result)
      PROVE  SessionOK'
  BY <1>2, <1>3, <1>4 DEF SessionOK, Reply, Reading, Versions, Unseen, Answer
<1>5. CASE Reply(c, IF r.op = "resolve" THEN "not_found" ELSE "forbidden", NoValue)
  <2>1. (IF r.op = "resolve" THEN "not_found" ELSE "forbidden") \in AnswerKinds
    BY DEF AnswerKinds
  <2> QED BY <1>1, <1>4, <1>5, <2>1
<1>6. CASE Replay(c, r)
  <2> PICK e \in Recorded(r) : IF e.body = Body(r)
                               THEN Reply(c, "replayed", e.result)
                               ELSE Reply(c, "idempotency_conflict", NoValue)
    BY <1>6 DEF Replay
  <2>1. e.result \in Obligations \cup Items
    BY DEF Recorded, QueueOK, IdempotencyRecord
  <2>2. {"replayed", "idempotency_conflict"} \subseteq AnswerKinds
    BY DEF AnswerKinds
  <2>3. SessionOK'
    <3>1. CASE e.body = Body(r)  BY <1>4, <2>1, <2>2, <3>1
    <3>2. CASE e.body # Body(r)  BY <1>4, <2>2, <3>2
    <3> QED BY <3>1, <3>2
  <2> QED BY <1>1, <2>3
<1>7. CASE /\ stage' = [stage EXCEPT ![c] = IF r.op = "create" THEN "commit" ELSE "load"]
           /\ answer' = [answer EXCEPT ![c] = NoAnswer]
           /\ UNCHANGED seen
  BY <1>1, <1>2, <1>3, <1>7 DEF SessionOK, Answer, NoAnswer, AnswerKinds
<1> QED BY <1>5, <1>6, <1>7 DEF Begin

LEMMA ReadTypeOK ==
  ASSUME TypeOK, NEW c \in Clients,
         \/ LoadPayment(c) \/ CheckPayment(c) \/ LoadRefund(c) \/ LoadRefundVersions(c)
         \/ LoadRefundTotals(c) \/ LoadItem(c) \/ Recover(c) \/ Abort(c)
  PROVE  TypeOK'
<1> USE DEF TypeOK
<1> DEFINE named == Included(req[c].amounts)
<1>1. BooksOK' /\ QueueOK' /\ UNCHANGED req
  BY DEF LoadPayment, CheckPayment, LoadRefund, LoadRefundVersions, LoadRefundTotals,
         LoadItem, Recover, Abort, books, BooksOK, QueueOK, IdempotencyRecord
<1>2. stage[c] # "idle" /\ req[c] \in Requests
  BY DEF LoadPayment, CheckPayment, LoadRefund, LoadRefundVersions, LoadRefundTotals,
         LoadItem, Recover, Abort, At, SessionOK
<1>3. {"allocation_invalid", "tenant_mismatch", "not_found", "resolved", "version_mismatch",
       "duplicate", "concurrent", "failed"} \subseteq AnswerKinds
  BY DEF AnswerKinds
<1>4. ASSUME NEW kind \in AnswerKinds, Reply(c, kind, NoValue)
      PROVE  SessionOK'
  BY <1>1, <1>4, ReplyType
<1>5. VersionsOf(named) \in Versions /\ seen[c] \in Reading
  BY DEF VersionsOf, BooksOK, Versions, SessionOK
<1>6. ASSUME seen' = [seen EXCEPT ![c].version = VersionsOf(named)]
      PROVE  seen' \in [Clients -> Reading]
  BY <1>5, <1>6 DEF SessionOK, Reading
<1>7. ASSUME NEW total \in [Obligations -> Int], seen' = [seen EXCEPT ![c].total = total]
      PROVE  seen' \in [Clients -> Reading]
  BY <1>5, <1>7 DEF SessionOK, Reading
<1>8. CASE LoadPayment(c)
  <2>1. CASE Reply(c, "allocation_invalid", NoValue)  BY <1>1, <1>3, <1>4, <2>1
  <2>2. CASE Reply(c, "tenant_mismatch", NoValue)  BY <1>1, <1>3, <1>4, <2>2
  <2>3. CASE seen' = [seen EXCEPT ![c].version = VersionsOf(named)] /\ Continue(c, "totals")
    BY <1>1, <1>2, <1>6, <2>3, ContinueType
  <2> QED BY <1>8, <2>1, <2>2, <2>3 DEF LoadPayment
<1>9. CASE CheckPayment(c)
  <2> DEFINE total == [o \in Obligations |-> IF o \in named THEN Gross(o) ELSE 0]
  <2>1. total \in [Obligations -> Int]
    BY TotalsType
  <2> HIDE DEF total
  <2>2. CASE Reply(c, "allocation_invalid", NoValue)  BY <1>1, <1>3, <1>4, <2>2
  <2>3. CASE seen' = [seen EXCEPT ![c].total = total] /\ Continue(c, "commit")
    BY <1>1, <1>2, <1>7, <2>1, <2>3, ContinueType
  <2> QED BY <1>9, <2>2, <2>3 DEF CheckPayment, total
<1>10. CASE LoadRefund(c)
  <2>1. CASE Reply(c, "not_found", NoValue)  BY <1>1, <1>3, <1>4, <2>1
  <2>2. CASE Reply(c, "allocation_invalid", NoValue)  BY <1>1, <1>3, <1>4, <2>2
  <2>3. CASE seen' = [seen EXCEPT ![c].version = VersionsOf(named)] /\ Continue(c, "totals")
    BY <1>1, <1>2, <1>6, <2>3, ContinueType
  <2>4. CASE UNCHANGED seen /\ Continue(c, "versions")
    BY <1>1, <1>2, <2>4, ContinueType DEF SessionOK
  <2> QED BY <1>10, <2>1, <2>2, <2>3, <2>4 DEF LoadRefund
<1>11. CASE LoadRefundVersions(c)
  BY <1>1, <1>2, <1>6, <1>11, ContinueType DEF LoadRefundVersions
<1>12. CASE LoadRefundTotals(c)
  <2> DEFINE total == [o \in Obligations |-> IF o \in named THEN Net(o) ELSE 0]
  <2>1. total \in [Obligations -> Int]
    BY TotalsType
  <2> HIDE DEF total
  <2>2. seen' = [seen EXCEPT ![c].total = total] /\ Continue(c, "commit")
    BY <1>12 DEF LoadRefundTotals, total
  <2> QED BY <1>1, <1>2, <1>7, <2>1, <2>2, ContinueType
<1>13. CASE LoadItem(c)
  <2>1. CASE Reply(c, "not_found", NoValue)  BY <1>1, <1>3, <1>4, <2>1
  <2>2. CASE Reply(c, "version_mismatch", NoValue)  BY <1>1, <1>3, <1>4, <2>2
  <2>3. CASE Reply(c, "resolved", req[c].target)
    <3>1. req[c].target \in Items
      BY <1>2, <1>13, RequestShape DEF LoadItem, At
    <3> QED BY <1>1, <1>3, <2>3, <3>1, ReplyType
  <2>4. CASE UNCHANGED seen /\ Continue(c, "commit")
    BY <1>1, <1>2, <2>4, ContinueType DEF SessionOK
  <2> QED BY <1>13, <2>1, <2>2, <2>3, <2>4 DEF LoadItem
<1>14. CASE Recover(c)
  <2>1. CASE Replay(c, req[c])  BY <1>1, <2>1, ReplayType
  <2>2. CASE Reply(c, IF req[c].op = "create" THEN "duplicate" ELSE "concurrent", NoValue)
    <3>1. (IF req[c].op = "create" THEN "duplicate" ELSE "concurrent") \in AnswerKinds
      BY <1>3
    <3> QED BY <1>1, <1>4, <2>2, <3>1
  <2> QED BY <1>14, <2>1, <2>2 DEF Recover
<1>15. CASE Abort(c)
  BY <1>1, <1>3, <1>4, <1>15 DEF Abort
<1> QED BY <1>8, <1>9, <1>10, <1>11, <1>12, <1>13, <1>14, <1>15

(* Recording the outcome of a keyed request. *)
LEMMA RecordType ==
  ASSUME QueueOK, NEW r \in Requests, r.op # "resolve", NEW result \in Obligations \cup Items,
         Record(r, result)
  PROVE  idem' \subseteq IdempotencyRecord
BY DEF QueueOK, Record, IdempotencyRecord, KeyedRequests

(* Posting moves amounts between accounts. *)
LEMMA PostType ==
  ASSUME BooksOK, NEW debit \in Accounts, NEW credit \in Accounts, NEW amount \in Nat,
         Post(debit, credit, amount)
  PROVE  balance' \in [Accounts -> Int]
BY DEF BooksOK, Post

LEMMA CommitCreateTypeOK ==
  ASSUME TypeOK, NEW c \in Clients, CommitCreate(c)
  PROVE  TypeOK'
<1> DEFINE r == req[c]
<1> DEFINE o == r.target
<1> USE DEF TypeOK
<1>1. stage[c] # "idle" /\ r \in Requests /\ r.op = "create" /\ o \in Obligations
  BY RequestShape DEF CommitCreate, At, SessionOK
<1>2. CASE /\ status' = [status EXCEPT ![o] = "OPEN"]
           /\ version' = [version EXCEPT ![o] = 1]
           /\ Post("RENT_RECEIVABLE", "RENT_REVENUE", Rent[o])
           /\ Record(r, o)
           /\ Reply(c, "created", o)
  <2>1. UNCHANGED <<payment, allocation, refundOf, refundAllocation, item, req>>
    BY DEF CommitCreate
  <2>2. balance' \in [Accounts -> Int]
    BY <1>1, <1>2, PostType, RentAssumption DEF Accounts
  <2>3. BooksOK'
    BY <1>2, <2>1, <2>2 DEF BooksOK, Versions
  <2>4. QueueOK'
    BY <1>1, <1>2, <2>1, RecordType DEF QueueOK
  <2>5. SessionOK'
    BY <1>1, <1>2, <2>1, ReplyType DEF AnswerKinds
  <2> QED BY <2>3, <2>4, <2>5
<1>3. CASE Continue(c, "recover") /\ UNCHANGED <<status, version, balance, idem, seen>>
  <2>1. UNCHANGED <<payment, allocation, refundOf, refundAllocation, item, req>>
    BY DEF CommitCreate
  <2>2. BooksOK' /\ QueueOK'
    BY <1>3, <2>1 DEF BooksOK, QueueOK, IdempotencyRecord
  <2>3. SessionOK'
    BY <1>1, <1>3, <2>1, ContinueType DEF SessionOK
  <2> QED BY <2>2, <2>3
<1> QED BY <1>2, <1>3 DEF CommitCreate

(* Writing the status and version of some obligations keeps their types. *)
LEMMA StatusType ==
  ASSUME BooksOK, NEW new, NEW named,
         \A o \in Obligations : new[o] \in {"OPEN", "PARTIALLY_PAID", "PAID"},
         status' = [o \in Obligations |-> IF o \in named THEN new[o] ELSE status[o]],
         Bump(named)
  PROVE  /\ status' \in [Obligations -> {"ABSENT", "OPEN", "PARTIALLY_PAID", "PAID"}]
         /\ version' \in Versions
BY DEF BooksOK, Bump, Versions

LEMMA CommitPaymentTypeOK ==
  ASSUME TypeOK, NEW c \in Clients, CommitPayment(c)
  PROVE  TypeOK'
<1> DEFINE r == req[c]
<1> DEFINE named == Included(r.amounts)
<1> DEFINE new == [o \in Obligations |-> PaidStatus(seen[c].total[o] + r.amounts[o], o)]
<1> USE DEF TypeOK
<1>1. /\ stage[c] # "idle" /\ r \in Requests /\ r.op = "pay" /\ r.amounts \in Amounts
      /\ UNCHANGED req
  BY RequestShape DEF CommitPayment, At, SessionOK
<1>2. CASE Reply(c, "concurrent", NoValue) /\ UNCHANGED <<books, item, idem>>
  <2>1. BooksOK' /\ QueueOK'
    BY <1>2 DEF books, BooksOK, QueueOK, IdempotencyRecord
  <2> QED BY <1>1, <1>2, <2>1, ReplyType DEF AnswerKinds
<1>3. CASE Continue(c, "recover") /\ UNCHANGED <<books, item, idem, seen>>
  <2>1. BooksOK' /\ QueueOK'
    BY <1>3 DEF books, BooksOK, QueueOK, IdempotencyRecord
  <2> QED BY <1>1, <1>3, <2>1, ContinueType DEF SessionOK
<1>4. ASSUME NEW p \in PaymentIds,
             payment' = [payment EXCEPT ![p] = UnitSum(r.amounts)],
             allocation' = [allocation EXCEPT ![p] = r.amounts],
             OpenItem(p), Record(r, p), Reply(c, "created", p),
             status' = [o \in Obligations |-> IF o \in named THEN new[o] ELSE status[o]],
             Bump(named),
             Post("CASH", "RENT_RECEIVABLE", UnitSum(r.amounts)),
             UNCHANGED <<refundOf, refundAllocation>>
      PROVE  TypeOK'
  <2>1. UnitSum(r.amounts) \in Nat
    BY <1>1, AmountsPositive
  <2>2. balance' \in [Accounts -> Int]
    BY <1>4, <2>1, PostType DEF Accounts
  <2>3. \A o \in Obligations : new[o] \in {"OPEN", "PARTIALLY_PAID", "PAID"}
    BY DEF PaidStatus
  <2> HIDE DEF new, named
  <2>4. /\ status' \in [Obligations -> {"ABSENT", "OPEN", "PARTIALLY_PAID", "PAID"}]
        /\ version' \in Versions
    BY <1>4, <2>3, StatusType
  <2>5. BooksOK'
    BY <1>1, <1>4, <2>1, <2>2, <2>4 DEF BooksOK
  <2>6. QueueOK'
    BY <1>1, <1>4, RecordType DEF QueueOK, OpenItem, ItemRow, Items
  <2>7. SessionOK'
    BY <1>1, <1>4, ReplyType DEF AnswerKinds, Items
  <2> QED BY <2>5, <2>6, <2>7
<1> QED BY <1>2, <1>3, <1>4 DEF CommitPayment

LEMMA CommitRefundTypeOK ==
  ASSUME TypeOK, NEW c \in Clients, CommitRefund(c)
  PROVE  TypeOK'
<1> DEFINE r == req[c]
<1> DEFINE named == Included(r.amounts)
<1> DEFINE new == [o \in Obligations |-> NetStatus(seen[c].total[o] - r.amounts[o], o)]
<1> USE DEF TypeOK
<1>1. /\ stage[c] # "idle" /\ r \in Requests /\ r.op = "refund" /\ r.amounts \in Amounts
      /\ r.target \in PaymentIds /\ UNCHANGED req
  BY RequestShape DEF CommitRefund, At, SessionOK
<1>2. CASE Reply(c, "concurrent", NoValue) /\ UNCHANGED <<books, item, idem>>
  <2>1. BooksOK' /\ QueueOK'
    BY <1>2 DEF books, BooksOK, QueueOK, IdempotencyRecord
  <2> QED BY <1>1, <1>2, <2>1, ReplyType DEF AnswerKinds
<1>3. CASE Continue(c, "recover") /\ UNCHANGED <<books, item, idem, seen>>
  <2>1. BooksOK' /\ QueueOK'
    BY <1>3 DEF books, BooksOK, QueueOK, IdempotencyRecord
  <2> QED BY <1>1, <1>3, <2>1, ContinueType DEF SessionOK
<1>4. ASSUME NEW f \in RefundIds,
             refundOf' = [refundOf EXCEPT ![f] = r.target],
             refundAllocation' = [refundAllocation EXCEPT ![f] = r.amounts],
             OpenItem(f), Record(r, f), Reply(c, "created", f),
             status' = [o \in Obligations |-> IF o \in named THEN new[o] ELSE status[o]],
             Bump(named),
             Post("RENT_RECEIVABLE", "CASH", UnitSum(r.amounts)),
             UNCHANGED <<payment, allocation>>
      PROVE  TypeOK'
  <2>1. UnitSum(r.amounts) \in Nat
    BY <1>1, AmountsPositive
  <2>2. balance' \in [Accounts -> Int]
    BY <1>4, <2>1, PostType DEF Accounts
  <2>3. \A o \in Obligations : new[o] \in {"OPEN", "PARTIALLY_PAID", "PAID"}
    <3> TAKE o \in Obligations
    <3> DEFINE net == seen[c].total[o] - r.amounts[o]
    <3>1. net \in Int /\ Rent[o] \in Nat
      BY <1>1, RentAssumption DEF SessionOK, Reading, Amounts
    <3> HIDE DEF net
    <3>2. NetStatus(net, o) \in {"OPEN", "PARTIALLY_PAID", "PAID"}
      BY <3>1 DEF NetStatus
    <3> QED BY <3>2 DEF net
  <2> HIDE DEF new, named
  <2>4. /\ status' \in [Obligations -> {"ABSENT", "OPEN", "PARTIALLY_PAID", "PAID"}]
        /\ version' \in Versions
    BY <1>4, <2>3, StatusType
  <2>5. BooksOK'
    BY <1>1, <1>4, <2>2, <2>4 DEF BooksOK
  <2>6. QueueOK'
    BY <1>1, <1>4, RecordType DEF QueueOK, OpenItem, ItemRow, Items
  <2>7. SessionOK'
    BY <1>1, <1>4, ReplyType DEF AnswerKinds, Items
  <2> QED BY <2>5, <2>6, <2>7
<1> QED BY <1>2, <1>3, <1>4 DEF CommitRefund

LEMMA CommitItemTypeOK ==
  ASSUME TypeOK, NEW c \in Clients, CommitItem(c)
  PROVE  TypeOK'
<1> DEFINE r == req[c]
<1> USE DEF TypeOK
<1>1. /\ r \in Requests /\ r.target \in Items /\ r.actor \in Actors
      /\ UNCHANGED <<books, idem, req>>
  BY RequestShape DEF CommitItem, At, SessionOK
<1>2. BooksOK'
  BY <1>1 DEF BooksOK, books
<1>3. CASE Reply(c, "concurrent", NoValue) /\ UNCHANGED item
  BY <1>1, <1>2, <1>3, ReplyType DEF AnswerKinds, QueueOK, IdempotencyRecord
<1>4. CASE /\ item' = [item EXCEPT ![r.target] = [status |-> "RESOLVED",
                        version |-> item[r.target].version + 1, by |-> r.actor]]
           /\ Reply(c, "resolved", r.target)
  <2>1. QueueOK'
    BY <1>1, <1>4 DEF QueueOK, ItemRow, IdempotencyRecord
  <2>2. SessionOK'
    BY <1>1, <1>4, ReplyType DEF AnswerKinds
  <2> QED BY <1>2, <2>1, <2>2
<1> QED BY <1>3, <1>4 DEF CommitItem

LEMMA NextTypeOK == TypeOK /\ [Next]_vars => TypeOK'
<1> SUFFICES ASSUME TypeOK, [Next]_vars PROVE TypeOK'
  OBVIOUS
<1>1. CASE UNCHANGED vars
  BY <1>1 DEF vars, books, session, TypeOK, BooksOK, QueueOK, SessionOK, IdempotencyRecord
<1>2. ASSUME NEW c \in Clients, \E r \in Requests : Begin(c, r) PROVE TypeOK'
  BY <1>2, BeginTypeOK
<1>3. ASSUME NEW c \in Clients, Serve(c) PROVE TypeOK'
  BY <1>3, ReadTypeOK, CommitCreateTypeOK, CommitPaymentTypeOK, CommitRefundTypeOK,
     CommitItemTypeOK DEF Serve
<1>4. ASSUME NEW c \in Clients, Abort(c) PROVE TypeOK'
  BY <1>4, ReadTypeOK
<1> QED BY <1>1, <1>2, <1>3, <1>4 DEF Next

(* The books, the queue, the keys and the requests in service always have the *)
(* types the schema gives them.                                               *)
THEOREM TypeCorrect == Spec => []TypeOK
BY InitTypeOK, NextTypeOK, PTL DEF Spec

=============================================================================
