--------------------------- MODULE RentBooksProofs ---------------------------
(***************************************************************************)
(* The books of RentLedger agree with each other: the ledger with the      *)
(* obligations, allocations and refunds it was posted for, the idempotency *)
(* records and the answers with the rows they name, the statuses with what *)
(* the rows add up to, and all of it with the accounts of RentAccount.     *)
(***************************************************************************)
EXTENDS RentSafetyProofs

-----------------------------------------------------------------------------
(* What the agreement rests on, beyond the invariant of RentSafetyProofs. *)

(* Money was only ever received for rent that was charged. *)
AllocatedIsCharged ==
  \A p \in PaymentIds, o \in Obligations : allocation[p][o] > 0 => status[o] # "ABSENT"

(* An idempotency record names a row that says what its request asked for. *)
Describes(e) ==
  \/ e.slot[3] = "create" /\ e.body \in Obligations /\ e.result = e.body
  \/ /\ e.slot[3] = "pay" /\ e.result \in PaymentIds
     /\ payment[e.result] > 0 /\ allocation[e.result] = e.body
  \/ /\ e.slot[3] = "refund" /\ e.result \in RefundIds
     /\ refundOf[e.result] = e.slot[4] /\ refundOf[e.result] # NoValue
     /\ refundAllocation[e.result] = e.body
RecordsDescribeRows == \A e \in idem : Describes(e)

(* A refund in service names a payment that allocated to what it refunds. *)
RefundsWhatWasPaid(c) ==
  stage[c] \in {"versions", "totals", "commit"} /\ req[c].op = "refund" =>
    /\ payment[req[c].target] > 0
    /\ \A o \in Included(req[c].amounts) : allocation[req[c].target][o] > 0

(* The totals a request read are true while the version it read stands. *)
TotalsStillTrue(c) ==
  stage[c] = "commit" =>
    \A o \in Obligations :
      req[c].op \in {"pay", "refund"} /\ o \in Included(req[c].amounts)
        /\ version[o] = seen[c].version[o] =>
        seen[c].total[o] = IF req[c].op = "pay" THEN Gross(o) ELSE Net(o)

(* What a client was answered names a row that says what the client asked. *)
AnswerIsTrue(c) ==
  stage[c] = "idle" /\ answer[c].kind \in {"created", "replayed"} =>
    LET r == req[c]
        found == answer[c].result
    IN \/ /\ r.op = "create" /\ found = r.target
          /\ found \in Obligations /\ status[found] # "ABSENT"
       \/ /\ r.op = "pay" /\ found \in PaymentIds
          /\ payment[found] > 0 /\ allocation[found] = r.amounts
       \/ /\ r.op = "refund" /\ found \in RefundIds
          /\ refundOf[found] = r.target /\ refundOf[found] # NoValue
          /\ refundAllocation[found] = r.amounts

SessionAgrees(c) == RefundsWhatWasPaid(c) /\ TotalsStillTrue(c) /\ AnswerIsTrue(c)

BooksInv ==
  /\ AllocatedIsCharged
  /\ LedgerAgrees
  /\ EffectsAreKeyed /\ RecordsDescribeRows
  /\ \A c \in Clients : SessionAgrees(c)

-----------------------------------------------------------------------------
(* What the key and the body of a request are. *)

LEMMA SlotShape ==
  ASSUME NEW r
  PROVE  Slot(r)[3] = r.op /\ (r.op = "refund" => Slot(r)[4] = r.target)
<1> DEFINE scope ==
      CASE r.op = "create" -> LeaseOf[r.target]
        [] r.op = "pay"    -> NoValue
        [] r.op = "refund" -> r.target
<1>1. Slot(r) = <<r.actor, r.key, r.op, scope>>
  BY DEF Slot
<1>2. r.op = "refund" => scope = r.target
  OBVIOUS
<1> HIDE DEF scope
<1> QED BY <1>1, <1>2

LEMMA BodyShape ==
  ASSUME NEW r
  PROVE  /\ r.op = "create" => Body(r) = r.target
         /\ r.op \in {"pay", "refund"} => Body(r) = r.amounts
<1>1. ASSUME r.op = "create" PROVE Body(r) = r.target
  BY <1>1 DEF Body
<1>2. ASSUME r.op \in {"pay", "refund"} PROVE Body(r) = r.amounts
  <2>1. r.op # "create"
    BY <1>2
  <2> QED BY <1>2, <2>1 DEF Body
<1> QED BY <1>1, <1>2

-----------------------------------------------------------------------------
(* The three ways to post: what a commit that succeeds does. *)

PostsCharge(c, o) ==
  LET r == req[c] IN
  /\ At(c, "commit", "create") /\ o = r.target
  /\ status[o] = "ABSENT" /\ Recorded(r) = {}
  /\ status' = [status EXCEPT ![o] = "OPEN"]
  /\ version' = [version EXCEPT ![o] = 1]
  /\ Post("RENT_RECEIVABLE", "RENT_REVENUE", Rent[o])
  /\ Record(r, o) /\ Reply(c, "created", o)
  /\ UNCHANGED <<payment, allocation, refundOf, refundAllocation, item, req>>

PostsPayment(c, p) ==
  LET r == req[c]
      named == Included(r.amounts)
  IN /\ At(c, "commit", "pay") /\ Unchanged(c)
     /\ payment[p] = 0 /\ Recorded(r) = {}
     /\ payment' = [payment EXCEPT ![p] = UnitSum(r.amounts)]
     /\ allocation' = [allocation EXCEPT ![p] = r.amounts]
     /\ status' = [o \in Obligations |->
          IF o \in named THEN PaidStatus(seen[c].total[o] + r.amounts[o], o) ELSE status[o]]
     /\ Bump(named)
     /\ Post("CASH", "RENT_RECEIVABLE", UnitSum(r.amounts))
     /\ OpenItem(p) /\ Record(r, p) /\ Reply(c, "created", p)
     /\ UNCHANGED <<refundOf, refundAllocation, req>>

PostsRefund(c, f) ==
  LET r == req[c]
      named == Included(r.amounts)
  IN /\ At(c, "commit", "refund") /\ Unchanged(c)
     /\ refundOf[f] = NoValue /\ Recorded(r) = {}
     /\ refundOf' = [refundOf EXCEPT ![f] = r.target]
     /\ refundAllocation' = [refundAllocation EXCEPT ![f] = r.amounts]
     /\ status' = [o \in Obligations |->
          IF o \in named THEN NetStatus(seen[c].total[o] - r.amounts[o], o) ELSE status[o]]
     /\ Bump(named)
     /\ Post("RENT_RECEIVABLE", "CASH", UnitSum(r.amounts))
     /\ OpenItem(f) /\ Record(r, f) /\ Reply(c, "created", f)
     /\ UNCHANGED <<payment, allocation, req>>

(* Every other step writes neither the books nor the idempotency records, and *)
(* only the resolution of an item writes reviews.                             *)
LEMMA StepsPostOrNot ==
  ASSUME TypeOK, Next
  PROVE  \/ UNCHANGED <<books, idem>> /\ (UNCHANGED item \/ \E c \in Clients : CommitItem(c))
         \/ \E c \in Clients :
              \/ \E o \in Obligations : PostsCharge(c, o)
              \/ \E p \in PaymentIds : PostsPayment(c, p)
              \/ \E f \in RefundIds : PostsRefund(c, f)
<1>1. ASSUME NEW c \in Clients, CommitCreate(c)
      PROVE  UNCHANGED <<books, idem, item>> \/ \E o \in Obligations : PostsCharge(c, o)
  <2>1. req[c].target \in Obligations
    BY <1>1, RequestShape DEF CommitCreate, At, TypeOK, SessionOK
  <2>2. UNCHANGED <<payment, allocation, refundOf, refundAllocation, item, req>>
    BY <1>1 DEF CommitCreate
  <2>3. UNCHANGED <<status, version, balance, idem>> \/ PostsCharge(c, req[c].target)
    BY <1>1, <2>2 DEF CommitCreate, PostsCharge
  <2> QED BY <2>1, <2>2, <2>3 DEF books
<1>2. ASSUME NEW c \in Clients, CommitPayment(c)
      PROVE  UNCHANGED <<books, idem, item>> \/ \E p \in PaymentIds : PostsPayment(c, p)
  BY <1>2 DEF CommitPayment, PostsPayment
<1>3. ASSUME NEW c \in Clients, CommitRefund(c)
      PROVE  UNCHANGED <<books, idem, item>> \/ \E f \in RefundIds : PostsRefund(c, f)
  BY <1>3 DEF CommitRefund, PostsRefund
<1>4. ASSUME NEW c \in Clients,
             \/ \E r \in Requests : Begin(c, r)
             \/ LoadPayment(c) \/ CheckPayment(c)
             \/ LoadRefund(c) \/ LoadRefundVersions(c) \/ LoadRefundTotals(c)
             \/ LoadItem(c) \/ Recover(c) \/ Abort(c)
      PROVE  UNCHANGED <<books, idem, item>>
  BY <1>4 DEF Begin, LoadPayment, CheckPayment, LoadRefund, LoadRefundVersions,
     LoadRefundTotals, LoadItem, Recover, Abort
<1>5. ASSUME NEW c \in Clients, CommitItem(c) PROVE UNCHANGED <<books, idem>>
  BY <1>5 DEF CommitItem
<1> QED BY <1>1, <1>2, <1>3, <1>4, <1>5 DEF Next, Serve

-----------------------------------------------------------------------------
(* What a posting leaves as it was. *)

(* Rows that do not exist hold nothing and have never been changed. *)
RowsAreClean == UnusedIsEmpty /\ AbsentIsNew
LEMMA CleanRows == SafetyInv => RowsAreClean
BY DEF SafetyInv, RowsAreClean

(* Rows are never deleted and, but for statuses, never rewritten. *)
RowsStay ==
  /\ \A p \in PaymentIds : payment[p] > 0 =>
       payment'[p] = payment[p] /\ allocation'[p] = allocation[p]
  /\ \A f \in RefundIds : refundOf[f] # NoValue =>
       refundOf'[f] = refundOf[f] /\ refundAllocation'[f] = refundAllocation[f]
  /\ \A o \in Obligations : status[o] # "ABSENT" => status'[o] # "ABSENT"

(* What a reader sums up is the same as long as the version is. *)
TotalsMoveVersions ==
  \A o \in Obligations :
    \/ version'[o] > version[o]
    \/ version'[o] = version[o] /\ Gross(o)' = Gross(o) /\ Net(o)' = Net(o)

(* A charge writes one obligation that was not there and no amounts. *)
LEMMA ChargeFacts ==
  ASSUME TypeOK, RowsAreClean, NEW c \in Clients, NEW o \in Obligations, PostsCharge(c, o)
  PROVE  /\ \A x \in Obligations : Gross(x)' = Gross(x) /\ Refunded(x)' = Refunded(x)
         /\ status[o] = "ABSENT" /\ status'[o] = "OPEN"
         /\ \A x \in Obligations : x # o => status'[x] = status[x]
         /\ RowsStay /\ TotalsMoveVersions
<1>1. UNCHANGED <<payment, allocation, refundOf, refundAllocation>>
  BY DEF PostsCharge
<1>2. \A x \in Obligations : /\ Gross(x)' = Gross(x) /\ Refunded(x)' = Refunded(x)
                            /\ Net(x)' = Net(x)
  BY <1>1 DEF Gross, Refunded, Net
<1>4. /\ status[o] = "ABSENT" /\ status'[o] = "OPEN"
      /\ \A x \in Obligations : x # o => status'[x] = status[x]
  BY DEF PostsCharge, TypeOK, BooksOK
<1>5. RowsStay
  BY <1>1, <1>4 DEF RowsStay
<1>6. version[o] = 0
  BY <1>4 DEF RowsAreClean, AbsentIsNew
<1>7. version'[o] = 1 /\ \A x \in Obligations : x # o => version'[x] = version[x]
  BY DEF PostsCharge, TypeOK, BooksOK, Versions
<1>8. TotalsMoveVersions
  BY <1>2, <1>6, <1>7 DEF TotalsMoveVersions
<1> QED BY <1>2, <1>4, <1>5, <1>8

(* A payment writes one row and adds its amounts to open obligations. *)
LEMMA PaymentFacts ==
  ASSUME TypeOK, RowsAreClean, NEW c \in Clients, NEW p \in PaymentIds, PostsPayment(c, p)
  PROVE  LET amounts == req[c].amounts IN
         /\ amounts \in Amounts /\ UnitSum(amounts) \in Nat /\ UnitSum(amounts) > 0
         /\ payment[p] = 0 /\ payment'[p] = UnitSum(amounts) /\ allocation'[p] = amounts
         /\ \A q \in PaymentIds : q # p =>
              payment'[q] = payment[q] /\ allocation'[q] = allocation[q]
         /\ \A o \in Obligations :
              /\ Gross(o)' = Gross(o) + amounts[o] /\ Refunded(o)' = Refunded(o)
              /\ o \in Included(amounts) =>
                   status[o] \in Payable /\ status'[o] = PaidStatus(seen[c].total[o] + amounts[o], o)
              /\ o \notin Included(amounts) => amounts[o] = 0 /\ status'[o] = status[o]
              /\ status'[o] = "ABSENT" <=> status[o] = "ABSENT"
         /\ RowsStay /\ TotalsMoveVersions
<1> DEFINE amounts == req[c].amounts
<1>1. amounts \in Amounts /\ Included(amounts) # {}
  BY RequestShape DEF PostsPayment, At, TypeOK, SessionOK
<1>2. UnitSum(amounts) \in Nat /\ UnitSum(amounts) > 0
  BY <1>1, AmountsPositive
<1>3. /\ payment[p] = 0 /\ payment'[p] = UnitSum(amounts) /\ allocation'[p] = amounts
      /\ \A q \in PaymentIds : q # p =>
           payment'[q] = payment[q] /\ allocation'[q] = allocation[q]
      /\ UNCHANGED <<refundOf, refundAllocation>>
  BY DEF PostsPayment, TypeOK, BooksOK
<1>4. \A o \in Obligations : Gross(o)' = Gross(o) + amounts[o]
  BY <1>1, <1>3, GrossGrows DEF TypeOK, RowsAreClean, PostsPayment
<1>5. \A o \in Obligations : Refunded(o)' = Refunded(o)
  BY <1>3 DEF Refunded
<1>6. \A o \in Obligations : amounts[o] \in Nat /\ (o \notin Included(amounts) => amounts[o] = 0)
  BY <1>1 DEF Amounts, Included
<1>7. \A o \in Included(amounts) : status[o] \in Payable
  BY DEF PostsPayment, Unchanged, At
<1>8. \A o \in Obligations :
        status'[o] = IF o \in Included(amounts)
                     THEN PaidStatus(seen[c].total[o] + amounts[o], o) ELSE status[o]
  BY DEF PostsPayment
<1>9. \A o \in Obligations : status'[o] = "ABSENT" <=> status[o] = "ABSENT"
  BY <1>7, <1>8 DEF Payable, PaidStatus
<1>10. RowsStay
  BY <1>2, <1>3, <1>9 DEF RowsStay
<1>11. TotalsMoveVersions
  <2>1. \A o \in Obligations :
          /\ version[o] \in Nat
          /\ version'[o] = IF o \in Included(amounts) THEN version[o] + 1 ELSE version[o]
    BY DEF PostsPayment, Bump, TypeOK, BooksOK, Versions
  <2>2. \A o \in Obligations : Gross(o) \in Nat
    BY TotalsType DEF TypeOK
  <2>3. \A o \in Obligations : o \notin Included(amounts) => Gross(o)' = Gross(o) /\ Net(o)' = Net(o)
    BY <1>4, <1>5, <1>6, <2>2 DEF Net
  <2> QED BY <2>1, <2>3 DEF TotalsMoveVersions
<1> HIDE DEF amounts
<1>12. /\ \A o \in Obligations :
           /\ o \in Included(amounts) =>
                status[o] \in Payable /\ status'[o] = PaidStatus(seen[c].total[o] + amounts[o], o)
           /\ o \notin Included(amounts) => amounts[o] = 0 /\ status'[o] = status[o]
  BY <1>6, <1>7, <1>8
<1> QED BY <1>1, <1>2, <1>3, <1>4, <1>5, <1>9, <1>10, <1>11, <1>12 DEF amounts

(* A refund writes one row and takes its amounts back from what was charged. *)
LEMMA RefundFacts ==
  ASSUME TypeOK, RowsAreClean, AllocatedIsCharged, NEW c \in Clients, RefundsWhatWasPaid(c),
         NEW f \in RefundIds, PostsRefund(c, f)
  PROVE  LET amounts == req[c].amounts
             paid == req[c].target
         IN
         /\ amounts \in Amounts /\ UnitSum(amounts) \in Nat
         /\ paid \in PaymentIds /\ paid # NoValue
         /\ refundOf[f] = NoValue /\ refundOf'[f] = paid /\ refundAllocation'[f] = amounts
         /\ \A g \in RefundIds : g # f =>
              refundOf'[g] = refundOf[g] /\ refundAllocation'[g] = refundAllocation[g]
         /\ \A o \in Obligations :
              /\ Gross(o)' = Gross(o) /\ Refunded(o)' = Refunded(o) + amounts[o]
              /\ o \in Included(amounts) =>
                   /\ status[o] # "ABSENT"
                   /\ status'[o] = NetStatus(seen[c].total[o] - amounts[o], o)
              /\ o \notin Included(amounts) => amounts[o] = 0 /\ status'[o] = status[o]
              /\ status'[o] = "ABSENT" <=> status[o] = "ABSENT"
         /\ RowsStay /\ TotalsMoveVersions
<1> DEFINE amounts == req[c].amounts
<1> DEFINE paid == req[c].target
<1>1. amounts \in Amounts /\ paid \in PaymentIds
  BY RequestShape DEF PostsRefund, At, TypeOK, SessionOK
<1>2. UnitSum(amounts) \in Nat /\ paid # NoValue
  BY <1>1, AmountsPositive, SetsAssumption
<1>3. /\ refundOf[f] = NoValue /\ refundOf'[f] = paid /\ refundAllocation'[f] = amounts
      /\ \A g \in RefundIds : g # f =>
           refundOf'[g] = refundOf[g] /\ refundAllocation'[g] = refundAllocation[g]
      /\ UNCHANGED <<payment, allocation>>
  BY DEF PostsRefund, TypeOK, BooksOK
<1>4. \A o \in Obligations : Refunded(o)' = Refunded(o) + amounts[o]
  <2>1. PICK a \in Amounts : a = amounts
    BY <1>1
  <2>2. refundAllocation' = [refundAllocation EXCEPT ![f] = a]
    BY <2>1 DEF PostsRefund
  <2>3. BooksOK /\ UnusedIsEmpty
    BY DEF TypeOK, RowsAreClean
  <2> HIDE DEF paid, amounts
  <2> QED BY <1>3, <2>1, <2>2, <2>3, RefundedGrows
<1>5. \A o \in Obligations : Gross(o)' = Gross(o)
  BY <1>3 DEF Gross
<1>6. \A o \in Obligations : amounts[o] \in Nat /\ (o \notin Included(amounts) => amounts[o] = 0)
  BY <1>1 DEF Amounts, Included
<1>7. \A o \in Obligations : o \in Included(amounts) => status[o] # "ABSENT"
  BY <1>1 DEF PostsRefund, At, RefundsWhatWasPaid, AllocatedIsCharged
<1>8. \A o \in Obligations :
        status'[o] = IF o \in Included(amounts)
                     THEN NetStatus(seen[c].total[o] - amounts[o], o) ELSE status[o]
  BY DEF PostsRefund
<1>9. \A o \in Obligations : NetStatus(seen[c].total[o] - amounts[o], o) # "ABSENT"
  <2> TAKE o \in Obligations
  <2> DEFINE net == seen[c].total[o] - amounts[o]
  <2>1. net \in Int /\ Rent[o] \in Nat
    BY <1>6, RentAssumption DEF TypeOK, SessionOK, Reading
  <2> HIDE DEF net
  <2>2. NetStatus(net, o) # "ABSENT"
    BY <2>1 DEF NetStatus
  <2> QED BY <2>2 DEF net
<1> HIDE DEF amounts, paid
<1>10. \A o \in Obligations : status'[o] = "ABSENT" <=> status[o] = "ABSENT"
  BY <1>7, <1>8, <1>9
<1>11. RowsStay
  BY <1>3, <1>10 DEF RowsStay
<1>12. TotalsMoveVersions
  <2>1. \A o \in Obligations :
          /\ version[o] \in Nat
          /\ version'[o] = IF o \in Included(amounts) THEN version[o] + 1 ELSE version[o]
    BY DEF PostsRefund, Bump, TypeOK, BooksOK, Versions, amounts
  <2>2. \A o \in Obligations : Refunded(o) \in Nat
    BY TotalsType DEF TypeOK
  <2>3. \A o \in Obligations : o \notin Included(amounts) => Gross(o)' = Gross(o) /\ Net(o)' = Net(o)
    BY <1>4, <1>5, <1>6, <2>2 DEF Net
  <2> QED BY <2>1, <2>3 DEF TotalsMoveVersions
<1>13. \A o \in Obligations :
         /\ o \in Included(amounts) =>
              status[o] # "ABSENT" /\ status'[o] = NetStatus(seen[c].total[o] - amounts[o], o)
         /\ o \notin Included(amounts) => amounts[o] = 0 /\ status'[o] = status[o]
  BY <1>6, <1>7, <1>8
<1> QED BY <1>1, <1>2, <1>3, <1>4, <1>5, <1>10, <1>11, <1>12, <1>13 DEF amounts, paid

-----------------------------------------------------------------------------
(* The ledger follows the rows. *)

ChargedTable == [o \in Obligations |-> IF status[o] = "ABSENT" THEN 0 ELSE Rent[o]]
GrossTable == [o \in Obligations |-> Gross(o)]
RefundedTable == [o \in Obligations |-> Refunded(o)]

LEMMA TablesType ==
  ASSUME BooksOK
  PROVE  /\ ChargedTable \in [Obligations -> Nat] /\ UnitSum(ChargedTable) \in Nat
         /\ GrossTable \in [Obligations -> Nat] /\ UnitSum(GrossTable) \in Nat
         /\ RefundedTable \in [Obligations -> Nat] /\ UnitSum(RefundedTable) \in Nat
         /\ payment \in [PaymentIds -> Nat] /\ UnitSum(payment) \in Nat
<1>1. ChargedTable \in [Obligations -> Nat]
  BY RentAssumption DEF ChargedTable
<1>2. GrossTable \in [Obligations -> Nat] /\ RefundedTable \in [Obligations -> Nat]
  BY TotalsType DEF GrossTable, RefundedTable
<1>3. payment \in [PaymentIds -> Nat]
  BY DEF BooksOK
<1> QED BY <1>1, <1>2, <1>3, SetsAssumption, UnitSumType

(* The ledger's promise, in terms of these tables. *)
LEMMA LedgerByTables ==
  LedgerAgrees <=>
    /\ balance["RENT_REVENUE"] = 0 - UnitSum(ChargedTable)
    /\ balance["CASH"] = UnitSum(payment) - UnitSum(RefundedTable)
    /\ balance["RENT_RECEIVABLE"] =
         UnitSum(ChargedTable) - UnitSum(GrossTable) + UnitSum(RefundedTable)
BY DEF LedgerAgrees, ChargedTable, GrossTable, RefundedTable

(* What one double entry does to the accounts. *)
LEMMA PostFacts ==
  ASSUME BooksOK, NEW debit \in Accounts, NEW credit \in Accounts, debit # credit,
         NEW amount \in Nat, Post(debit, credit, amount)
  PROVE  /\ balance'[debit] = balance[debit] + amount
         /\ balance'[credit] = balance[credit] - amount
         /\ \A a \in Accounts : a \notin {debit, credit} => balance'[a] = balance[a]
BY DEF BooksOK, Post

LEMMA ChargeKeepsLedger ==
  ASSUME TypeOK, RowsAreClean, LedgerAgrees, NEW c \in Clients, NEW o \in Obligations,
         PostsCharge(c, o)
  PROVE  LedgerAgrees'
<1>1. /\ \A x \in Obligations : Gross(x)' = Gross(x) /\ Refunded(x)' = Refunded(x)
      /\ status[o] = "ABSENT" /\ status'[o] = "OPEN"
      /\ \A x \in Obligations : x # o => status'[x] = status[x]
  BY ChargeFacts
<1>2. GrossTable' = GrossTable /\ RefundedTable' = RefundedTable /\ payment' = payment
  BY <1>1 DEF GrossTable, RefundedTable, PostsCharge
<1>3. UnitSum(ChargedTable)' = UnitSum(ChargedTable) + Rent[o]
  <2> DEFINE f == ChargedTable
  <2> DEFINE g == ChargedTable'
  <2>1. f \in [Obligations -> Nat] /\ g \in [Obligations -> Nat]
    BY RentAssumption DEF ChargedTable
  <2>2. f[o] = 0 /\ g[o] = Rent[o] /\ \A x \in Obligations : x # o => f[x] = g[x]
    BY <1>1 DEF ChargedTable
  <2> HIDE DEF f, g
  <2>3. UnitSum(f) \in Nat /\ UnitSum(g) = UnitSum(f) - f[o] + g[o]
    BY <2>1, <2>2, SetsAssumption, UnitSumUpdate
  <2>4. UnitSum(g) = UnitSum(f) + Rent[o]
    BY <2>2, <2>3, RentAssumption
  <2> QED BY <2>4 DEF f, g
<1>4. /\ balance'["RENT_RECEIVABLE"] = balance["RENT_RECEIVABLE"] + Rent[o]
      /\ balance'["RENT_REVENUE"] = balance["RENT_REVENUE"] - Rent[o]
      /\ balance'["CASH"] = balance["CASH"]
  BY PostFacts, RentAssumption DEF PostsCharge, TypeOK, Accounts
<1>5. /\ UnitSum(ChargedTable) \in Nat /\ UnitSum(GrossTable) \in Nat
      /\ UnitSum(RefundedTable) \in Nat /\ Rent[o] \in Nat
  BY TablesType, RentAssumption DEF TypeOK
<1>6. /\ balance'["RENT_REVENUE"] = 0 - UnitSum(ChargedTable)'
      /\ balance'["CASH"] = UnitSum(payment)' - UnitSum(RefundedTable)'
      /\ balance'["RENT_RECEIVABLE"] =
           UnitSum(ChargedTable)' - UnitSum(GrossTable)' + UnitSum(RefundedTable)'
  BY <1>2, <1>3, <1>4, <1>5, LedgerByTables
<1> QED BY <1>6 DEF LedgerAgrees, ChargedTable, GrossTable, RefundedTable

(* A new payment adds its amount to what was received. *)
LEMMA PaymentAdds ==
  ASSUME TypeOK, NEW p \in PaymentIds, NEW amount \in Nat,
         payment[p] = 0, payment' = [payment EXCEPT ![p] = amount]
  PROVE  UnitSum(payment)' = UnitSum(payment) + amount
<1> DEFINE f == payment
<1> DEFINE g == payment'
<1>1. f \in [PaymentIds -> Nat]
  BY TablesType DEF TypeOK
<1>2. g \in [PaymentIds -> Nat]
  BY <1>1
<1>3. f[p] = 0 /\ g[p] = amount /\ \A q \in PaymentIds : q # p => f[q] = g[q]
  BY <1>1
<1> HIDE DEF f, g
<1>4. UnitSum(f) \in Nat /\ UnitSum(g) = UnitSum(f) - f[p] + g[p]
  BY <1>1, <1>2, <1>3, SetsAssumption, UnitSumUpdate
<1>5. UnitSum(g) = UnitSum(f) + amount
  BY <1>3, <1>4
<1> QED BY <1>5 DEF f, g

(* Money received and allocated: cash against what tenants owe. *)
LEMMA ReceiptKeepsLedger ==
  ASSUME TypeOK, LedgerAgrees, NEW p \in PaymentIds, NEW amounts \in Amounts,
         payment[p] = 0, payment' = [payment EXCEPT ![p] = UnitSum(amounts)],
         \A o \in Obligations :
           /\ Gross(o)' = Gross(o) + amounts[o] /\ Refunded(o)' = Refunded(o)
           /\ status'[o] = "ABSENT" <=> status[o] = "ABSENT",
         Post("CASH", "RENT_RECEIVABLE", UnitSum(amounts))
  PROVE  LedgerAgrees'
<1>1. UnitSum(amounts) \in Nat
  BY AmountsPositive
<1>2. ChargedTable' = ChargedTable /\ RefundedTable' = RefundedTable
  BY DEF ChargedTable, RefundedTable
<1>3. UnitSum(GrossTable)' = UnitSum(GrossTable) + UnitSum(amounts)
  <2> DEFINE f == GrossTable
  <2> DEFINE g == GrossTable'
  <2>1. f \in [Obligations -> Nat] /\ amounts \in [Obligations -> Nat]
    BY TablesType DEF TypeOK, Amounts
  <2>2. g \in [Obligations -> Nat] /\ \A o \in Obligations : g[o] = f[o] + amounts[o]
    BY <2>1 DEF GrossTable
  <2> HIDE DEF f, g
  <2>3. UnitSum(g) = UnitSum(f) + UnitSum(amounts)
    BY <2>1, <2>2, SetsAssumption, UnitSumAdd
  <2> QED BY <2>3 DEF f, g
<1>4. UnitSum(payment)' = UnitSum(payment) + UnitSum(amounts)
  BY <1>1, PaymentAdds
<1>5. /\ balance'["CASH"] = balance["CASH"] + UnitSum(amounts)
      /\ balance'["RENT_RECEIVABLE"] = balance["RENT_RECEIVABLE"] - UnitSum(amounts)
      /\ balance'["RENT_REVENUE"] = balance["RENT_REVENUE"]
  BY <1>1, PostFacts DEF TypeOK, Accounts
<1>6. /\ UnitSum(ChargedTable) \in Nat /\ UnitSum(GrossTable) \in Nat
      /\ UnitSum(RefundedTable) \in Nat /\ UnitSum(payment) \in Nat
  BY TablesType DEF TypeOK
<1>7. /\ balance'["RENT_REVENUE"] = 0 - UnitSum(ChargedTable)'
      /\ balance'["CASH"] = UnitSum(payment)' - UnitSum(RefundedTable)'
      /\ balance'["RENT_RECEIVABLE"] =
           UnitSum(ChargedTable)' - UnitSum(GrossTable)' + UnitSum(RefundedTable)'
  BY <1>1, <1>2, <1>3, <1>4, <1>5, <1>6, LedgerByTables
<1> QED BY <1>7 DEF LedgerAgrees, ChargedTable, GrossTable, RefundedTable

LEMMA PaymentKeepsLedger ==
  ASSUME TypeOK, RowsAreClean, LedgerAgrees, NEW c \in Clients, NEW p \in PaymentIds,
         PostsPayment(c, p)
  PROVE  LedgerAgrees'
<1>1. PICK amounts \in Amounts : amounts = req[c].amounts
  BY PaymentFacts
<1>2. /\ payment[p] = 0
      /\ \A o \in Obligations :
           /\ Gross(o)' = Gross(o) + amounts[o] /\ Refunded(o)' = Refunded(o)
           /\ status'[o] = "ABSENT" <=> status[o] = "ABSENT"
  BY <1>1, PaymentFacts
<1>3. /\ payment' = [payment EXCEPT ![p] = UnitSum(amounts)]
      /\ Post("CASH", "RENT_RECEIVABLE", UnitSum(amounts))
  BY <1>1 DEF PostsPayment
<1> QED BY <1>2, <1>3, ReceiptKeepsLedger

LEMMA RefundKeepsLedger ==
  ASSUME TypeOK, RowsAreClean, AllocatedIsCharged, LedgerAgrees, NEW c \in Clients,
         RefundsWhatWasPaid(c), NEW f \in RefundIds, PostsRefund(c, f)
  PROVE  LedgerAgrees'
<1> DEFINE amounts == req[c].amounts
<1>1. /\ amounts \in Amounts /\ UnitSum(amounts) \in Nat
      /\ \A o \in Obligations :
           /\ Gross(o)' = Gross(o) /\ Refunded(o)' = Refunded(o) + amounts[o]
           /\ status'[o] = "ABSENT" <=> status[o] = "ABSENT"
  BY RefundFacts
<1> HIDE DEF amounts
<1>2. ChargedTable' = ChargedTable /\ GrossTable' = GrossTable /\ payment' = payment
  BY <1>1 DEF ChargedTable, GrossTable, PostsRefund
<1>3. UnitSum(RefundedTable)' = UnitSum(RefundedTable) + UnitSum(amounts)
  <2> DEFINE a == RefundedTable
  <2> DEFINE b == RefundedTable'
  <2>1. a \in [Obligations -> Nat] /\ amounts \in [Obligations -> Nat]
    BY <1>1, TablesType DEF TypeOK, Amounts
  <2>2. b \in [Obligations -> Nat] /\ \A o \in Obligations : b[o] = a[o] + amounts[o]
    BY <1>1, <2>1 DEF RefundedTable
  <2> HIDE DEF a, b
  <2>3. UnitSum(b) = UnitSum(a) + UnitSum(amounts)
    BY <2>1, <2>2, SetsAssumption, UnitSumAdd
  <2> QED BY <2>3 DEF a, b
<1>4. /\ balance'["RENT_RECEIVABLE"] = balance["RENT_RECEIVABLE"] + UnitSum(amounts)
      /\ balance'["CASH"] = balance["CASH"] - UnitSum(amounts)
      /\ balance'["RENT_REVENUE"] = balance["RENT_REVENUE"]
  BY <1>1, PostFacts DEF PostsRefund, TypeOK, Accounts, amounts
<1>5. /\ UnitSum(ChargedTable) \in Nat /\ UnitSum(GrossTable) \in Nat
      /\ UnitSum(RefundedTable) \in Nat /\ UnitSum(payment) \in Nat
  BY TablesType DEF TypeOK
<1>6. /\ balance'["RENT_REVENUE"] = 0 - UnitSum(ChargedTable)'
      /\ balance'["CASH"] = UnitSum(payment)' - UnitSum(RefundedTable)'
      /\ balance'["RENT_RECEIVABLE"] =
           UnitSum(ChargedTable)' - UnitSum(GrossTable)' + UnitSum(RefundedTable)'
  BY <1>1, <1>2, <1>3, <1>4, <1>5, LedgerByTables
<1> QED BY <1>6 DEF LedgerAgrees, ChargedTable, GrossTable, RefundedTable

-----------------------------------------------------------------------------
(* The idempotency records follow the rows. *)

(* Recording the first outcome of a key, for the row that was just written. *)
LEMMA RecordingKeeps ==
  ASSUME TypeOK, EffectsAreKeyed, RecordsDescribeRows, RowsStay,
         NEW r, NEW result, Record(r, result), Recorded(r) = {},
         \A e \in idem : e.result # result,
         \A o \in Obligations : status'[o] # "ABSENT" <=> status[o] # "ABSENT" \/ o = result,
         \A p \in PaymentIds : payment'[p] > 0 <=> payment[p] > 0 \/ p = result,
         \A f \in RefundIds : refundOf'[f] # NoValue <=> refundOf[f] # NoValue \/ f = result,
         Describes([slot |-> Slot(r), body |-> Body(r), result |-> result])'
  PROVE  EffectsAreKeyed' /\ RecordsDescribeRows'
<1> DEFINE e0 == [slot |-> Slot(r), body |-> Body(r), result |-> result]
<1>1. /\ idem' = idem \cup {e0}
      /\ e0.slot = Slot(r) /\ e0.result = result
      /\ Describes(e0)'
  BY DEF Record
<1>2. \A e \in idem : e.slot # e0.slot /\ e.result # e0.result
  BY DEF Recorded
<1> HIDE DEF e0
<1>3. \A e1, e2 \in idem' : e1.slot = e2.slot => e1 = e2
  BY <1>1, <1>2 DEF EffectsAreKeyed
<1>4. \A e1, e2 \in idem' : e1.result = e2.result => e1 = e2
  BY <1>1, <1>2 DEF EffectsAreKeyed
<1>5. \A o \in Obligations : status'[o] # "ABSENT" <=> \E e \in idem' : e.result = o
  BY <1>1 DEF EffectsAreKeyed
<1>6. \A p \in PaymentIds : payment'[p] > 0 <=> \E e \in idem' : e.result = p
  BY <1>1 DEF EffectsAreKeyed
<1>7. \A f \in RefundIds : refundOf'[f] # NoValue <=> \E e \in idem' : e.result = f
  BY <1>1 DEF EffectsAreKeyed
<1>8. EffectsAreKeyed'
  BY <1>3, <1>4, <1>5, <1>6, <1>7 DEF EffectsAreKeyed
<1>9. ASSUME NEW e \in idem PROVE Describes(e)'
  <2>1. Describes(e)
    BY DEF RecordsDescribeRows
  <2> QED BY <2>1 DEF Describes, RowsStay
<1> QED BY <1>1, <1>8, <1>9 DEF RecordsDescribeRows

LEMMA ChargeKeepsKeys ==
  ASSUME TypeOK, SafetyInv, EffectsAreKeyed, RecordsDescribeRows,
         NEW c \in Clients, NEW o \in Obligations, PostsCharge(c, o)
  PROVE  EffectsAreKeyed' /\ RecordsDescribeRows'
<1>0. PICK r \in Requests : r = req[c]
  BY DEF PostsCharge, PostsPayment, PostsRefund, At, TypeOK, SessionOK
<1>1. /\ status[o] = "ABSENT" /\ status'[o] = "OPEN" /\ RowsStay
      /\ \A x \in Obligations : x # o => status'[x] = status[x]
  BY <1>0, CleanRows, ChargeFacts
<1>2. /\ r.op = "create" /\ o = r.target /\ Record(r, o) /\ Recorded(r) = {}
      /\ payment' = payment /\ refundOf' = refundOf
  BY <1>0 DEF PostsCharge, At
<1>3. \A e \in idem : e.result # o
  BY <1>1 DEF EffectsAreKeyed
<1>4. o \notin PaymentIds /\ o \notin RefundIds
  BY SetsAssumption
<1>5. Slot(r)[3] = "create" /\ Body(r) = o
  BY <1>2, SlotShape, BodyShape
<1>6. Describes([slot |-> Slot(r), body |-> Body(r), result |-> o])'
  BY <1>5 DEF Describes
<1>7. /\ \A x \in Obligations : status'[x] # "ABSENT" <=> status[x] # "ABSENT" \/ x = o
      /\ \A p \in PaymentIds : payment'[p] > 0 <=> payment[p] > 0 \/ p = o
      /\ \A f \in RefundIds : refundOf'[f] # NoValue <=> refundOf[f] # NoValue \/ f = o
  BY <1>1, <1>2, <1>4
<1> QED BY <1>1, <1>2, <1>3, <1>6, <1>7, RecordingKeeps

LEMMA PaymentKeepsKeys ==
  ASSUME TypeOK, SafetyInv, EffectsAreKeyed, RecordsDescribeRows,
         NEW c \in Clients, NEW p \in PaymentIds, PostsPayment(c, p)
  PROVE  EffectsAreKeyed' /\ RecordsDescribeRows'
<1>0. PICK r \in Requests : r = req[c]
  BY DEF PostsCharge, PostsPayment, PostsRefund, At, TypeOK, SessionOK
<1>1. /\ payment[p] = 0 /\ payment'[p] > 0 /\ allocation'[p] = r.amounts /\ RowsStay
      /\ \A q \in PaymentIds : q # p => payment'[q] = payment[q]
      /\ \A o \in Obligations : status'[o] = "ABSENT" <=> status[o] = "ABSENT"
  BY <1>0, CleanRows, PaymentFacts
<1>2. r.op = "pay" /\ Record(r, p) /\ Recorded(r) = {} /\ refundOf' = refundOf
  BY <1>0 DEF PostsPayment, At
<1>3. \A e \in idem : e.result # p
  BY <1>1 DEF EffectsAreKeyed
<1>4. p \notin Obligations /\ p \notin RefundIds
  BY SetsAssumption
<1>5. Slot(r)[3] = "pay" /\ Body(r) = r.amounts
  BY <1>2, SlotShape, BodyShape
<1>6. Describes([slot |-> Slot(r), body |-> Body(r), result |-> p])'
  BY <1>1, <1>5 DEF Describes
<1>7. /\ \A o \in Obligations : status'[o] # "ABSENT" <=> status[o] # "ABSENT" \/ o = p
      /\ \A q \in PaymentIds : payment'[q] > 0 <=> payment[q] > 0 \/ q = p
      /\ \A f \in RefundIds : refundOf'[f] # NoValue <=> refundOf[f] # NoValue \/ f = p
  BY <1>1, <1>2, <1>4
<1> QED BY <1>1, <1>2, <1>3, <1>6, <1>7, RecordingKeeps

LEMMA RefundKeepsKeys ==
  ASSUME TypeOK, SafetyInv, AllocatedIsCharged, EffectsAreKeyed, RecordsDescribeRows,
         NEW c \in Clients, RefundsWhatWasPaid(c), NEW f \in RefundIds, PostsRefund(c, f)
  PROVE  EffectsAreKeyed' /\ RecordsDescribeRows'
<1>0. PICK r \in Requests : r = req[c]
  BY DEF PostsCharge, PostsPayment, PostsRefund, At, TypeOK, SessionOK
<1>1. /\ refundOf[f] = NoValue /\ refundOf'[f] = r.target /\ r.target # NoValue
      /\ refundAllocation'[f] = r.amounts /\ RowsStay
      /\ \A g \in RefundIds : g # f => refundOf'[g] = refundOf[g]
      /\ \A o \in Obligations : status'[o] = "ABSENT" <=> status[o] = "ABSENT"
  BY <1>0, CleanRows, RefundFacts
<1>2. r.op = "refund" /\ Record(r, f) /\ Recorded(r) = {} /\ payment' = payment
  BY <1>0 DEF PostsRefund, At
<1>3. \A e \in idem : e.result # f
  BY <1>1 DEF EffectsAreKeyed
<1>4. f \notin Obligations /\ f \notin PaymentIds
  BY SetsAssumption
<1>5. Slot(r)[3] = "refund" /\ Slot(r)[4] = r.target /\ Body(r) = r.amounts
  BY <1>2, SlotShape, BodyShape
<1>6. Describes([slot |-> Slot(r), body |-> Body(r), result |-> f])'
  BY <1>1, <1>5 DEF Describes
<1>7. /\ \A o \in Obligations : status'[o] # "ABSENT" <=> status[o] # "ABSENT" \/ o = f
      /\ \A p \in PaymentIds : payment'[p] > 0 <=> payment[p] > 0 \/ p = f
      /\ \A g \in RefundIds : refundOf'[g] # NoValue <=> refundOf[g] # NoValue \/ g = f
  BY <1>1, <1>2, <1>4
<1> QED BY <1>1, <1>2, <1>3, <1>6, <1>7, RecordingKeeps

-----------------------------------------------------------------------------
(* What the requests in service know, and what the others were answered. *)

Steps(c) == (\E r \in Requests : Begin(c, r)) \/ Serve(c) \/ Abort(c)

LEMMA ReplyLeavesOthers ==
  ASSUME TypeOK, NEW c \in Clients, NEW kind, NEW result, Reply(c, kind, result)
  PROVE  /\ stage'[c] = "idle" /\ answer'[c].kind = kind /\ answer'[c].result = result
         /\ \A d \in Clients : d # c =>
              stage'[d] = stage[d] /\ seen'[d] = seen[d] /\ answer'[d] = answer[d]
BY DEF TypeOK, SessionOK, Reply

LEMMA OthersUntouched ==
  ASSUME TypeOK, NEW c \in Clients, Steps(c), NEW d \in Clients, d # c
  PROVE  /\ stage'[d] = stage[d] /\ req'[d] = req[d]
         /\ seen'[d] = seen[d] /\ answer'[d] = answer[d]
<1>1. ASSUME \E kind, result : Reply(c, kind, result)
      PROVE  stage'[d] = stage[d] /\ seen'[d] = seen[d] /\ answer'[d] = answer[d]
  BY <1>1, ReplyLeavesOthers
<1>2. ASSUME \E s : Continue(c, s),
             \/ UNCHANGED seen
             \/ \E v : seen' = [seen EXCEPT ![c].version = v]
             \/ \E t : seen' = [seen EXCEPT ![c].total = t]
      PROVE  stage'[d] = stage[d] /\ seen'[d] = seen[d] /\ answer'[d] = answer[d]
  BY <1>2 DEF Continue, TypeOK, SessionOK
<1>3. ASSUME NEW r \in Requests, Begin(c, r)
      PROVE  /\ stage'[d] = stage[d] /\ req'[d] = req[d]
             /\ seen'[d] = seen[d] /\ answer'[d] = answer[d]
  <2>1. req'[d] = req[d]
    BY <1>3 DEF Begin, TypeOK, SessionOK
  <2>2. CASE \E kind, result : Reply(c, kind, result)
    BY <1>1, <2>1, <2>2
  <2>3. CASE /\ stage' = [stage EXCEPT ![c] = IF r.op = "create" THEN "commit" ELSE "load"]
             /\ answer' = [answer EXCEPT ![c] = NoAnswer]
             /\ UNCHANGED seen
    BY <2>1, <2>3 DEF TypeOK, SessionOK
  <2> QED BY <1>3, <2>2, <2>3 DEF Begin, Replay
<1>4. ASSUME Serve(c) \/ Abort(c) PROVE UNCHANGED req
  BY <1>4 DEF Serve, Abort, CommitCreate, LoadPayment, CheckPayment, CommitPayment,
     LoadRefund, LoadRefundVersions, LoadRefundTotals, CommitRefund, LoadItem, CommitItem,
     Recover
<1>5. ASSUME CommitCreate(c) \/ CommitPayment(c) \/ CommitRefund(c)
      PROVE  \/ \E kind, result : Reply(c, kind, result)
             \/ (\E s : Continue(c, s)) /\ UNCHANGED seen
  BY <1>5 DEF CommitCreate, CommitPayment, CommitRefund
<1>6. ASSUME LoadPayment(c) \/ CheckPayment(c)
      PROVE  \/ \E kind, result : Reply(c, kind, result)
             \/ /\ \E s : Continue(c, s)
                /\ \/ \E v : seen' = [seen EXCEPT ![c].version = v]
                   \/ \E t : seen' = [seen EXCEPT ![c].total = t]
  BY <1>6 DEF LoadPayment, CheckPayment
<1>7. ASSUME LoadRefund(c) \/ LoadRefundVersions(c) \/ LoadRefundTotals(c)
      PROVE  \/ \E kind, result : Reply(c, kind, result)
             \/ /\ \E s : Continue(c, s)
                /\ \/ UNCHANGED seen
                   \/ \E v : seen' = [seen EXCEPT ![c].version = v]
                   \/ \E t : seen' = [seen EXCEPT ![c].total = t]
  BY <1>7 DEF LoadRefund, LoadRefundVersions, LoadRefundTotals
<1>8. ASSUME LoadItem(c) \/ CommitItem(c) \/ Recover(c) \/ Abort(c)
      PROVE  \/ \E kind, result : Reply(c, kind, result)
             \/ (\E s : Continue(c, s)) /\ UNCHANGED seen
  BY <1>8 DEF LoadItem, CommitItem, Recover, Replay, Abort
<1> QED BY <1>1, <1>2, <1>3, <1>4, <1>5, <1>6, <1>7, <1>8 DEF Steps, Serve

(* What a request knows outlives the steps of the others. *)
LEMMA StillAgrees ==
  ASSUME TypeOK, TypeOK', RowsStay, TotalsMoveVersions, NEW d \in Clients,
         stage'[d] = stage[d], req'[d] = req[d], seen'[d] = seen[d], answer'[d] = answer[d],
         ReadingIsPast(d), SessionAgrees(d)
  PROVE  SessionAgrees(d)'
<1>1. RefundsWhatWasPaid(d)'
  <2>1. SUFFICES ASSUME stage[d] \in {"versions", "totals", "commit"}, req[d].op = "refund"
                 PROVE  /\ payment'[req[d].target] > 0
                        /\ \A o \in Included(req[d].amounts) : allocation'[req[d].target][o] > 0
    BY DEF RefundsWhatWasPaid, Included
  <2>2. req[d].target \in PaymentIds
    BY <2>1, RequestShape DEF TypeOK, SessionOK
  <2> QED BY <2>1, <2>2 DEF SessionAgrees, RefundsWhatWasPaid, RowsStay
<1>2. TotalsStillTrue(d)'
  <2>1. SUFFICES ASSUME stage[d] = "commit", NEW o \in Obligations,
                        req[d].op \in {"pay", "refund"}, o \in Included(req[d].amounts),
                        version'[o] = seen[d].version[o]
                 PROVE  seen[d].total[o] = IF req[d].op = "pay" THEN Gross(o)' ELSE Net(o)'
    BY DEF TotalsStillTrue, Included
  <2>2. /\ version[o] \in Nat /\ version'[o] \in Nat /\ seen[d].version[o] \in Nat
        /\ seen[d].version[o] <= version[o]
    BY DEF TypeOK, BooksOK, SessionOK, Versions, Reading, ReadingIsPast
  <2>3. version[o] = seen[d].version[o] /\ Gross(o)' = Gross(o) /\ Net(o)' = Net(o)
    BY <2>1, <2>2 DEF TotalsMoveVersions
  <2> QED BY <2>1, <2>3 DEF SessionAgrees, TotalsStillTrue
<1>3. AnswerIsTrue(d)'
  BY DEF SessionAgrees, AnswerIsTrue, RowsStay
<1> QED BY <1>1, <1>2, <1>3 DEF SessionAgrees

(* An answer that claims no posting claims nothing. *)
LEMMA RefusalAgrees ==
  ASSUME TypeOK, NEW c \in Clients, NEW kind, NEW result, Reply(c, kind, result),
         kind \notin {"created", "replayed"}
  PROVE  SessionAgrees(c)'
<1>1. stage'[c] = "idle" /\ answer'[c].kind = kind
  BY ReplyLeavesOthers
<1> QED BY <1>1 DEF SessionAgrees, RefundsWhatWasPaid, TotalsStillTrue, AnswerIsTrue

(* A stored response names the row of a request with the same key and body. *)
LEMMA ReplayAgrees ==
  ASSUME TypeOK, EffectsAreKeyed, RecordsDescribeRows, NEW c \in Clients,
         NEW r \in Requests, req'[c] = r, Replay(c, r), UNCHANGED books
  PROVE  SessionAgrees(c)'
<1>1. PICK e \in Recorded(r) : IF e.body = Body(r)
                               THEN Reply(c, "replayed", e.result)
                               ELSE Reply(c, "idempotency_conflict", NoValue)
  BY DEF Replay
<1>2. CASE e.body # Body(r)
  BY <1>1, <1>2, RefusalAgrees
<1>3. CASE e.body = Body(r)
  <2>1. /\ stage'[c] = "idle" /\ answer'[c].result = e.result
    BY <1>1, <1>3, ReplyLeavesOthers
  <2>2. e \in idem /\ e.slot = Slot(r) /\ Describes(e)
    BY DEF Recorded, RecordsDescribeRows
  <2>3. e.slot[3] = r.op /\ (r.op = "refund" => e.slot[4] = r.target)
    BY <2>2, SlotShape
  <2>4. UNCHANGED <<status, payment, allocation, refundOf, refundAllocation>>
    BY DEF books
  <2>5. AnswerIsTrue(c)'
    <3>1. CASE r.op = "create"
      <4>1. e.body = r.target
        BY <1>3, <3>1, BodyShape
      <4>2. e.result = r.target /\ e.result \in Obligations
        BY <2>2, <2>3, <3>1, <4>1 DEF Describes
      <4>3. status[e.result] # "ABSENT"
        BY <2>2, <4>2 DEF EffectsAreKeyed
      <4> QED BY <2>1, <2>4, <3>1, <4>2, <4>3 DEF AnswerIsTrue
    <3>2. CASE r.op = "pay"
      <4>1. e.body = r.amounts
        BY <1>3, <3>2, BodyShape
      <4>2. e.result \in PaymentIds /\ payment[e.result] > 0 /\ allocation[e.result] = r.amounts
        BY <2>2, <2>3, <3>2, <4>1 DEF Describes
      <4> QED BY <2>1, <2>4, <3>2, <4>2 DEF AnswerIsTrue
    <3>3. CASE r.op = "refund"
      <4>1. e.body = r.amounts
        BY <1>3, <3>3, BodyShape
      <4>2. /\ e.result \in RefundIds /\ refundOf[e.result] = r.target
            /\ refundOf[e.result] # NoValue /\ refundAllocation[e.result] = r.amounts
        BY <2>2, <2>3, <3>3, <4>1 DEF Describes
      <4> QED BY <2>1, <2>4, <3>3, <4>2 DEF AnswerIsTrue
    <3> QED BY <2>2, <2>3, <3>1, <3>2, <3>3 DEF Describes
  <2>6. RefundsWhatWasPaid(c)' /\ TotalsStillTrue(c)'
    BY <2>1 DEF RefundsWhatWasPaid, TotalsStillTrue
  <2> QED BY <2>5, <2>6 DEF SessionAgrees
<1> QED BY <1>2, <1>3

(* A request that goes on to a stage in which it knows nothing yet. *)
LEMMA RecoverAgrees ==
  ASSUME TypeOK, NEW c \in Clients, Continue(c, "recover")
  PROVE  SessionAgrees(c)'
<1>1. stage'[c] = "recover"
  BY ContinueLeavesOthers
<1> QED BY <1>1 DEF SessionAgrees, RefundsWhatWasPaid, TotalsStillTrue, AnswerIsTrue

LEMMA BeginAgrees ==
  ASSUME TypeOK, BooksInv, NEW c \in Clients, NEW r \in Requests, Begin(c, r)
  PROVE  SessionAgrees(c)'
<1>1. req'[c] = r /\ UNCHANGED books
  BY DEF Begin, TypeOK, SessionOK
<1>2. CASE Reply(c, IF r.op = "resolve" THEN "not_found" ELSE "forbidden", NoValue)
  BY <1>2, RefusalAgrees
<1>3. CASE Replay(c, r)
  BY <1>1, <1>3, ReplayAgrees DEF BooksInv
<1>4. CASE /\ stage' = [stage EXCEPT ![c] = IF r.op = "create" THEN "commit" ELSE "load"]
           /\ answer' = [answer EXCEPT ![c] = NoAnswer]
  <2>1. stage'[c] = IF r.op = "create" THEN "commit" ELSE "load"
    BY <1>4 DEF TypeOK, SessionOK
  <2>2. RefundsWhatWasPaid(c)' /\ TotalsStillTrue(c)' /\ AnswerIsTrue(c)'
    BY <1>1, <2>1 DEF RefundsWhatWasPaid, TotalsStillTrue, AnswerIsTrue
  <2> QED BY <2>2 DEF SessionAgrees
<1> QED BY <1>2, <1>3, <1>4 DEF Begin

LEMMA PaymentReadsAgree ==
  ASSUME TypeOK, NEW c \in Clients, LoadPayment(c) \/ CheckPayment(c)
  PROVE  SessionAgrees(c)'
<1> DEFINE named == Included(req[c].amounts)
<1>1. UNCHANGED <<books, req>> /\ req[c].op = "pay"
  BY DEF LoadPayment, CheckPayment, At
<1>2. CASE \E kind \in {"allocation_invalid", "tenant_mismatch"} : Reply(c, kind, NoValue)
  BY <1>2, RefusalAgrees
<1>3. CASE Continue(c, "totals")
  <2>1. stage'[c] = "totals"
    BY <1>3, ContinueLeavesOthers
  <2> QED BY <1>1, <2>1 DEF SessionAgrees, RefundsWhatWasPaid, TotalsStillTrue, AnswerIsTrue
<1>4. CASE /\ seen' = [seen EXCEPT ![c].total =
                         [o \in Obligations |-> IF o \in named THEN Gross(o) ELSE 0]]
           /\ Continue(c, "commit")
  <2> DEFINE total == [o \in Obligations |-> IF o \in named THEN Gross(o) ELSE 0]
  <2>1. stage'[c] = "commit"
    BY <1>4, ContinueLeavesOthers
  <2>2. seen' = [seen EXCEPT ![c].total = total]
    BY <1>4
  <2> HIDE DEF total
  <2>3. seen'[c].total = total
    BY <2>2 DEF TypeOK, SessionOK, Reading
  <2>4. \A o \in Obligations : Gross(o)' = Gross(o) /\ (o \in named => total[o] = Gross(o))
    BY <1>1 DEF books, Gross, total
  <2>5. TotalsStillTrue(c)'
    BY <1>1, <2>3, <2>4 DEF TotalsStillTrue, Included
  <2> QED BY <1>1, <2>1, <2>5 DEF SessionAgrees, RefundsWhatWasPaid, AnswerIsTrue
<1> QED BY <1>2, <1>3, <1>4 DEF LoadPayment, CheckPayment

LEMMA RefundReadsAgree ==
  ASSUME TypeOK, NEW c \in Clients, SessionAgrees(c),
         LoadRefund(c) \/ LoadRefundVersions(c) \/ LoadRefundTotals(c)
  PROVE  SessionAgrees(c)'
<1> DEFINE r == req[c]
<1> DEFINE named == Included(r.amounts)
<1>1. UNCHANGED <<books, payment, allocation, version, req>> /\ r.op = "refund"
  BY DEF LoadRefund, LoadRefundVersions, LoadRefundTotals, At, books
<1>2. CASE LoadRefund(c)
  <2>1. CASE \E kind \in {"not_found", "allocation_invalid"} : Reply(c, kind, NoValue)
    BY <2>1, RefusalAgrees
  <2>2. CASE /\ payment[r.target] > 0 /\ \A o \in named : allocation[r.target][o] > 0
             /\ Continue(c, "totals") \/ Continue(c, "versions")
    <3>1. stage'[c] \in {"totals", "versions"}
      BY <2>2, ContinueLeavesOthers
    <3>2. RefundsWhatWasPaid(c)'
      BY <1>1, <2>2 DEF RefundsWhatWasPaid, Included
    <3> QED BY <3>1, <3>2 DEF SessionAgrees, TotalsStillTrue, AnswerIsTrue
  <2> QED BY <1>2, <2>1, <2>2 DEF LoadRefund
<1>3. CASE LoadRefundVersions(c)
  <2>1. stage[c] = "versions" /\ Continue(c, "totals")
    BY <1>3 DEF LoadRefundVersions, At
  <2>2. stage'[c] = "totals"
    BY <2>1, ContinueLeavesOthers
  <2>3. RefundsWhatWasPaid(c)'
    BY <1>1, <2>1 DEF SessionAgrees, RefundsWhatWasPaid, Included
  <2> QED BY <2>2, <2>3 DEF SessionAgrees, TotalsStillTrue, AnswerIsTrue
<1>4. CASE LoadRefundTotals(c)
  <2> DEFINE total == [o \in Obligations |-> IF o \in named THEN Net(o) ELSE 0]
  <2>1. /\ stage[c] = "totals" /\ Continue(c, "commit")
        /\ seen' = [seen EXCEPT ![c].total = total]
    BY <1>4 DEF LoadRefundTotals, At
  <2> HIDE DEF total
  <2>2. stage'[c] = "commit" /\ seen'[c].total = total
    BY <2>1, ContinueLeavesOthers DEF TypeOK, SessionOK, Reading
  <2>3. RefundsWhatWasPaid(c)'
    BY <1>1, <2>1 DEF SessionAgrees, RefundsWhatWasPaid, Included
  <2>4. \A o \in Obligations : Net(o)' = Net(o) /\ (o \in named => total[o] = Net(o))
    BY <1>1 DEF books, Net, Gross, Refunded, total
  <2>5. TotalsStillTrue(c)'
    BY <1>1, <2>2, <2>4 DEF TotalsStillTrue, Included
  <2> QED BY <2>2, <2>3, <2>5 DEF SessionAgrees, AnswerIsTrue
<1> QED BY <1>2, <1>3, <1>4

LEMMA PostingAgrees ==
  ASSUME TypeOK, SafetyInv, AllocatedIsCharged, NEW c \in Clients, RefundsWhatWasPaid(c),
         \/ \E o \in Obligations : PostsCharge(c, o)
         \/ \E p \in PaymentIds : PostsPayment(c, p)
         \/ \E f \in RefundIds : PostsRefund(c, f)
  PROVE  SessionAgrees(c)'
<1>1. ASSUME NEW result, Reply(c, "created", result), AnswerIsTrue(c)'
      PROVE  SessionAgrees(c)'
  BY <1>1, ReplyLeavesOthers DEF SessionAgrees, RefundsWhatWasPaid, TotalsStillTrue
<1>2. ASSUME NEW o \in Obligations, PostsCharge(c, o) PROVE SessionAgrees(c)'
  <2>1. /\ Reply(c, "created", o) /\ status'[o] = "OPEN"
        /\ req' = req /\ req[c].op = "create" /\ o = req[c].target
    BY <1>2, CleanRows, ChargeFacts DEF PostsCharge, At
  <2>2. answer'[c].result = o
    BY <2>1, ReplyLeavesOthers
  <2> QED BY <1>1, <2>1, <2>2 DEF AnswerIsTrue
<1>3. ASSUME NEW p \in PaymentIds, PostsPayment(c, p) PROVE SessionAgrees(c)'
  <2>1. Reply(c, "created", p) /\ req' = req /\ req[c].op = "pay"
    BY <1>3 DEF PostsPayment, At
  <2>2. payment'[p] > 0 /\ allocation'[p] = req[c].amounts
    BY <1>3, CleanRows, PaymentFacts
  <2>3. answer'[c].result = p
    BY <2>1, ReplyLeavesOthers
  <2> QED BY <1>1, <2>1, <2>2, <2>3 DEF AnswerIsTrue
<1>4. ASSUME NEW f \in RefundIds, PostsRefund(c, f) PROVE SessionAgrees(c)'
  <2>1. Reply(c, "created", f) /\ req' = req /\ req[c].op = "refund"
    BY <1>4 DEF PostsRefund, At
  <2>2. /\ refundOf'[f] = req[c].target /\ refundOf'[f] # NoValue
        /\ refundAllocation'[f] = req[c].amounts
    BY <1>4, CleanRows, RefundFacts
  <2>3. answer'[c].result = f
    BY <2>1, ReplyLeavesOthers
  <2> QED BY <1>1, <2>1, <2>2, <2>3 DEF AnswerIsTrue
<1> QED BY <1>2, <1>3, <1>4

LEMMA OwnAgrees ==
  ASSUME TypeOK, SafetyInv, BooksInv, NEW c \in Clients, Steps(c)
  PROVE  SessionAgrees(c)'
<1>1. /\ SessionAgrees(c) /\ RefundsWhatWasPaid(c)
      /\ AllocatedIsCharged /\ EffectsAreKeyed /\ RecordsDescribeRows
  BY DEF BooksInv, SessionAgrees
<1>2. ASSUME CommitCreate(c) PROVE SessionAgrees(c)'
  <2>1. CASE Continue(c, "recover")
    BY <2>1, RecoverAgrees
  <2>2. CASE ~Continue(c, "recover")
    <3>1. req[c].target \in Obligations
      BY <1>2, RequestShape DEF CommitCreate, At, TypeOK, SessionOK
    <3>2. PostsCharge(c, req[c].target)
      BY <1>2, <2>2 DEF CommitCreate, PostsCharge
    <3> QED BY <1>1, <3>1, <3>2, PostingAgrees
  <2> QED BY <2>1, <2>2
<1>3. ASSUME CommitPayment(c) PROVE SessionAgrees(c)'
  <2>1. CASE Continue(c, "recover") \/ Reply(c, "concurrent", NoValue)
    BY <2>1, RecoverAgrees, RefusalAgrees
  <2>2. CASE \E p \in PaymentIds : PostsPayment(c, p)
    BY <1>1, <2>2, PostingAgrees
  <2> QED BY <1>3, <2>1, <2>2 DEF CommitPayment, PostsPayment
<1>4. ASSUME CommitRefund(c) PROVE SessionAgrees(c)'
  <2>1. CASE Continue(c, "recover") \/ Reply(c, "concurrent", NoValue)
    BY <2>1, RecoverAgrees, RefusalAgrees
  <2>2. CASE \E f \in RefundIds : PostsRefund(c, f)
    BY <1>1, <2>2, PostingAgrees
  <2> QED BY <1>4, <2>1, <2>2 DEF CommitRefund, PostsRefund
<1>5. ASSUME LoadItem(c) PROVE SessionAgrees(c)'
  <2>1. CASE \E kind \in {"not_found", "resolved", "version_mismatch"} : \E x : Reply(c, kind, x)
    BY <2>1, RefusalAgrees
  <2>2. CASE Continue(c, "commit") /\ UNCHANGED req /\ req[c].op = "resolve"
    <3>1. stage'[c] = "commit"
      BY <2>2, ContinueLeavesOthers
    <3> QED BY <2>2, <3>1 DEF SessionAgrees, RefundsWhatWasPaid, TotalsStillTrue, AnswerIsTrue
  <2> QED BY <1>5, <2>1, <2>2 DEF LoadItem, At
<1>6. ASSUME CommitItem(c) PROVE SessionAgrees(c)'
  <2>1. \E kind \in {"concurrent", "resolved"} : \E x : Reply(c, kind, x)
    BY <1>6 DEF CommitItem
  <2> QED BY <2>1, RefusalAgrees
<1>7. ASSUME Recover(c) PROVE SessionAgrees(c)'
  <2>1. UNCHANGED <<books, req>> /\ stage[c] # "idle"
    BY <1>7 DEF Recover
  <2>2. CASE Replay(c, req[c])
    <3>1. PICK r \in Requests : r = req[c]
      BY <2>1 DEF TypeOK, SessionOK
    <3> QED BY <1>1, <2>1, <2>2, <3>1, ReplayAgrees
  <2>3. CASE Reply(c, IF req[c].op = "create" THEN "duplicate" ELSE "concurrent", NoValue)
    BY <2>3, RefusalAgrees
  <2> QED BY <1>7, <2>2, <2>3 DEF Recover
<1>8. ASSUME Abort(c) PROVE SessionAgrees(c)'
  BY <1>8, RefusalAgrees DEF Abort
<1> QED BY <1>1, <1>2, <1>3, <1>4, <1>5, <1>6, <1>7, <1>8, BeginAgrees, PaymentReadsAgree,
       RefundReadsAgree DEF Steps, Serve

-----------------------------------------------------------------------------
(* The invariant is inductive. *)

(* Nothing has been posted, and everything agrees. *)
LEMMA InitBooks == Init => BooksInv
<1> SUFFICES ASSUME Init PROVE BooksInv
  OBVIOUS
<1>1. TypeOK /\ SafetyInv
  BY InitTypeOK, InitSafety
<1>2. ASSUME NEW o \in Obligations
      PROVE  Gross(o) = 0 /\ Refunded(o) = 0
  <2> DEFINE lines == [p \in PaymentIds |-> allocation[p][o]]
  <2> DEFINE returns == [f \in RefundIds |-> refundAllocation[f][o]]
  <2>1. lines \in [PaymentIds -> Nat] /\ \A p \in PaymentIds : lines[p] = 0
    BY DEF Init
  <2>2. returns \in [RefundIds -> Nat] /\ \A f \in RefundIds : returns[f] = 0
    BY DEF Init
  <2>3. Gross(o) = UnitSum(lines) /\ Refunded(o) = UnitSum(returns)
    BY DEF Gross, Refunded
  <2> HIDE DEF lines, returns
  <2>4. UnitSum(lines) = 0 /\ UnitSum(returns) = 0
    BY <2>1, <2>2, UnitSumZero
  <2> QED BY <2>3, <2>4
<1>3. AllocatedIsCharged
  BY DEF Init, AllocatedIsCharged
<1>4. LedgerAgrees
  <2>1. /\ ChargedTable \in [Obligations -> Nat] /\ GrossTable \in [Obligations -> Nat]
        /\ RefundedTable \in [Obligations -> Nat] /\ payment \in [PaymentIds -> Nat]
    BY <1>1, TablesType DEF TypeOK
  <2>2. /\ \A o \in Obligations : ChargedTable[o] = 0 /\ GrossTable[o] = 0 /\ RefundedTable[o] = 0
        /\ \A p \in PaymentIds : payment[p] = 0
    BY <1>2 DEF Init, ChargedTable, GrossTable, RefundedTable
  <2>3. /\ UnitSum(ChargedTable) = 0 /\ UnitSum(GrossTable) = 0
        /\ UnitSum(RefundedTable) = 0 /\ UnitSum(payment) = 0
    BY <2>1, <2>2, UnitSumZero
  <2>4. balance["RENT_REVENUE"] = 0 /\ balance["CASH"] = 0 /\ balance["RENT_RECEIVABLE"] = 0
    BY DEF Init, Accounts
  <2> QED BY <2>3, <2>4, LedgerByTables
<1>5. EffectsAreKeyed /\ RecordsDescribeRows
  BY DEF Init, EffectsAreKeyed, RecordsDescribeRows
<1>7. \A c \in Clients : SessionAgrees(c)
  BY DEF Init, NoAnswer, SessionAgrees, RefundsWhatWasPaid, TotalsStillTrue, AnswerIsTrue
<1> QED BY <1>3, <1>4, <1>5, <1>7 DEF BooksInv

(* A step that posts nothing leaves the agreement of the books alone. *)
LEMMA QuietBooks ==
  ASSUME TypeOK, BooksInv, UNCHANGED <<books, idem>>
  PROVE  /\ AllocatedIsCharged' /\ LedgerAgrees'
         /\ EffectsAreKeyed' /\ RecordsDescribeRows'
         /\ RowsStay /\ TotalsMoveVersions
<1>1. UNCHANGED <<status, version, payment, allocation, refundOf, refundAllocation, balance, idem>>
  BY DEF books
<1>2. \A o \in Obligations :
        /\ Gross(o)' = Gross(o) /\ Refunded(o)' = Refunded(o) /\ Net(o)' = Net(o)
  BY <1>1 DEF Gross, Refunded, Net
<1>3. AllocatedIsCharged'
  BY <1>1 DEF BooksInv, AllocatedIsCharged
<1>4. LedgerAgrees'
  <2>1. /\ ChargedTable' = ChargedTable /\ GrossTable' = GrossTable
        /\ RefundedTable' = RefundedTable /\ payment' = payment /\ balance' = balance
    BY <1>1, <1>2 DEF ChargedTable, GrossTable, RefundedTable
  <2>2. /\ balance'["RENT_REVENUE"] = 0 - UnitSum(ChargedTable')
        /\ balance'["CASH"] = UnitSum(payment') - UnitSum(RefundedTable')
        /\ balance'["RENT_RECEIVABLE"] =
             UnitSum(ChargedTable') - UnitSum(GrossTable') + UnitSum(RefundedTable')
    BY <2>1, LedgerByTables DEF BooksInv
  <2> QED BY <2>2 DEF LedgerAgrees, ChargedTable, GrossTable, RefundedTable
<1>5. EffectsAreKeyed' /\ RecordsDescribeRows'
  BY <1>1 DEF BooksInv, EffectsAreKeyed, RecordsDescribeRows, Describes
<1>7. RowsStay /\ TotalsMoveVersions
  BY <1>1, <1>2 DEF RowsStay, TotalsMoveVersions
<1> QED BY <1>3, <1>4, <1>5, <1>7

(* A posting keeps the books in agreement. *)
LEMMA PostingBooks ==
  ASSUME TypeOK, TypeOK', SafetyInv, SafetyInv', BooksInv, NEW c \in Clients,
         \/ \E o \in Obligations : PostsCharge(c, o)
         \/ \E p \in PaymentIds : PostsPayment(c, p)
         \/ \E f \in RefundIds : PostsRefund(c, f)
  PROVE  /\ AllocatedIsCharged' /\ LedgerAgrees'
         /\ EffectsAreKeyed' /\ RecordsDescribeRows'
         /\ RowsStay /\ TotalsMoveVersions
<1>1. /\ RefundsWhatWasPaid(c) /\ TotalsStillTrue(c)
      /\ AllocatedIsCharged /\ LedgerAgrees
      /\ EffectsAreKeyed /\ RecordsDescribeRows
  BY DEF BooksInv, SessionAgrees
<1>3. ASSUME NEW o \in Obligations, PostsCharge(c, o)
      PROVE  /\ AllocatedIsCharged' /\ RowsStay /\ TotalsMoveVersions
  <2>1. RowsStay /\ TotalsMoveVersions /\ UNCHANGED allocation
    BY <1>3, CleanRows, ChargeFacts DEF PostsCharge
  <2>2. AllocatedIsCharged'
    BY <1>1, <2>1 DEF AllocatedIsCharged, RowsStay
  <2> QED BY <2>1, <2>2
<1>4. ASSUME NEW p \in PaymentIds, PostsPayment(c, p)
      PROVE  /\ AllocatedIsCharged' /\ RowsStay /\ TotalsMoveVersions
  <2>1. /\ \A x \in Obligations : status'[x] = "ABSENT" <=> status[x] = "ABSENT"
        /\ RowsStay /\ TotalsMoveVersions
        /\ allocation'[p] = req[c].amounts
        /\ \A q \in PaymentIds : q # p => allocation'[q] = allocation[q]
        /\ \A x \in Obligations :
             /\ x \in Included(req[c].amounts) => status[x] \in Payable
             /\ x \notin Included(req[c].amounts) => req[c].amounts[x] = 0
    BY <1>4, CleanRows, PaymentFacts
  <2>2. AllocatedIsCharged'
    <3>1. SUFFICES ASSUME NEW q \in PaymentIds, NEW x \in Obligations, allocation'[q][x] > 0
                   PROVE  status'[x] # "ABSENT"
      BY DEF AllocatedIsCharged
    <3>2. CASE q = p
      <4>1. x \in Included(req[c].amounts)
        BY <2>1, <3>1, <3>2
      <4>2. status[x] # "ABSENT"
        BY <2>1, <4>1 DEF Payable
      <4> QED BY <2>1, <4>2
    <3>3. CASE q # p
      <4>1. status[x] # "ABSENT"
        BY <1>1, <2>1, <3>1, <3>3 DEF AllocatedIsCharged
      <4> QED BY <2>1, <4>1
    <3> QED BY <3>2, <3>3
  <2> QED BY <2>1, <2>2
<1>5. ASSUME NEW f \in RefundIds, PostsRefund(c, f)
      PROVE  /\ AllocatedIsCharged' /\ RowsStay /\ TotalsMoveVersions
  <2>1. RowsStay /\ TotalsMoveVersions /\ UNCHANGED allocation
    BY <1>1, <1>5, CleanRows, RefundFacts DEF PostsRefund
  <2>2. AllocatedIsCharged'
    BY <1>1, <2>1 DEF AllocatedIsCharged, RowsStay
  <2> QED BY <2>1, <2>2
<1> QED BY <1>1, <1>3, <1>4, <1>5, CleanRows, ChargeKeepsLedger, PaymentKeepsLedger,
       RefundKeepsLedger, ChargeKeepsKeys, PaymentKeepsKeys, RefundKeepsKeys

LEMMA NextBooks ==
  TypeOK /\ TypeOK' /\ SafetyInv /\ SafetyInv' /\ BooksInv /\ [Next]_vars => BooksInv'
<1> SUFFICES ASSUME TypeOK, TypeOK', SafetyInv, SafetyInv', BooksInv, [Next]_vars
             PROVE  BooksInv'
  OBVIOUS
<1>1. /\ AllocatedIsCharged' /\ LedgerAgrees'
      /\ EffectsAreKeyed' /\ RecordsDescribeRows'
      /\ RowsStay /\ TotalsMoveVersions
  <2>1. CASE UNCHANGED <<books, idem>>
    BY <2>1, QuietBooks
  <2>2. UNCHANGED vars => UNCHANGED <<books, idem>>
    BY DEF vars
  <2> QED BY <2>1, <2>2, StepsPostOrNot, PostingBooks
<1>2. \A d \in Clients : ReadingIsPast(d) /\ SessionAgrees(d)
  BY DEF SafetyInv, ReadingOK, BooksInv
<1>3. ASSUME NEW d \in Clients PROVE SessionAgrees(d)'
  <2>1. CASE UNCHANGED vars
    <3>1. stage'[d] = stage[d] /\ req'[d] = req[d] /\ seen'[d] = seen[d] /\ answer'[d] = answer[d]
      BY <2>1 DEF vars, session
    <3> QED BY <1>1, <1>2, <3>1, StillAgrees
  <2>2. ASSUME NEW c \in Clients, Steps(c) PROVE SessionAgrees(d)'
    <3>1. CASE d = c
      BY <2>2, <3>1, OwnAgrees
    <3>2. CASE d # c
      BY <1>1, <1>2, <2>2, <3>2, OthersUntouched, StillAgrees
    <3> QED BY <3>1, <3>2
  <2> QED BY <2>1, <2>2 DEF Next, Steps
<1> QED BY <1>1, <1>3 DEF BooksInv

-----------------------------------------------------------------------------
(* Ledger, rows, records, statuses, what requests know and what clients were *)
(* told agree in every reachable state of the rent module.                   *)
THEOREM BooksAgree == Spec => []BooksInv
BY TypeCorrect, LockingIsSound, InitBooks, NextBooks, PTL DEF Spec

(* The ledger postLedger writes is at all times derivable from the            *)
(* obligations, allocations and refunds, whatever races, retries and aborts.  *)
THEOREM LedgerIsDerivable == Spec => []LedgerAgrees
<1>1. BooksInv => LedgerAgrees
  BY DEF BooksInv
<1> QED BY <1>1, BooksAgree, PTL

(* A key never has two outcomes and no row two keys: neither a retry nor a    *)
(* race posts twice, and nothing is posted without its idempotency record.    *)
THEOREM KeysPostOnce == Spec => []EffectsAreKeyed
<1>1. BooksInv => EffectsAreKeyed
  BY DEF BooksInv
<1> QED BY <1>1, BooksAgree, PTL

(* A client told "created", or replayed a stored response, was told of a row  *)
(* that says exactly what it asked for.                                       *)
THEOREM AnswersCanBeTrusted == Spec => []AnswersAreTrue
<1>1. ASSUME BooksInv, NEW c \in Clients, stage[c] = "idle",
             answer[c].kind \in {"created", "replayed"}
      PROVE  LET r == req[c]
                 found == answer[c].result
             IN CASE r.op = "create" -> found = r.target /\ status[found] # "ABSENT"
                  [] r.op = "pay"    -> found \in PaymentIds /\ allocation[found] = r.amounts
                  [] r.op = "refund" -> /\ found \in RefundIds /\ refundOf[found] = r.target
                                        /\ refundAllocation[found] = r.amounts
  <2>1. AnswerIsTrue(c)
    BY <1>1 DEF BooksInv, SessionAgrees
  <2>2. CASE req[c].op = "create"
    BY <1>1, <2>1, <2>2, Zenon DEF AnswerIsTrue
  <2>3. CASE req[c].op = "pay"
    BY <1>1, <2>1, <2>3, Zenon DEF AnswerIsTrue
  <2>4. CASE req[c].op = "refund"
    BY <1>1, <2>1, <2>4, Zenon DEF AnswerIsTrue
  <2> QED BY <1>1, <2>1, <2>2, <2>3, <2>4, Zenon DEF AnswerIsTrue
<1>2. BooksInv => AnswersAreTrue
  BY <1>1, Zenon DEF AnswersAreTrue
<1> QED BY <1>2, BooksAgree, PTL

-----------------------------------------------------------------------------
(* Statuses. *)

(* What StatusesAreCurrent says of one obligation in one step. *)
StatusIsCurrent(o) ==
  /\ Gross(o)' # Gross(o) => status[o]' = PaidStatus(Gross(o)', o)
  /\ Refunded(o)' # Refunded(o) => status[o]' = NetStatus(Net(o)', o)
  /\ status[o]' # status[o] =>
       \/ status[o] = "ABSENT" /\ status[o]' = "OPEN"
       \/ Gross(o)' # Gross(o) \/ Refunded(o)' # Refunded(o)

(* The version was read before the totals: while it stands, so do they. *)
LEMMA PaymentIsCurrent ==
  ASSUME TypeOK, SafetyInv, NEW c \in Clients, TotalsStillTrue(c),
         NEW p \in PaymentIds, PostsPayment(c, p), NEW o \in Obligations
  PROVE  StatusIsCurrent(o)
<1> DEFINE amounts == req[c].amounts
<1>1. /\ amounts \in Amounts
      /\ Gross(o)' = Gross(o) + amounts[o] /\ Refunded(o)' = Refunded(o)
      /\ o \in Included(amounts) => status'[o] = PaidStatus(seen[c].total[o] + amounts[o], o)
      /\ o \notin Included(amounts) => amounts[o] = 0 /\ status'[o] = status[o]
  BY CleanRows, PaymentFacts
<1>2. o \in Included(amounts) => seen[c].total[o] = Gross(o)
  BY DEF PostsPayment, At, Unchanged, TotalsStillTrue
<1>3. Gross(o) \in Nat /\ amounts[o] \in Nat
  BY <1>1, TotalsType DEF TypeOK, Amounts
<1>4. o \in Included(amounts) => amounts[o] > 0
  BY DEF Included
<1> HIDE DEF amounts
<1>5. CASE o \in Included(amounts)
  <2>1. status'[o] = PaidStatus(Gross(o)', o)
    BY <1>1, <1>2, <1>5
  <2>2. Gross(o)' # Gross(o)
    BY <1>1, <1>3, <1>4, <1>5
  <2> QED BY <1>1, <2>1, <2>2 DEF StatusIsCurrent
<1>6. CASE o \notin Included(amounts)
  <2>1. Gross(o)' = Gross(o) /\ status'[o] = status[o]
    BY <1>1, <1>3, <1>6
  <2> QED BY <1>1, <2>1 DEF StatusIsCurrent
<1> QED BY <1>5, <1>6

LEMMA RefundIsCurrent ==
  ASSUME TypeOK, SafetyInv, AllocatedIsCharged, NEW c \in Clients,
         RefundsWhatWasPaid(c), TotalsStillTrue(c),
         NEW f \in RefundIds, PostsRefund(c, f), NEW o \in Obligations
  PROVE  StatusIsCurrent(o)
<1> DEFINE amounts == req[c].amounts
<1>1. /\ amounts \in Amounts
      /\ Gross(o)' = Gross(o) /\ Refunded(o)' = Refunded(o) + amounts[o]
      /\ o \in Included(amounts) => status'[o] = NetStatus(seen[c].total[o] - amounts[o], o)
      /\ o \notin Included(amounts) => amounts[o] = 0 /\ status'[o] = status[o]
  BY CleanRows, RefundFacts
<1>2. o \in Included(amounts) => seen[c].total[o] = Net(o)
  BY DEF PostsRefund, At, Unchanged, TotalsStillTrue
<1>3. Gross(o) \in Nat /\ Refunded(o) \in Nat /\ amounts[o] \in Nat
  BY <1>1, TotalsType DEF TypeOK, Amounts
<1>4. o \in Included(amounts) => amounts[o] > 0
  BY DEF Included
<1> HIDE DEF amounts
<1>5. CASE o \in Included(amounts)
  <2>1. seen[c].total[o] - amounts[o] = Net(o)'
    BY <1>1, <1>2, <1>3, <1>5 DEF Net
  <2>2. status'[o] = NetStatus(Net(o)', o)
    BY <1>1, <1>5, <2>1
  <2>3. Refunded(o)' # Refunded(o)
    BY <1>1, <1>3, <1>4, <1>5
  <2> QED BY <1>1, <2>2, <2>3 DEF StatusIsCurrent
<1>6. CASE o \notin Included(amounts)
  <2>1. Refunded(o)' = Refunded(o) /\ status'[o] = status[o]
    BY <1>1, <1>3, <1>6
  <2> QED BY <1>1, <2>1 DEF StatusIsCurrent
<1> QED BY <1>5, <1>6

LEMMA StepsAreCurrent ==
  ASSUME TypeOK, SafetyInv, BooksInv, [Next]_vars, NEW o \in Obligations
  PROVE  StatusIsCurrent(o)
<1>1. ASSUME UNCHANGED books PROVE StatusIsCurrent(o)
  BY <1>1 DEF books, Gross, Refunded, StatusIsCurrent
<1>2. ASSUME NEW c \in Clients, NEW x \in Obligations, PostsCharge(c, x)
      PROVE  StatusIsCurrent(o)
  <2>1. /\ Gross(o)' = Gross(o) /\ Refunded(o)' = Refunded(o)
        /\ status[x] = "ABSENT" /\ status'[x] = "OPEN"
        /\ o # x => status'[o] = status[o]
    BY <1>2, CleanRows, ChargeFacts
  <2> QED BY <2>1 DEF StatusIsCurrent
<1>3. AllocatedIsCharged /\ \A c \in Clients : RefundsWhatWasPaid(c) /\ TotalsStillTrue(c)
  BY DEF BooksInv, SessionAgrees
<1>4. UNCHANGED vars => UNCHANGED books
  BY DEF vars
<1> QED BY <1>1, <1>2, <1>3, <1>4, StepsPostOrNot, PaymentIsCurrent, RefundIsCurrent

(* The rule for the status of an obligation after a refund. *)
LEMMA StatusRules ==
  ASSUME NEW o \in Obligations
  PROVE  \A net \in Int :
           /\ NetStatus(net, o) = "OPEN" <=> net <= 0
           /\ NetStatus(net, o) = "PAID" <=> net >= Rent[o]
           /\ NetStatus(net, o) \in {"OPEN", "PARTIALLY_PAID", "PAID"}
<1>1. Rent[o] \in Nat /\ Rent[o] > 0
  BY RentAssumption
<1>2. ASSUME NEW net \in Int, net <= 0 PROVE NetStatus(net, o) = "OPEN" /\ ~(net >= Rent[o])
  BY <1>1, <1>2 DEF NetStatus
<1>3. ASSUME NEW net \in Int, net > 0, net >= Rent[o] PROVE NetStatus(net, o) = "PAID"
  BY <1>3 DEF NetStatus
<1>4. ASSUME NEW net \in Int, net > 0, ~(net >= Rent[o])
      PROVE  NetStatus(net, o) = "PARTIALLY_PAID"
  BY <1>4 DEF NetStatus
<1> QED BY <1>2, <1>3, <1>4

NetsAreWhole == \A o \in Obligations : Net(o) \in Int

LEMMA NetIsWhole == TypeOK => NetsAreWhole
BY TotalsType DEF TypeOK, NetsAreWhole

(* The rules applied to the totals after the step. *)
StatusIsWhatRowsSay(o) ==
  /\ Gross(o)' # Gross(o) =>
       status[o]' = IF Gross(o)' = Rent[o] THEN "PAID" ELSE "PARTIALLY_PAID"
  /\ Refunded(o)' # Refunded(o) =>
       /\ status[o]' = "OPEN" <=> Net(o)' <= 0
       /\ status[o]' = "PAID" <=> Net(o)' >= Rent[o]
       /\ status[o]' \in {"OPEN", "PARTIALLY_PAID", "PAID"}
  /\ status[o]' # status[o] =>
       \/ status[o] = "ABSENT" /\ status[o]' = "OPEN"
       \/ Gross(o)' # Gross(o) \/ Refunded(o)' # Refunded(o)

LEMMA CurrentStatusIsWhatRowsSay ==
  ASSUME NEW o \in Obligations, StatusIsCurrent(o), Net(o)' \in Int
  PROVE  StatusIsWhatRowsSay(o)
<1>1. PaidStatus(Gross(o)', o) = IF Gross(o)' = Rent[o] THEN "PAID" ELSE "PARTIALLY_PAID"
  BY DEF PaidStatus
<1>2. /\ NetStatus(Net(o)', o) = "OPEN" <=> Net(o)' <= 0
      /\ NetStatus(Net(o)', o) = "PAID" <=> Net(o)' >= Rent[o]
      /\ NetStatus(Net(o)', o) \in {"OPEN", "PARTIALLY_PAID", "PAID"}
  BY StatusRules
<1> QED BY <1>1, <1>2 DEF StatusIsCurrent, StatusIsWhatRowsSay

(* recordPayment and recordRefund read the totals they derive a status from   *)
(* several statements before they store it; the versioned update makes sure   *)
(* that the status is nevertheless the one of the rows at the commit.         *)
THEOREM StatusesNeverStale == Spec => StatusesAreCurrent
<1>1. TypeOK /\ SafetyInv /\ BooksInv /\ [Next]_vars =>
        \A o \in Obligations : StatusIsCurrent(o)
  BY StepsAreCurrent
<1>2. TypeOK' => NetsAreWhole'
  BY NetIsWhole, PTL
<1>3. TypeOK /\ TypeOK' /\ SafetyInv /\ BooksInv /\ [Next]_vars =>
        \A o \in Obligations : StatusIsWhatRowsSay(o)
  BY <1>1, <1>2, CurrentStatusIsWhatRowsSay DEF NetsAreWhole
<1>4. TypeOK /\ TypeOK' /\ SafetyInv /\ BooksInv /\ [Next]_vars =>
        [\A o \in Obligations :
           /\ Gross(o)' # Gross(o) =>
                status[o]' = IF Gross(o)' = Rent[o] THEN "PAID" ELSE "PARTIALLY_PAID"
           /\ Refunded(o)' # Refunded(o) =>
                /\ status[o]' = "OPEN" <=> Net(o)' <= 0
                /\ status[o]' = "PAID" <=> Net(o)' >= Rent[o]
                /\ status[o]' \in {"OPEN", "PARTIALLY_PAID", "PAID"}
           /\ status[o]' # status[o] =>
                \/ status[o] = "ABSENT" /\ status[o]' = "OPEN"
                \/ Gross(o)' # Gross(o) \/ Refunded(o)' # Refunded(o)]_vars
  BY <1>3 DEF StatusIsWhatRowsSay
<1> QED BY <1>4, TypeCorrect, LockingIsSound, BooksAgree, PTL DEF Spec, StatusesAreCurrent

-----------------------------------------------------------------------------
(* The refinement: charges, payments and refunds are steps of the accounts. *)

LEMMA InitAccount == Init => Account!Init
<1> SUFFICES ASSUME Init PROVE Account!Init
  OBVIOUS
<1>1. \A o \in Obligations : Gross(o) = 0 /\ Refunded(o) = 0
  <2> TAKE o \in Obligations
  <2> DEFINE lines == [p \in PaymentIds |-> allocation[p][o]]
  <2> DEFINE returns == [f \in RefundIds |-> refundAllocation[f][o]]
  <2>1. lines \in [PaymentIds -> Nat] /\ \A p \in PaymentIds : lines[p] = 0
    BY DEF Init
  <2>2. returns \in [RefundIds -> Nat] /\ \A f \in RefundIds : returns[f] = 0
    BY DEF Init
  <2>3. Gross(o) = UnitSum(lines) /\ Refunded(o) = UnitSum(returns)
    BY DEF Gross, Refunded
  <2> HIDE DEF lines, returns
  <2> QED BY <2>1, <2>2, <2>3, UnitSumZero
<1> QED BY <1>1 DEF Init, Account!Init, Account!Nothing

LEMMA ChargeIsCharge ==
  ASSUME TypeOK, SafetyInv, NEW c \in Clients, NEW o \in Obligations, PostsCharge(c, o)
  PROVE  Account!Charge
<1>1. /\ \A x \in Obligations : Gross(x)' = Gross(x) /\ Refunded(x)' = Refunded(x)
      /\ status[o] = "ABSENT" /\ status'[o] = "OPEN"
      /\ \A x \in Obligations : x # o => status'[x] = status[x]
  BY CleanRows, ChargeFacts
<1>2. /\ [x \in Obligations |-> Gross(x)]' = [x \in Obligations |-> Gross(x)]
      /\ [x \in Obligations |-> Refunded(x)]' = [x \in Obligations |-> Refunded(x)]
  BY <1>1
<1>3. /\ ChargedTable[o] = 0
      /\ ChargedTable' = [ChargedTable EXCEPT ![o] = Rent[o]]
  BY <1>1 DEF ChargedTable
<1> QED BY <1>2, <1>3 DEF ChargedTable, Account!Charge

(* A payment stays within what is due: it was checked against the rent. *)
LEMMA PaymentIsReceive ==
  ASSUME TypeOK, SafetyInv, SafetyInv', AllocatedIsCharged, NEW c \in Clients,
         NEW p \in PaymentIds, PostsPayment(c, p)
  PROVE  Account!Receive
<1> DEFINE amounts == req[c].amounts
<1>1. /\ amounts \in Amounts
      /\ \A o \in Obligations :
           /\ Gross(o)' = Gross(o) + amounts[o] /\ Refunded(o)' = Refunded(o)
           /\ o \in Included(amounts) => status[o] \in Payable
           /\ o \notin Included(amounts) => amounts[o] = 0
           /\ status'[o] = "ABSENT" <=> status[o] = "ABSENT"
  BY CleanRows, PaymentFacts
<1> HIDE DEF amounts
<1>2. \A o \in Obligations : /\ Gross(o) \in Nat /\ Gross(o)' \in Nat
                            /\ Gross(o) <= Gross(o)' /\ Gross(o)' <= Rent[o]
  <2> TAKE o \in Obligations
  <2>1. Gross(o) \in Nat /\ amounts[o] \in Nat
    BY <1>1, TotalsType DEF TypeOK, Amounts
  <2>2. Gross(o)' <= Rent[o]
    BY DEF SafetyInv, NoOverAllocation
  <2> QED BY <1>1, <2>1, <2>2
<1>3. ASSUME NEW o \in Obligations, status[o] = "ABSENT" PROVE Gross(o)' = 0
  <2>1. amounts[o] = 0
    BY <1>1, <1>3 DEF Payable
  <2>2. Gross(o) = 0
    <3> DEFINE lines == [q \in PaymentIds |-> allocation[q][o]]
    <3>1. lines \in [PaymentIds -> Nat] /\ Gross(o) = UnitSum(lines)
      BY DEF TypeOK, BooksOK, Amounts, Gross
    <3>2. \A q \in PaymentIds : ~(lines[q] > 0)
      BY <1>3 DEF AllocatedIsCharged
    <3> HIDE DEF lines
    <3>3. \A q \in PaymentIds : lines[q] = 0
      BY <3>1, <3>2
    <3> QED BY <3>1, <3>3, UnitSumZero
  <2> QED BY <1>1, <2>1, <2>2
<1>4. \A o \in Obligations :
        Gross(o)' <= IF status[o] = "ABSENT" THEN 0 ELSE Rent[o]
  BY <1>2, <1>3
<1>5. /\ ChargedTable' = ChargedTable
      /\ [o \in Obligations |-> Refunded(o)]' = [o \in Obligations |-> Refunded(o)]
  BY <1>1 DEF ChargedTable
<1>6. [o \in Obligations |-> Gross(o)]' \in [Obligations -> Nat]
  BY <1>2
<1>7. Account!Within([o \in Obligations |-> Gross(o)], [o \in Obligations |-> Gross(o)]')
  BY <1>2 DEF Account!Within
<1>8. Account!Within([o \in Obligations |-> Gross(o)]', ChargedTable)
  BY <1>4 DEF Account!Within, ChargedTable
<1> QED BY <1>5, <1>6, <1>7, <1>8 DEF ChargedTable, Account!Receive

(* A refund is within the payment line it was checked against. *)
LEMMA RefundIsReturn ==
  ASSUME TypeOK, SafetyInv, AllocatedIsCharged, NEW c \in Clients, RefundsWhatWasPaid(c),
         NEW f \in RefundIds, PostsRefund(c, f)
  PROVE  Account!Return
<1> DEFINE amounts == req[c].amounts
<1> DEFINE paid == req[c].target
<1>1. /\ amounts \in Amounts /\ paid \in PaymentIds
      /\ \A o \in Obligations :
           /\ Gross(o)' = Gross(o) /\ Refunded(o)' = Refunded(o) + amounts[o]
           /\ o \notin Included(amounts) => amounts[o] = 0
           /\ status'[o] = "ABSENT" <=> status[o] = "ABSENT"
  BY CleanRows, RefundFacts
<1>2. \A o \in Included(amounts) : amounts[o] <= allocation[paid][o]
  BY DEF PostsRefund, At, SafetyInv, ReadingOK, RefundFitsLine
<1> HIDE DEF amounts, paid
<1>3. ASSUME NEW o \in Obligations PROVE amounts[o] \in Nat /\ amounts[o] <= Gross(o)
  <2> DEFINE lines == [p \in PaymentIds |-> allocation[p][o]]
  <2>1. lines \in [PaymentIds -> Nat] /\ Gross(o) = UnitSum(lines) /\ amounts[o] \in Nat
    BY <1>1 DEF TypeOK, BooksOK, Amounts, Gross
  <2>2. lines[paid] = allocation[paid][o]
    BY <1>1
  <2> HIDE DEF lines
  <2>3. lines[paid] <= Gross(o) /\ lines[paid] \in Nat /\ Gross(o) \in Nat
    BY <1>1, <2>1, SetsAssumption, UnitSumMember, TotalsType DEF TypeOK
  <2>4. amounts[o] <= lines[paid]
    BY <1>1, <1>2, <2>2, <2>3
  <2> QED BY <2>1, <2>3, <2>4
<1>4. \A o \in Obligations : /\ Refunded(o)' \in Nat /\ Refunded(o) <= Refunded(o)'
                            /\ Refunded(o)' - Refunded(o) <= Gross(o)
  <2> TAKE o \in Obligations
  <2>1. Refunded(o) \in Nat /\ Gross(o) \in Nat
    BY TotalsType DEF TypeOK
  <2> QED BY <1>1, <1>3, <2>1
<1>5. /\ ChargedTable' = ChargedTable
      /\ [o \in Obligations |-> Gross(o)]' = [o \in Obligations |-> Gross(o)]
  BY <1>1 DEF ChargedTable
<1>6. [o \in Obligations |-> Refunded(o)]' \in [Obligations -> Nat]
  BY <1>4
<1>7. Account!Within([o \in Obligations |-> Refunded(o)], [o \in Obligations |-> Refunded(o)]')
  BY <1>4 DEF Account!Within
<1>8. \A o \in Obligations :
        [x \in Obligations |-> Refunded(x)]'[o] - [x \in Obligations |-> Refunded(x)][o]
          <= [x \in Obligations |-> Gross(x)][o]
  BY <1>4
<1> QED BY <1>5, <1>6, <1>7, <1>8 DEF ChargedTable, Account!Return

(* Every step of the requests is a step of the accounts or leaves them alone. *)
LEMMA NextAccount ==
  TypeOK /\ SafetyInv /\ SafetyInv' /\ BooksInv /\ [Next]_vars
    => [Account!Next]_(Account!account)
<1> SUFFICES ASSUME TypeOK, SafetyInv, SafetyInv', BooksInv, [Next]_vars
             PROVE  [Account!Next]_(Account!account)
  OBVIOUS
<1>1. CASE UNCHANGED <<books, idem>>
  <2>1. /\ status' = status
        /\ \A o \in Obligations : Gross(o)' = Gross(o) /\ Refunded(o)' = Refunded(o)
    BY <1>1 DEF books, Gross, Refunded
  <2>2. UNCHANGED Account!account
    BY <2>1 DEF Account!account
  <2> QED BY <2>2
<1>2. ASSUME NEW c \in Clients,
             \/ \E o \in Obligations : PostsCharge(c, o)
             \/ \E p \in PaymentIds : PostsPayment(c, p)
             \/ \E f \in RefundIds : PostsRefund(c, f)
      PROVE  Account!Next
  <2>1. AllocatedIsCharged /\ RefundsWhatWasPaid(c)
    BY DEF BooksInv, SessionAgrees
  <2> QED BY <1>2, <2>1, ChargeIsCharge, PaymentIsReceive, RefundIsReturn DEF Account!Next
<1>3. UNCHANGED vars => UNCHANGED <<books, idem>>
  BY DEF vars
<1> QED BY <1>1, <1>2, <1>3, StepsPostOrNot

(* The rent module keeps the promise of RentAccount, by any interleaving of   *)
(* requests: rent is charged once, received only where due and never beyond   *)
(* it, and no refund returns more than was received.                          *)
THEOREM RentImplementsAccount == Spec => ImplementsAccount
<1>1. TypeOK /\ SafetyInv /\ SafetyInv' /\ BooksInv /\ [Next]_vars
        => [Account!Next]_(Account!account)
  BY NextAccount
<1> QED BY <1>1, InitAccount, TypeCorrect, LockingIsSound, BooksAgree, PTL
       DEF Spec, ImplementsAccount, Account!Spec

=============================================================================
