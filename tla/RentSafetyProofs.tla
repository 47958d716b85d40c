-------------------------- MODULE RentSafetyProofs --------------------------
(***************************************************************************)
(* The safety theorems of RentLedger.  The argument is that of optimistic  *)
(* locking: a request's check stays true of every obligation that still    *)
(* has the version the request read (ReadingOK), because whatever changes  *)
(* what an obligation's readers derive from it moves that version, and     *)
(* versions never go back.                                                 *)
(***************************************************************************)
EXTENDS RentLedgerProofs

-----------------------------------------------------------------------------
(* How the totals move when a row is written. *)

LEMMA RefundedOfType ==
  ASSUME BooksOK, NEW p, NEW o \in Obligations
  PROVE  RefundedOf(p, o) \in Nat
<1>1. [r \in RefundIds |-> IF refundOf[r] = p THEN refundAllocation[r][o] ELSE 0]
        \in [RefundIds -> Nat]
  BY DEF BooksOK, Amounts
<1> QED BY <1>1, SetsAssumption, UnitSumType DEF RefundedOf

(* A payment adds its amounts to the gross totals. *)
LEMMA GrossGrows ==
  ASSUME BooksOK, UnusedIsEmpty, NEW p \in PaymentIds, payment[p] = 0,
         NEW amounts \in Amounts, allocation' = [allocation EXCEPT ![p] = amounts],
         NEW o \in Obligations
  PROVE  Gross(o)' = Gross(o) + amounts[o]
<1> DEFINE f == [q \in PaymentIds |-> allocation[q][o]]
<1> DEFINE g == [q \in PaymentIds |-> allocation'[q][o]]
<1>1. f \in [PaymentIds -> Nat] /\ g \in [PaymentIds -> Nat]
  BY DEF BooksOK, Amounts
<1>2. f[p] = 0 /\ g[p] = amounts[o] /\ amounts[o] \in Nat
  BY DEF BooksOK, Amounts, UnusedIsEmpty
<1>3. \A q \in PaymentIds : q # p => f[q] = g[q]
  BY DEF BooksOK
<1>4. Gross(o) = UnitSum(f) /\ Gross(o)' = UnitSum(g)
  BY DEF Gross
<1> HIDE DEF f, g
<1>5. UnitSum(f) \in Nat /\ UnitSum(g) = UnitSum(f) - f[p] + g[p]
  BY <1>1, <1>3, SetsAssumption, UnitSumUpdate
<1> QED BY <1>2, <1>4, <1>5

(* A refund adds its amounts to the refunded totals. *)
LEMMA RefundedGrows ==
  ASSUME BooksOK, UnusedIsEmpty, NEW f \in RefundIds, refundOf[f] = NoValue,
         NEW amounts \in Amounts,
         refundAllocation' = [refundAllocation EXCEPT ![f] = amounts],
         NEW o \in Obligations
  PROVE  Refunded(o)' = Refunded(o) + amounts[o]
<1> DEFINE before == [r \in RefundIds |-> refundAllocation[r][o]]
<1> DEFINE after == [r \in RefundIds |-> refundAllocation'[r][o]]
<1>1. before \in [RefundIds -> Nat] /\ after \in [RefundIds -> Nat]
  BY DEF BooksOK, Amounts
<1>2. before[f] = 0 /\ after[f] = amounts[o] /\ amounts[o] \in Nat
  BY DEF BooksOK, Amounts, UnusedIsEmpty
<1>3. \A r \in RefundIds : r # f => before[r] = after[r]
  BY DEF BooksOK
<1>4. Refunded(o) = UnitSum(before) /\ Refunded(o)' = UnitSum(after)
  BY DEF Refunded
<1> HIDE DEF before, after
<1>5. UnitSum(before) \in Nat /\ UnitSum(after) = UnitSum(before) - before[f] + after[f]
  BY <1>1, <1>3, SetsAssumption, UnitSumUpdate
<1> QED BY <1>2, <1>4, <1>5

-----------------------------------------------------------------------------
(* Nothing has been read or written yet. *)
LEMMA InitSafety == Init => SafetyInv
<1> SUFFICES ASSUME Init PROVE SafetyInv
  OBVIOUS
<1>1. BooksOK
  BY InitTypeOK DEF TypeOK
<1>2. \A o \in Obligations : Gross(o) = 0
  <2> TAKE o \in Obligations
  <2>1. [p \in PaymentIds |-> allocation[p][o]] \in [PaymentIds -> Nat]
    BY <1>1 DEF BooksOK, Amounts
  <2>2. \A p \in PaymentIds : [q \in PaymentIds |-> allocation[q][o]][p] = 0
    BY DEF Init
  <2> QED BY <2>1, <2>2, UnitSumZero DEF Gross
<1>4. NoOverAllocation
  BY <1>2, RentAssumption DEF Init, NoOverAllocation
<1>5. UnusedIsEmpty /\ AbsentIsNew
  BY DEF Init, UnusedIsEmpty, AbsentIsNew, Items
<1>6. \A c \in Clients : ReadingOK(c)
  BY DEF Init, ReadingOK, ReadingIsPast, PaymentStillFits, RefundFitsLine, At, Unseen
<1> QED BY <1>4, <1>5, <1>6 DEF SafetyInv

-----------------------------------------------------------------------------
(* Steps that write neither the books nor the queue. *)

(* Such a step keeps the invariant if what its own request knows is true. *)
LEMMA QuietStep ==
  ASSUME SafetyInv, NEW c \in Clients, UNCHANGED <<books, item>>,
         \A d \in Clients : d # c =>
           stage'[d] = stage[d] /\ req'[d] = req[d] /\ seen'[d] = seen[d],
         ReadingOK(c)'
  PROVE  SafetyInv'
<1>1. /\ \A o \in Obligations : Gross(o)' = Gross(o)
      /\ UNCHANGED <<status, version, payment, allocation, refundOf, refundAllocation, item>>
  BY DEF books, Gross
<1>2. ASSUME NEW d \in Clients, d # c PROVE ReadingOK(d)'
  <2>1. /\ ReadingOK(d)
        /\ stage'[d] = stage[d] /\ req'[d] = req[d] /\ seen'[d] = seen[d]
    BY <1>2 DEF SafetyInv
  <2>2. ReadingIsPast(d)' /\ PaymentStillFits(d)'
    BY <1>1, <2>1 DEF ReadingOK, ReadingIsPast, PaymentStillFits, At, Included
  <2>3. RefundFitsLine(d)'
    BY <1>1, <2>1 DEF ReadingOK, RefundFitsLine, Included
  <2> QED BY <2>2, <2>3 DEF ReadingOK
<1>3. UnusedIsEmpty' /\ AbsentIsNew'
  BY <1>1 DEF SafetyInv, UnusedIsEmpty, AbsentIsNew
<1>4. NoOverAllocation'
  BY <1>1 DEF SafetyInv, NoOverAllocation
<1> QED BY <1>2, <1>3, <1>4 DEF SafetyInv

(* An answered request knows nothing any more. *)
LEMMA ReplyKnowsNothing ==
  ASSUME TypeOK, TypeOK', NEW c \in Clients, NEW kind, NEW result, Reply(c, kind, result)
  PROVE  /\ ReadingOK(c)'
         /\ \A d \in Clients : d # c => stage'[d] = stage[d] /\ seen'[d] = seen[d]
BY DEF TypeOK, BooksOK, SessionOK, Versions, Reply, ReadingOK, ReadingIsPast,
   PaymentStillFits, RefundFitsLine, At, Unseen

LEMMA ReplaySafe ==
  ASSUME TypeOK, TypeOK', SafetyInv, NEW c \in Clients, NEW r, Replay(c, r),
         UNCHANGED <<books, item>>, \A d \in Clients : d # c => req'[d] = req[d]
  PROVE  SafetyInv'
<1>1. \E kind, result : Reply(c, kind, result)
  BY DEF Replay
<1> QED BY <1>1, ReplyKnowsNothing, QuietStep

LEMMA BeginSafe ==
  ASSUME TypeOK, TypeOK', SafetyInv, NEW c \in Clients, NEW r \in Requests, Begin(c, r)
  PROVE  SafetyInv'
<1>1. /\ UNCHANGED <<books, item>>
      /\ \A d \in Clients : d # c => req'[d] = req[d]
      /\ req'[c] = r
  BY DEF Begin, TypeOK, SessionOK
<1>2. CASE \E kind : Reply(c, kind, NoValue)
  BY <1>1, <1>2, ReplyKnowsNothing, QuietStep
<1>3. CASE Replay(c, r)
  BY <1>1, <1>3, ReplaySafe
<1>4. CASE /\ stage' = [stage EXCEPT ![c] = IF r.op = "create" THEN "commit" ELSE "load"]
           /\ UNCHANGED seen
  <2>1. /\ stage'[c] = IF r.op = "create" THEN "commit" ELSE "load"
        /\ \A d \in Clients : d # c => stage'[d] = stage[d] /\ seen'[d] = seen[d]
    BY <1>4 DEF TypeOK, SessionOK
  <2>2. ReadingIsPast(c)'
    BY <1>1, <1>4 DEF SafetyInv, ReadingOK, ReadingIsPast, books
  <2>3. ReadingOK(c)'
    BY <1>1, <2>1, <2>2 DEF ReadingOK, PaymentStillFits, RefundFitsLine, At
  <2> QED BY <1>1, <2>1, <2>3, QuietStep
<1> QED BY <1>2, <1>3, <1>4 DEF Begin

(* A step that reads, and goes on, leaves the other requests alone. *)
LEMMA ContinueLeavesOthers ==
  ASSUME TypeOK, NEW c \in Clients, NEW s, Continue(c, s)
  PROVE  stage'[c] = s /\ \A d \in Clients : d # c => stage'[d] = stage[d]
BY DEF TypeOK, SessionOK, Continue

LEMMA PaymentReadsSafe ==
  ASSUME TypeOK, TypeOK', SafetyInv, NEW c \in Clients,
         LoadPayment(c) \/ CheckPayment(c)
  PROVE  SafetyInv'
<1> DEFINE named == Included(req[c].amounts)
<1>1. UNCHANGED <<books, item, req>> /\ req[c].op = "pay"
  BY DEF LoadPayment, CheckPayment, At
<1>2. CASE \E kind : Reply(c, kind, NoValue)
  BY <1>1, <1>2, ReplyKnowsNothing, QuietStep
<1>3. CASE /\ seen' = [seen EXCEPT ![c].version = VersionsOf(named)]
           /\ Continue(c, "totals")
  <2>1. stage'[c] = "totals" /\ \A d \in Clients : d # c => stage'[d] = stage[d]
    BY <1>3, ContinueLeavesOthers
  <2>2. seen'[c].version = VersionsOf(named) /\ \A d \in Clients : d # c => seen'[d] = seen[d]
    BY <1>3 DEF TypeOK, SessionOK, Reading
  <2>3. ReadingIsPast(c)'
    BY <1>1, <2>2 DEF ReadingIsPast, VersionsOf, TypeOK, BooksOK, Versions, books
  <2>4. ReadingOK(c)'
    BY <1>1, <2>1, <2>3 DEF ReadingOK, PaymentStillFits, RefundFitsLine, At
  <2> QED BY <1>1, <2>1, <2>2, <2>4, QuietStep
<1>4. CASE /\ \A o \in named : Gross(o) + req[c].amounts[o] <= Rent[o]
           /\ seen' = [seen EXCEPT ![c].total =
                         [o \in Obligations |-> IF o \in named THEN Gross(o) ELSE 0]]
           /\ Continue(c, "commit")
  <2>1. stage'[c] = "commit" /\ \A d \in Clients : d # c => stage'[d] = stage[d]
    BY <1>4, ContinueLeavesOthers
  <2>2. seen'[c].version = seen[c].version /\ \A d \in Clients : d # c => seen'[d] = seen[d]
    BY <1>4 DEF TypeOK, SessionOK, Reading
  <2>3. ReadingIsPast(c)'
    BY <1>1, <2>2 DEF SafetyInv, ReadingOK, ReadingIsPast, books
  <2>4. \A o \in Obligations : Gross(o)' = Gross(o)
    BY <1>1 DEF Gross, books
  <2>5. PaymentStillFits(c)'
    BY <1>1, <1>4, <2>4 DEF PaymentStillFits, Included
  <2>6. ReadingOK(c)'
    BY <1>1, <2>1, <2>3, <2>5 DEF ReadingOK, RefundFitsLine
  <2> QED BY <1>1, <2>1, <2>2, <2>6, QuietStep
<1> QED BY <1>2, <1>3, <1>4 DEF LoadPayment, CheckPayment

LEMMA RefundReadsSafe ==
  ASSUME TypeOK, TypeOK', SafetyInv, NEW c \in Clients,
         LoadRefund(c) \/ LoadRefundVersions(c) \/ LoadRefundTotals(c)
  PROVE  SafetyInv'
<1> DEFINE r == req[c]
<1> DEFINE named == Included(r.amounts)
<1>1. UNCHANGED <<books, item, req>> /\ r.op = "refund"
  BY DEF LoadRefund, LoadRefundVersions, LoadRefundTotals, At
<1>2. UNCHANGED <<version, payment, allocation>>
  BY <1>1 DEF books
<1>3. ASSUME seen' = [seen EXCEPT ![c].version = VersionsOf(named)]
      PROVE  ReadingIsPast(c)' /\ \A d \in Clients : d # c => seen'[d] = seen[d]
  <2>1. seen'[c].version = VersionsOf(named) /\ \A d \in Clients : d # c => seen'[d] = seen[d]
    BY <1>3 DEF TypeOK, SessionOK, Reading
  <2> QED BY <1>2, <2>1 DEF ReadingIsPast, VersionsOf, TypeOK, BooksOK, Versions
<1>4. ASSUME seen'[c].version = seen[c].version PROVE ReadingIsPast(c)'
  BY <1>2, <1>4 DEF SafetyInv, ReadingOK, ReadingIsPast
<1>5. CASE LoadRefund(c)
  <2>1. CASE \E kind : Reply(c, kind, NoValue)
    BY <1>1, <2>1, ReplyKnowsNothing, QuietStep
  <2>2. CASE /\ payment[r.target] > 0
             /\ \A o \in named :
                  RefundedOf(r.target, o) + r.amounts[o] <= allocation[r.target][o]
             /\ Continue(c, "versions") /\ UNCHANGED seen
    <3>1. stage'[c] = "versions" /\ \A d \in Clients : d # c => stage'[d] = stage[d]
      BY <2>2, ContinueLeavesOthers
    <3>2. r.target \in PaymentIds /\ r.amounts \in Amounts
      BY <1>1, <1>5, RequestShape DEF LoadRefund, At, TypeOK, SessionOK
    <3>3. \A o \in named : r.amounts[o] <= allocation[r.target][o]
      <4> TAKE o \in named
      <4>1. o \in Obligations
        BY DEF Included
      <4>2. /\ RefundedOf(r.target, o) \in Nat /\ r.amounts[o] \in Nat
            /\ allocation[r.target][o] \in Nat
        BY <3>2, <4>1, RefundedOfType DEF TypeOK, BooksOK, Amounts
      <4> QED BY <2>2, <4>2
    <3>4. RefundFitsLine(c)'
      BY <1>1, <1>2, <2>2, <3>3 DEF RefundFitsLine, Included
    <3>5. ReadingOK(c)'
      BY <1>1, <1>4, <2>2, <3>1, <3>4 DEF ReadingOK, PaymentStillFits, At
    <3> QED BY <1>1, <2>2, <3>1, <3>5, QuietStep
  <2> QED BY <1>5, <2>1, <2>2 DEF LoadRefund
<1>6. CASE LoadRefundVersions(c)
  <2>1. /\ stage[c] = "versions" /\ Continue(c, "totals")
        /\ seen' = [seen EXCEPT ![c].version = VersionsOf(named)]
    BY <1>6 DEF LoadRefundVersions, At
  <2>2. stage'[c] = "totals" /\ \A d \in Clients : d # c => stage'[d] = stage[d]
    BY <2>1, ContinueLeavesOthers
  <2>3. RefundFitsLine(c)'
    BY <1>1, <1>2, <2>1 DEF SafetyInv, ReadingOK, RefundFitsLine, Included
  <2>4. ReadingOK(c)'
    BY <1>1, <1>3, <2>1, <2>2, <2>3 DEF ReadingOK, PaymentStillFits, At
  <2> QED BY <1>1, <1>3, <2>1, <2>2, <2>4, QuietStep
<1>7. CASE LoadRefundTotals(c)
  <2> DEFINE total == [o \in Obligations |-> IF o \in named THEN Net(o) ELSE 0]
  <2>1. /\ stage[c] = "totals" /\ Continue(c, "commit")
        /\ seen' = [seen EXCEPT ![c].total = total]
    BY <1>7 DEF LoadRefundTotals, At
  <2> HIDE DEF total
  <2>2. stage'[c] = "commit" /\ \A d \in Clients : d # c => stage'[d] = stage[d]
    BY <2>1, ContinueLeavesOthers
  <2>3. seen'[c].version = seen[c].version /\ \A d \in Clients : d # c => seen'[d] = seen[d]
    BY <2>1 DEF TypeOK, SessionOK, Reading
  <2>4. RefundFitsLine(c)'
    BY <1>1, <1>2, <2>1, <2>3 DEF SafetyInv, ReadingOK, RefundFitsLine, Included
  <2>5. ReadingOK(c)'
    BY <1>1, <1>4, <2>2, <2>3, <2>4 DEF ReadingOK, PaymentStillFits, At
  <2> QED BY <1>1, <2>2, <2>3, <2>5, QuietStep
<1> QED BY <1>5, <1>6, <1>7

LEMMA OtherReadsSafe ==
  ASSUME TypeOK, TypeOK', SafetyInv, NEW c \in Clients,
         LoadItem(c) \/ Recover(c) \/ Abort(c)
  PROVE  SafetyInv'
<1>1. UNCHANGED <<books, item, req>>
  BY DEF LoadItem, Recover, Abort
<1>2. ASSUME NEW kind, NEW result, Reply(c, kind, result) PROVE SafetyInv'
  BY <1>1, <1>2, ReplyKnowsNothing, QuietStep
<1>3. CASE LoadItem(c)
  <2>1. CASE req[c].op = "resolve" /\ Continue(c, "commit") /\ UNCHANGED seen
    <3>1. stage'[c] = "commit" /\ \A d \in Clients : d # c => stage'[d] = stage[d]
      BY <2>1, ContinueLeavesOthers
    <3>2. ReadingIsPast(c)'
      BY <1>1, <2>1 DEF SafetyInv, ReadingOK, ReadingIsPast, books
    <3>3. ReadingOK(c)'
      BY <1>1, <2>1, <3>1, <3>2 DEF ReadingOK, PaymentStillFits, RefundFitsLine, At
    <3> QED BY <1>1, <2>1, <3>1, <3>3, QuietStep
  <2> QED BY <1>2, <1>3, <2>1 DEF LoadItem, At
<1>4. CASE Recover(c)
  BY <1>1, <1>2, <1>4, ReplaySafe DEF Recover
<1>5. CASE Abort(c)
  BY <1>2, <1>5 DEF Abort
<1> QED BY <1>3, <1>4, <1>5

(* A commit that fails writes nothing. *)
LEMMA FailedCommitSafe ==
  ASSUME TypeOK, TypeOK', SafetyInv, NEW c \in Clients, UNCHANGED <<books, item, req>>,
         \/ Reply(c, "concurrent", NoValue)
         \/ Continue(c, "recover") /\ UNCHANGED seen
  PROVE  SafetyInv'
<1>1. CASE Reply(c, "concurrent", NoValue)
  BY <1>1, ReplyKnowsNothing, QuietStep
<1>2. CASE Continue(c, "recover") /\ UNCHANGED seen
  <2>1. stage'[c] = "recover" /\ \A d \in Clients : d # c => stage'[d] = stage[d]
    BY <1>2, ContinueLeavesOthers
  <2>2. ReadingIsPast(c)'
    BY <1>2 DEF SafetyInv, ReadingOK, ReadingIsPast, books
  <2>3. ReadingOK(c)'
    BY <2>1, <2>2 DEF ReadingOK, PaymentStillFits, RefundFitsLine, At
  <2> QED BY <1>2, <2>1, <2>3, QuietStep
<1> QED BY <1>1, <1>2

-----------------------------------------------------------------------------
(* Steps that post. *)

(* The heart of optimistic locking: a posting that moves the version of every *)
(* obligation it changes, and never moves one back, leaves what the other     *)
(* requests know true.                                                        *)
LEMMA OthersStillRight ==
  ASSUME TypeOK, TypeOK', SafetyInv, NEW c \in Clients, UNCHANGED req,
         \A d \in Clients : d # c => stage'[d] = stage[d] /\ seen'[d] = seen[d],
         ReadingOK(c)',
         \A o \in Obligations :
           \/ version'[o] > version[o]
           \/ version'[o] = version[o] /\ Gross(o)' = Gross(o),
         \A p \in PaymentIds : payment[p] > 0 =>
           payment'[p] > 0 /\ allocation'[p] = allocation[p]
  PROVE  \A d \in Clients : ReadingOK(d)'
<1> SUFFICES ASSUME NEW d \in Clients, d # c PROVE ReadingOK(d)'
  OBVIOUS
<1>1. ReadingOK(d) /\ stage'[d] = stage[d] /\ seen'[d] = seen[d] /\ req'[d] = req[d]
  BY DEF SafetyInv
<1>2. \A o \in Obligations : /\ version[o] \in Nat /\ version'[o] \in Nat
                             /\ seen[d].version[o] \in Nat
  BY DEF TypeOK, BooksOK, SessionOK, Versions, Reading
<1>3. ReadingIsPast(d)'
  BY <1>1, <1>2 DEF ReadingOK, ReadingIsPast
<1>4. ASSUME NEW o \in Obligations, version'[o] = seen'[d].version[o]
      PROVE  version[o] = seen[d].version[o] /\ Gross(o)' = Gross(o)
  BY <1>1, <1>2, <1>4 DEF ReadingOK, ReadingIsPast
<1>5. PaymentStillFits(d)'
  BY <1>1, <1>4 DEF ReadingOK, PaymentStillFits, At, Included
<1>6. RefundFitsLine(d)'
  <2>1. SUFFICES ASSUME stage[d] \in {"versions", "totals", "commit"}, req[d].op = "refund"
                 PROVE  RefundFitsLine(d)'
    BY <1>1 DEF RefundFitsLine
  <2> DEFINE p == req[d].target
  <2>2. p \in PaymentIds
    BY <2>1, RequestShape DEF TypeOK, SessionOK
  <2>3. payment[p] > 0 /\ payment'[p] > 0 /\ allocation'[p] = allocation[p]
    BY <1>1, <2>1, <2>2 DEF ReadingOK, RefundFitsLine
  <2> QED BY <1>1, <2>1, <2>3 DEF ReadingOK, RefundFitsLine, Included
<1> QED BY <1>3, <1>5, <1>6 DEF ReadingOK

LEMMA CommitItemSafe ==
  ASSUME TypeOK, TypeOK', SafetyInv, NEW c \in Clients, CommitItem(c)
  PROVE  SafetyInv'
<1> DEFINE t == req[c].target
<1>1. UNCHANGED <<books, req>> /\ t \in Items
  BY RequestShape DEF CommitItem, At, TypeOK, SessionOK
<1>2. CASE Reply(c, "concurrent", NoValue) /\ UNCHANGED item
  BY <1>1, <1>2, FailedCommitSafe
<1>3. CASE /\ StillOpen(c) /\ Reply(c, "resolved", t)
           /\ \A i \in Items : i # t => item'[i] = item[i]
  <2>1. ReadingOK(c)' /\ \A d \in Clients : d # c => stage'[d] = stage[d] /\ seen'[d] = seen[d]
    BY <1>3, ReplyKnowsNothing
  <2>2. /\ \A o \in Obligations : Gross(o)' = Gross(o)
        /\ UNCHANGED <<status, version, payment, allocation, refundOf, refundAllocation>>
    BY <1>1 DEF books, Gross
  <2>3. \A d \in Clients : ReadingOK(d)'
    BY <1>1, <2>1, <2>2, OthersStillRight
  <2>4. item[t].status = "OPEN"
    BY <1>3 DEF StillOpen
  <2>5. UnusedIsEmpty' /\ AbsentIsNew'
    BY <1>3, <2>2, <2>4 DEF SafetyInv, UnusedIsEmpty, AbsentIsNew, Items
  <2>6. NoOverAllocation'
    BY <2>2 DEF SafetyInv, NoOverAllocation
  <2> QED BY <2>3, <2>5, <2>6 DEF SafetyInv
<1>4. (\E new : item' = [item EXCEPT ![t] = new]) => \A i \in Items : i # t => item'[i] = item[i]
  BY DEF TypeOK, QueueOK
<1> QED BY <1>2, <1>3, <1>4 DEF CommitItem

LEMMA CommitCreateSafe ==
  ASSUME TypeOK, TypeOK', SafetyInv, NEW c \in Clients, CommitCreate(c)
  PROVE  SafetyInv'
<1> DEFINE t == req[c].target
<1>1. /\ UNCHANGED <<payment, allocation, refundOf, refundAllocation, item, req>>
      /\ t \in Obligations
  BY RequestShape DEF CommitCreate, At, TypeOK, SessionOK
<1>2. CASE Continue(c, "recover") /\ UNCHANGED <<status, version, balance, idem, seen>>
  BY <1>1, <1>2, FailedCommitSafe DEF books
<1>3. CASE /\ status[t] = "ABSENT"
           /\ status' = [status EXCEPT ![t] = "OPEN"]
           /\ version' = [version EXCEPT ![t] = 1]
           /\ Reply(c, "created", t)
  <2>1. ReadingOK(c)' /\ \A d \in Clients : d # c => stage'[d] = stage[d] /\ seen'[d] = seen[d]
    BY <1>3, ReplyKnowsNothing
  <2>2. \A o \in Obligations : Gross(o)' = Gross(o)
    BY <1>1 DEF Gross
  <2>3. version[t] = 0 /\ \A o \in Obligations : version'[o] = IF o = t THEN 1 ELSE version[o]
    BY <1>1, <1>3 DEF SafetyInv, AbsentIsNew, TypeOK, BooksOK, Versions
  <2>4. \A d \in Clients : ReadingOK(d)'
    BY <1>1, <2>1, <2>2, <2>3, OthersStillRight
  <2>5. UnusedIsEmpty' /\ AbsentIsNew'
    BY <1>1, <1>3, <2>3 DEF SafetyInv, UnusedIsEmpty, AbsentIsNew, TypeOK, BooksOK
  <2>6. NoOverAllocation'
    BY <1>1, <2>2 DEF SafetyInv, NoOverAllocation
  <2> QED BY <2>4, <2>5, <2>6 DEF SafetyInv
<1> QED BY <1>2, <1>3 DEF CommitCreate

LEMMA CommitPaymentSafe ==
  ASSUME TypeOK, TypeOK', SafetyInv, NEW c \in Clients, CommitPayment(c)
  PROVE  SafetyInv'
<1> DEFINE r == req[c]
<1> DEFINE named == Included(r.amounts)
<1> DEFINE new == [o \in Obligations |-> PaidStatus(seen[c].total[o] + r.amounts[o], o)]
<1>1. /\ UNCHANGED req /\ At(c, "commit", "pay")
      /\ r.amounts \in Amounts /\ UnitSum(r.amounts) > 0
  <2>1. At(c, "commit", "pay") /\ UNCHANGED req
    BY DEF CommitPayment
  <2>2. r \in Requests /\ r.op = "pay"
    BY <2>1 DEF TypeOK, SessionOK, At
  <2> QED BY <2>1, <2>2, RequestShape, AmountsPositive
<1>2. CASE /\ UNCHANGED <<books, item>>
           /\ \/ Reply(c, "concurrent", NoValue)
              \/ Continue(c, "recover") /\ UNCHANGED seen
  BY <1>1, <1>2, FailedCommitSafe
<1>3. ASSUME NEW p \in PaymentIds,
             Unchanged(c), payment[p] = 0,
             payment' = [payment EXCEPT ![p] = UnitSum(r.amounts)],
             allocation' = [allocation EXCEPT ![p] = r.amounts],
             OpenItem(p), Reply(c, "created", p),
             status' = [o \in Obligations |-> IF o \in named THEN new[o] ELSE status[o]],
             Bump(named),
             UNCHANGED <<refundOf, refundAllocation>>
      PROVE  SafetyInv'
  <2>1. BooksOK /\ UnusedIsEmpty
    BY DEF TypeOK, SafetyInv
  <2>2. \A o \in Obligations : Gross(o)' = Gross(o) + r.amounts[o]
    BY <1>1, <1>3, <2>1, GrossGrows
  <2>3. \A o \in Obligations \ named : r.amounts[o] = 0
    BY <1>1 DEF Amounts, Included
  <2>4. \A o \in Obligations : Gross(o) \in Nat
    BY <2>1, TotalsType
  <2>6. \A q \in PaymentIds : q # p => payment'[q] = payment[q] /\ allocation'[q] = allocation[q]
    BY <1>3, <2>1 DEF BooksOK
  <2>7. \A o \in Obligations : version'[o] = IF o \in named THEN version[o] + 1 ELSE version[o]
    BY <1>3 DEF Bump
  <2>8. ReadingOK(c)' /\ \A d \in Clients : d # c => stage'[d] = stage[d] /\ seen'[d] = seen[d]
    BY <1>3, ReplyKnowsNothing
  <2>9. \A d \in Clients : ReadingOK(d)'
    <3>1. \A o \in Obligations : version[o] \in Nat
      BY <2>1 DEF BooksOK, Versions
    <3>2. \A o \in Obligations :
           \/ version'[o] > version[o]
           \/ version'[o] = version[o] /\ Gross(o)' = Gross(o)
      BY <2>2, <2>3, <2>4, <2>7, <3>1
    <3>3. \A q \in PaymentIds : payment[q] > 0 =>
            payment'[q] > 0 /\ allocation'[q] = allocation[q]
      BY <1>3, <2>6
    <3> QED BY <1>1, <2>8, <3>2, <3>3, OthersStillRight
  <2>10. NoOverAllocation'
    <3> SUFFICES ASSUME NEW o \in Obligations PROVE Gross(o)' <= Rent[o]
      BY DEF NoOverAllocation
    <3>1. CASE o \in named
      <4>1. version[o] = seen[c].version[o]
        BY <1>3, <3>1 DEF Unchanged
      <4>2. Gross(o) + r.amounts[o] <= Rent[o]
        BY <1>1, <3>1, <4>1 DEF SafetyInv, ReadingOK, PaymentStillFits
      <4> QED BY <2>2, <4>2
    <3>2. CASE o \notin named
      BY <2>2, <2>3, <2>4, <3>2 DEF SafetyInv, NoOverAllocation
    <3> QED BY <3>1, <3>2
  <2>12. UnusedIsEmpty'
    <3>1. payment'[p] > 0
      BY <1>1, <1>3, <2>1 DEF BooksOK
    <3>2. \A i \in Items : i # p => item'[i] = item[i]
      BY <1>3 DEF OpenItem, TypeOK, QueueOK
    <3> QED BY <1>3, <2>1, <2>6, <3>1, <3>2, SetsAssumption DEF UnusedIsEmpty, Items
  <2>13. AbsentIsNew'
    <3>1. \A o \in Obligations : new[o] # "ABSENT"
      BY DEF PaidStatus
    <3> HIDE DEF new, named
    <3> QED BY <1>3, <2>7, <3>1 DEF SafetyInv, AbsentIsNew
  <2> QED BY <2>9, <2>10, <2>12, <2>13 DEF SafetyInv
<1> QED BY <1>2, <1>3 DEF CommitPayment

LEMMA CommitRefundSafe ==
  ASSUME TypeOK, TypeOK', SafetyInv, NEW c \in Clients, CommitRefund(c)
  PROVE  SafetyInv'
<1> DEFINE r == req[c]
<1> DEFINE named == Included(r.amounts)
<1> DEFINE new == [o \in Obligations |-> NetStatus(seen[c].total[o] - r.amounts[o], o)]
<1>1. /\ UNCHANGED req /\ At(c, "commit", "refund")
      /\ r.amounts \in Amounts /\ r.target \in PaymentIds
  <2>1. At(c, "commit", "refund") /\ UNCHANGED req
    BY DEF CommitRefund
  <2>2. r \in Requests /\ r.op = "refund"
    BY <2>1 DEF TypeOK, SessionOK, At
  <2> QED BY <2>1, <2>2, RequestShape
<1> PICK target \in PaymentIds : target = r.target
  BY <1>1
<1>2. CASE /\ UNCHANGED <<books, item>>
           /\ \/ Reply(c, "concurrent", NoValue)
              \/ Continue(c, "recover") /\ UNCHANGED seen
  BY <1>1, <1>2, FailedCommitSafe
<1>3. ASSUME NEW f \in RefundIds,
             Unchanged(c), refundOf[f] = NoValue,
             refundOf' = [refundOf EXCEPT ![f] = target],
             refundAllocation' = [refundAllocation EXCEPT ![f] = r.amounts],
             OpenItem(f), Reply(c, "created", f),
             status' = [o \in Obligations |-> IF o \in named THEN new[o] ELSE status[o]],
             Bump(named),
             UNCHANGED <<payment, allocation>>
      PROVE  SafetyInv'
  <2>1. BooksOK /\ UnusedIsEmpty
    BY DEF TypeOK, SafetyInv
  <2>5. \A o \in Obligations : Gross(o)' = Gross(o)
    BY <1>3 DEF Gross
  <2>7. \A o \in Obligations : version'[o] = IF o \in named THEN version[o] + 1 ELSE version[o]
    BY <1>3 DEF Bump
  <2>8. ReadingOK(c)' /\ \A d \in Clients : d # c => stage'[d] = stage[d] /\ seen'[d] = seen[d]
    BY <1>3, ReplyKnowsNothing
  <2>9. \A d \in Clients : ReadingOK(d)'
    <3>1. \A o \in Obligations : version[o] \in Nat
      BY <2>1 DEF BooksOK, Versions
    <3>2. \A o \in Obligations :
           \/ version'[o] > version[o]
           \/ version'[o] = version[o] /\ Gross(o)' = Gross(o)
      BY <2>5, <2>7, <3>1
    <3> QED BY <1>1, <1>3, <2>8, <3>2, OthersStillRight
  <2>10. NoOverAllocation'
    BY <2>5 DEF SafetyInv, NoOverAllocation
  <2>12. UnusedIsEmpty'
    <3>1. refundOf'[f] # NoValue
      BY <1>1, <1>3, <2>1, SetsAssumption DEF BooksOK
    <3>2. \A i \in Items : i # f => item'[i] = item[i]
      BY <1>3 DEF OpenItem, TypeOK, QueueOK
    <3>3. \A g \in RefundIds : g # f =>
            refundOf'[g] = refundOf[g] /\ refundAllocation'[g] = refundAllocation[g]
      BY <1>3, <2>1 DEF BooksOK
    <3> QED BY <1>3, <2>1, <3>1, <3>2, <3>3, SetsAssumption DEF UnusedIsEmpty, Items
  <2>13. AbsentIsNew'
    <3>1. \A o \in Obligations : new[o] # "ABSENT"
      <4> TAKE o \in Obligations
      <4> DEFINE net == seen[c].total[o] - r.amounts[o]
      <4>1. net \in Int /\ Rent[o] \in Nat
        BY <1>1, RentAssumption DEF TypeOK, SessionOK, Reading, Amounts
      <4> HIDE DEF net
      <4>2. NetStatus(net, o) # "ABSENT"
        BY <4>1 DEF NetStatus
      <4> QED BY <4>2 DEF net
    <3> HIDE DEF new, named
    <3> QED BY <1>3, <2>7, <3>1 DEF SafetyInv, AbsentIsNew
  <2> QED BY <2>9, <2>10, <2>12, <2>13 DEF SafetyInv
<1> QED BY <1>2, <1>3 DEF CommitRefund

-----------------------------------------------------------------------------
LEMMA NextSafety == TypeOK /\ TypeOK' /\ SafetyInv /\ [Next]_vars => SafetyInv'
<1> SUFFICES ASSUME TypeOK, TypeOK', SafetyInv, [Next]_vars PROVE SafetyInv'
  OBVIOUS
<1>1. CASE UNCHANGED vars
  <2>1. /\ \A o \in Obligations : Gross(o)' = Gross(o)
        /\ UNCHANGED <<status, version, payment, allocation, refundOf, refundAllocation,
                       item, stage, req, seen>>
    BY <1>1 DEF vars, books, session, Gross
  <2>2. ASSUME NEW d \in Clients PROVE ReadingOK(d)'
    <3>1. ReadingIsPast(d)' /\ PaymentStillFits(d)'
      BY <2>1 DEF SafetyInv, ReadingOK, ReadingIsPast, PaymentStillFits, At, Included
    <3>2. RefundFitsLine(d)'
      BY <2>1 DEF SafetyInv, ReadingOK, RefundFitsLine, Included
    <3> QED BY <3>1, <3>2 DEF ReadingOK
  <2>3. UnusedIsEmpty' /\ AbsentIsNew'
    BY <2>1 DEF SafetyInv, UnusedIsEmpty, AbsentIsNew
  <2>4. NoOverAllocation'
    BY <2>1 DEF SafetyInv, NoOverAllocation
  <2> QED BY <2>2, <2>3, <2>4 DEF SafetyInv
<1>2. ASSUME NEW c \in Clients, \E r \in Requests : Begin(c, r) PROVE SafetyInv'
  BY <1>2, BeginSafe
<1>3. ASSUME NEW c \in Clients, Serve(c) PROVE SafetyInv'
  BY <1>3, PaymentReadsSafe, RefundReadsSafe, OtherReadsSafe, CommitCreateSafe,
     CommitPaymentSafe, CommitRefundSafe, CommitItemSafe DEF Serve
<1>4. ASSUME NEW c \in Clients, Abort(c) PROVE SafetyInv'
  BY <1>4, OtherReadsSafe
<1> QED BY <1>1, <1>2, <1>3, <1>4 DEF Next

(* What optimistic locking rests on is true of every reachable state: no      *)
(* request in service trusts a check that an unseen posting has falsified.    *)
THEOREM LockingIsSound == Spec => []SafetyInv
BY TypeCorrect, InitSafety, NextSafety, PTL DEF Spec

(* However payments race, retry and fail, recordPayment never allocates more  *)
(* to an obligation than its rent.                                            *)
THEOREM NeverOverAllocated == Spec => []NoOverAllocation
<1>1. SafetyInv => NoOverAllocation
  BY DEF SafetyInv
<1> QED BY <1>1, LockingIsSound, PTL

-----------------------------------------------------------------------------
(* What a step may never do. *)

(* The steps that write neither the books nor the queue. *)
LEMMA QuietNext ==
  ASSUME NEW c \in Clients,
         \/ \E r \in Requests : Begin(c, r)
         \/ LoadPayment(c) \/ CheckPayment(c)
         \/ LoadRefund(c) \/ LoadRefundVersions(c) \/ LoadRefundTotals(c)
         \/ LoadItem(c) \/ Recover(c) \/ Abort(c)
  PROVE  UNCHANGED <<books, item>>
BY DEF Begin, LoadPayment, CheckPayment, LoadRefund, LoadRefundVersions,
   LoadRefundTotals, LoadItem, Recover, Abort

LEMMA ItemsStayResolved ==
  ASSUME TypeOK, SafetyInv, [Next]_vars, NEW i \in Items, item[i].status = "RESOLVED"
  PROVE  item'[i] = item[i]
<1>1. CASE UNCHANGED item
  BY <1>1
<1>2. ASSUME NEW j \in Items, item[j].status # "RESOLVED", NEW new,
             item' = [item EXCEPT ![j] = new]
      PROVE  item'[i] = item[i]
  BY <1>2 DEF TypeOK, QueueOK
<1>3. ASSUME NEW j \in Items, item[j].status = "NONE", OpenItem(j)
      PROVE  item'[i] = item[i]
  BY <1>2, <1>3 DEF OpenItem
<1>4. ASSUME NEW c \in Clients, CommitPayment(c) PROVE item'[i] = item[i]
  <2>1. UNCHANGED item \/ \E p \in PaymentIds : payment[p] = 0 /\ OpenItem(p)
    BY <1>4 DEF CommitPayment
  <2>2. \A p \in PaymentIds : payment[p] = 0 => p \in Items /\ item[p].status = "NONE"
    BY DEF SafetyInv, UnusedIsEmpty, Items
  <2> QED BY <1>1, <1>3, <2>1, <2>2
<1>5. ASSUME NEW c \in Clients, CommitRefund(c) PROVE item'[i] = item[i]
  <2>1. UNCHANGED item \/ \E f \in RefundIds : refundOf[f] = NoValue /\ OpenItem(f)
    BY <1>5 DEF CommitRefund
  <2>2. \A f \in RefundIds : refundOf[f] = NoValue => f \in Items /\ item[f].status = "NONE"
    BY DEF SafetyInv, UnusedIsEmpty, Items
  <2> QED BY <1>1, <1>3, <2>1, <2>2
<1>6. ASSUME NEW c \in Clients, CommitItem(c) PROVE item'[i] = item[i]
  <2>1. req[c].target \in Items
    BY <1>6, RequestShape DEF CommitItem, At, TypeOK, SessionOK
  <2>2. StillOpen(c) => item[req[c].target].status # "RESOLVED"
    BY DEF StillOpen
  <2> QED BY <1>1, <1>2, <1>6, <2>1, <2>2 DEF CommitItem
<1>7. ASSUME NEW c \in Clients, CommitCreate(c) PROVE item'[i] = item[i]
  BY <1>7 DEF CommitCreate
<1>8. CASE UNCHANGED vars
  BY <1>8 DEF vars
<1> QED BY <1>1, <1>4, <1>5, <1>6, <1>7, <1>8, QuietNext DEF Next, Serve

(* Of the requests that read an item as open, one resolves it: the conditional *)
(* update of resolveReconciliation finds no row for the others.                *)
THEOREM ItemsAreResolvedOnce == Spec => ResolutionIsFinal
<1>1. TypeOK /\ SafetyInv /\ [Next]_vars =>
        [\A i \in Items : item[i].status = "RESOLVED" => item[i]' = item[i]]_vars
  BY ItemsStayResolved
<1> QED BY <1>1, TypeCorrect, LockingIsSound, PTL DEF Spec, ResolutionIsFinal

LEMMA PostingMovesVersions ==
  ASSUME TypeOK, SafetyInv, [Next]_vars, NEW o \in Obligations
  PROVE  \/ status'[o] # status[o] \/ Gross(o)' # Gross(o) \/ Refunded(o)' # Refunded(o)
         => version'[o] = version[o] + 1
<1> DEFINE Moves ==
      \/ status'[o] # status[o] \/ Gross(o)' # Gross(o) \/ Refunded(o)' # Refunded(o)
      => version'[o] = version[o] + 1
<1>1. CASE UNCHANGED books
  BY <1>1 DEF books, Gross, Refunded
<1>2. ASSUME NEW c \in Clients, CommitCreate(c) PROVE Moves
  <2> DEFINE t == req[c].target
  <2>1. Gross(o)' = Gross(o) /\ Refunded(o)' = Refunded(o)
    BY <1>2 DEF CommitCreate, Gross, Refunded
  <2>2. \/ UNCHANGED <<status, version>>
        \/ /\ status[t] = "ABSENT"
           /\ status' = [status EXCEPT ![t] = "OPEN"]
           /\ version' = [version EXCEPT ![t] = 1]
    BY <1>2 DEF CommitCreate
  <2>3. t \in Obligations
    BY <1>2, RequestShape DEF CommitCreate, At, TypeOK, SessionOK
  <2>4. status[t] = "ABSENT" => version[t] = 0
    BY <2>3 DEF SafetyInv, AbsentIsNew
  <2> QED BY <2>1, <2>2, <2>3, <2>4 DEF TypeOK, BooksOK, Versions
<1>3. ASSUME NEW c \in Clients, CommitPayment(c) PROVE Moves
  <2> DEFINE r == req[c]
  <2> DEFINE named == Included(r.amounts)
  <2> DEFINE new == [x \in Obligations |-> PaidStatus(seen[c].total[x] + r.amounts[x], x)]
  <2>1. r.amounts \in Amounts
    BY <1>3, RequestShape DEF CommitPayment, At, TypeOK, SessionOK
  <2>2. ASSUME NEW p \in PaymentIds, payment[p] = 0,
               allocation' = [allocation EXCEPT ![p] = r.amounts],
               status' = [x \in Obligations |-> IF x \in named THEN new[x] ELSE status[x]],
               Bump(named), UNCHANGED <<refundOf, refundAllocation>>
        PROVE  Moves
    <3>1. Gross(o)' = Gross(o) + r.amounts[o] /\ Gross(o) \in Nat
      BY <2>1, <2>2, GrossGrows, TotalsType DEF TypeOK, SafetyInv
    <3>2. o \notin named => r.amounts[o] = 0
      BY <2>1 DEF Amounts, Included
    <3>3. Refunded(o)' = Refunded(o)
      BY <2>2 DEF Refunded
    <3>4. version'[o] = IF o \in named THEN version[o] + 1 ELSE version[o]
      BY <2>2 DEF Bump
    <3> HIDE DEF new, named
    <3> QED BY <2>2, <3>1, <3>2, <3>3, <3>4
  <2> QED BY <1>1, <1>3, <2>2 DEF CommitPayment
<1>4. ASSUME NEW c \in Clients, CommitRefund(c) PROVE Moves
  <2> DEFINE r == req[c]
  <2> DEFINE named == Included(r.amounts)
  <2> DEFINE new == [x \in Obligations |-> NetStatus(seen[c].total[x] - r.amounts[x], x)]
  <2>1. r.amounts \in Amounts /\ r.target \in PaymentIds
    BY <1>4, RequestShape DEF CommitRefund, At, TypeOK, SessionOK
  <2> PICK target \in PaymentIds : target = r.target
    BY <2>1
  <2>2. ASSUME NEW f \in RefundIds, refundOf[f] = NoValue,
               refundOf' = [refundOf EXCEPT ![f] = target],
               refundAllocation' = [refundAllocation EXCEPT ![f] = r.amounts],
               status' = [x \in Obligations |-> IF x \in named THEN new[x] ELSE status[x]],
               Bump(named), UNCHANGED <<payment, allocation>>
        PROVE  Moves
    <3>1. Refunded(o)' = Refunded(o) + r.amounts[o] /\ Refunded(o) \in Nat
      BY <2>1, <2>2, RefundedGrows, TotalsType DEF TypeOK, SafetyInv
    <3>2. o \notin named => r.amounts[o] = 0
      BY <2>1 DEF Amounts, Included
    <3>3. Gross(o)' = Gross(o)
      BY <2>2 DEF Gross
    <3>4. version'[o] = IF o \in named THEN version[o] + 1 ELSE version[o]
      BY <2>2 DEF Bump
    <3> HIDE DEF new, named
    <3> QED BY <2>2, <3>1, <3>2, <3>3, <3>4
  <2> QED BY <1>1, <1>4, <2>2 DEF CommitRefund
<1>5. ASSUME NEW c \in Clients, CommitItem(c) PROVE UNCHANGED books
  BY <1>5 DEF CommitItem
<1>6. CASE UNCHANGED vars
  BY <1>1, <1>6 DEF vars
<1> QED BY <1>1, <1>2, <1>3, <1>4, <1>5, <1>6, QuietNext DEF Next, Serve

(* Whatever a reader derives from an obligation's rows, its status, what was  *)
(* allocated and what was refunded, changes only with its version, so the     *)
(* conditional update of a reader that lost the race finds no row.            *)
THEOREM PostingsMoveVersions == Spec => ChangesMoveVersion
<1>1. TypeOK /\ SafetyInv /\ [Next]_vars =>
        [\A o \in Obligations :
           \/ status[o]' # status[o] \/ Gross(o)' # Gross(o) \/ Refunded(o)' # Refunded(o)
           => version[o]' = version[o] + 1]_vars
  BY PostingMovesVersions
<1> QED BY <1>1, TypeCorrect, LockingIsSound, PTL DEF Spec, ChangesMoveVersion

=============================================================================
