------------------------ MODULE LeaseLifecycleProofs ------------------------
(***************************************************************************)
(* Theorems about LeaseLifecycle, for any tenants, units, leases, members, *)
(* keys, requests and number of handlers.                                  *)
(***************************************************************************)
EXTENDS LeaseLifecycle, FiniteSetTheorems, TLAPS

(* What each kind of request carries. *)
LEMMA RequestShape ==
  ASSUME NEW q \in LeasingRequests
  PROVE  /\ q \in LeasingRequest
         /\ q.op \in Steps \cup {"createTenant", "createLease", "charge", "acceptInvitation"}
         /\ q.op \in Steps \cup {"charge"} => q.target \in Leases
         /\ q.op \in {"createTenant", "acceptInvitation"} => q.target \in Tenants
         /\ q.op = "createTenant" => q.send \in BOOLEAN
         /\ q.op = "createLease" => q.unit \in Units /\ q.tenant \in Tenants
BY LeasingAssumption DEF LeasingRequest, Steps

-----------------------------------------------------------------------------
(* What the invariants rest on. *)

(* A lease that was created has its unit and tenant, and its version counts   *)
(* the steps it took.                                                         *)
Ended == {"ACTIVE", "TERMINATED"}
RowOK(row) ==
  /\ row.status = "NONE" => row = NoLease
  /\ row.status # "NONE" => row.unit \in Units /\ row.tenant \in Tenants
  /\ row.renewed => row.status \in Ended
  /\ row.status = "DRAFT" => row.version = 1
  /\ row.status = "READY_FOR_ACTIVATION" => row.version = 2
  /\ row.status = "ACTIVE" => row.version = IF row.renewed THEN 4 ELSE 3
  /\ row.status = "TERMINATED" => row.version = IF row.renewed THEN 5 ELSE 4
RowsOK == \A l \in Leases : RowOK(lease[l])

(* An invitation was sent to a tenant who is still to accept it, or it was    *)
(* accepted, with a token that was delivered.                                 *)
TenancyOK ==
  \A t \in Tenants :
    /\ invitation[t] = "none" => tenant[t] \in {"NONE", "PROSPECT"}
    /\ invitation[t] \in {"pending", "expired"} => tenant[t] = "INVITED"
    /\ invitation[t] = "accepted" => tenant[t] = "ACTIVE" /\ t \in mailbox

(* What a request in service has read or checked and is still true: a lease   *)
(* keeps its unit and its tenant, a tenant who is active remains so, and a    *)
(* lease that was active is active or terminated.                             *)
RequestOK(h) ==
  LET q == call[h].req
      stage == call[h].stage
  IN /\ stage # "idle" => q \in LeasingRequests
     /\ stage = "check" => q.op \in Steps
     /\ stage \in {"check", "commit"} /\ q.op \in Steps =>
          /\ lease[q.target].status # "NONE"
          /\ call[h].seen.unit = lease[q.target].unit
          /\ call[h].seen.tenant = lease[q.target].tenant
     /\ stage = "commit" /\ q.op = "validate" => tenant[call[h].seen.tenant] = "ACTIVE"
     /\ stage = "commit" /\ q.op = "acceptInvitation" => q.target \in mailbox
     /\ stage = "commit" /\ q.op = "charge" => lease[q.target].status \in Ended
ServiceOK == \A h \in Handlers : RequestOK(h)

(* Only leases that held their unit were charged. *)
ChargesOK == \A l \in charged : lease[l].status \in Ended

(* A set with one member. *)
Sole(S) == \E e \in S : S = {e}

(* OccupiedMeansLeased without counting. *)
UnitsOK ==
  \A u \in Units : IF unit[u] = "OCCUPIED" THEN Sole(ActiveLeases(u)) ELSE ActiveLeases(u) = {}

(* A lease beyond its draft has a tenant who accepted. *)
WillingOK ==
  \A l \in Leases : lease[l].status \notin {"NONE", "DRAFT"} => tenant[lease[l].tenant] = "ACTIVE"

(* StepsRecordedOnce without counting the records of one step. *)
RecordsOf(l) == {e \in record : e.made = l}
StepRecords(l, op) == {e \in record : e.req.op = op /\ e.made = l}
HistoryOK ==
  \A l \in Leases :
    /\ \A op \in Steps \cup {"createLease"} :
         IF Reached(l, op) THEN Sole(StepRecords(l, op)) ELSE StepRecords(l, op) = {}
    /\ IsFiniteSet(RecordsOf(l)) /\ Cardinality(RecordsOf(l)) = lease[l].version

LeaseInv == /\ LeaseTypeOK /\ RowsOK /\ TenancyOK /\ ServiceOK /\ ChargesOK
            /\ UnitsOK /\ WillingOK /\ HistoryOK

-----------------------------------------------------------------------------
CallRow == [stage : {"idle", "check", "commit", "mail"},
            req : LeasingRequests \cup {NoValue}, seen : LeaseRow]

(* The row of a lease that does not exist, and of a handler at rest. *)
LEMMA IdleRow == NoLease \in LeaseRow /\ Idle \in CallRow
BY DEF NoLease, LeaseRow, LeaseStatus, Idle, CallRow

(* What no transaction takes back: a created lease keeps its unit and its     *)
(* tenant, a lease that was active has held its unit, a tenant who accepted   *)
(* remains active, a delivered token is known.                                *)
Kept ==
  /\ \A l \in Leases : lease[l].status # "NONE" =>
       /\ lease'[l].status # "NONE"
       /\ lease'[l].unit = lease[l].unit /\ lease'[l].tenant = lease[l].tenant
       /\ lease[l].status \in Ended => lease'[l].status \in Ended
  /\ \A t \in Tenants : tenant[t] = "ACTIVE" => tenant'[t] = "ACTIVE"
  /\ mailbox \subseteq mailbox'

(* What the other requests in service know survives a step of one of them. *)
LEMMA OthersKnow ==
  ASSUME LeaseTypeOK, RowsOK, ServiceOK, Kept,
         NEW h \in Handlers, NEW c \in CallRow, call' = [call EXCEPT ![h] = c],
         RequestOK(h)'
  PROVE  ServiceOK'
<1> SUFFICES ASSUME NEW g \in Handlers, g # h PROVE RequestOK(g)'
  BY DEF ServiceOK
<1>1. call'[g] = call[g]
  BY DEF LeaseTypeOK
<1>2. RequestOK(g)
  BY DEF ServiceOK
<1>3. CASE call[g].stage = "idle"
  BY <1>1, <1>3 DEF RequestOK
<1>4. CASE call[g].stage # "idle"
  <2>1. call[g].req \in LeasingRequests
    BY <1>2, <1>4 DEF RequestOK
  <2>2. /\ call[g].req.op \in Steps \cup {"charge"} => call[g].req.target \in Leases
        /\ call[g].req.op = "validate" => call[g].req.op \in Steps
    BY <2>1, RequestShape DEF Steps
  <2>3. ASSUME call[g].req.op \in Steps, call[g].stage \in {"check", "commit"}
        PROVE  /\ lease'[call[g].req.target].status # "NONE"
               /\ call[g].seen.unit = lease'[call[g].req.target].unit
               /\ call[g].seen.tenant = lease'[call[g].req.target].tenant
               /\ call[g].seen.tenant \in Tenants
    BY <1>2, <2>2, <2>3 DEF RequestOK, Kept, RowsOK, RowOK
  <2>4. ASSUME call[g].stage = "commit", call[g].req.op = "validate"
        PROVE  tenant'[call[g].seen.tenant] = "ACTIVE"
    BY <1>2, <2>2, <2>3, <2>4 DEF RequestOK, Kept
  <2>5. ASSUME call[g].stage = "commit", call[g].req.op = "charge"
        PROVE  lease'[call[g].req.target].status \in Ended
    BY <1>2, <2>2, <2>5 DEF RequestOK, Kept, Ended
  <2> QED
    BY <1>1, <1>2, <2>1, <2>3, <2>4, <2>5 DEF RequestOK, Kept
<1> QED
  BY <1>3, <1>4

(* A step that writes no table preserves whatever only the tables decide. *)
LEMMA TablesAlone ==
  ASSUME LeaseInv, UNCHANGED <<tenancies, unit, lease, record, charged>>,
         NEW h \in Handlers, NEW c \in CallRow, call' = [call EXCEPT ![h] = c],
         RequestOK(h)'
  PROVE  LeaseInv'
<1>1. Kept
  BY DEF Kept, tenancies
<1>2. ServiceOK'
  BY <1>1, OthersKnow DEF LeaseInv
<1>3. LeaseTypeOK'
  BY DEF LeaseInv, LeaseTypeOK, tenancies, CallRow
<1>4. RowsOK' /\ TenancyOK' /\ ChargesOK' /\ WillingOK' /\ UnitsOK'
  BY DEF LeaseInv, RowsOK, TenancyOK, ChargesOK, WillingOK, UnitsOK, ActiveLeases, tenancies
<1>5. HistoryOK'
  BY DEF LeaseInv, HistoryOK, RecordsOf, StepRecords, Reached, tenancies
<1> QED
  BY <1>2, <1>3, <1>4, <1>5 DEF LeaseInv

(* A handler at rest knows nothing. *)
LEMMA RestKnowsNothing ==
  ASSUME NEW h \in Handlers, call' = [call EXCEPT ![h] = Idle], LeaseTypeOK
  PROVE  RequestOK(h)'
<1>1. call'[h].stage = "idle"
  BY DEF LeaseTypeOK, Idle
<1> QED
  BY <1>1 DEF RequestOK

-----------------------------------------------------------------------------
(* Beginning, checking and leaving write no table. *)
LEMMA QuietSteps ==
  ASSUME LeaseInv, NEW h \in Handlers,
         (\E q \in LeasingRequests : Begin(h, q)) \/ Leave(h) \/ CheckStep(h)
  PROVE  LeaseInv'
<1> USE DEF LeaseInv
<1>1. ASSUME NEW q \in LeasingRequests, NEW stage \in {"check", "commit"},
             NEW seen \in LeaseRow, Serve(h, q, stage, seen),
             stage = "check" => q.op \in Steps,
             q.op \in Steps => /\ lease[q.target].status # "NONE" /\ stage = "check"
                               /\ seen = lease[q.target],
             q.op = "acceptInvitation" => q.target \in mailbox,
             q.op = "charge" => lease[q.target].status \in Ended
      PROVE  LeaseInv'
  <2> DEFINE c == [stage |-> stage, req |-> q, seen |-> seen]
  <2>1. c \in CallRow /\ call' = [call EXCEPT ![h] = c]
    BY <1>1 DEF Serve, CallRow
  <2>2. UNCHANGED <<tenancies, unit, lease, record, charged>>
    BY <1>1 DEF Serve
  <2>3. call'[h] = c
    BY <2>1 DEF LeaseTypeOK
  <2>4. RequestOK(h)'
    BY <1>1, <2>2, <2>3 DEF RequestOK, tenancies, Steps
  <2> QED
    BY <2>1, <2>2, <2>4, TablesAlone
<1>2. ASSUME NEW q \in LeasingRequests, Begin(h, q) PROVE LeaseInv'
  <2>1. CASE BeginTenant(h, q)
    BY <2>1, <1>1, IdleRow DEF BeginTenant, Steps
  <2>2. CASE BeginAcceptance(h, q)
    BY <2>2, <1>1, IdleRow DEF BeginAcceptance, Steps
  <2>3. CASE BeginLease(h, q)
    BY <2>3, <1>1, IdleRow DEF BeginLease, Steps
  <2>4. CASE BeginStep(h, q)
    <3>1. q.op \in Steps /\ lease[q.target].status # "NONE" /\ Serve(h, q, "check", lease[q.target])
      BY <2>4 DEF BeginStep
    <3>2. lease[q.target] \in LeaseRow
      BY <3>1, RequestShape DEF LeaseTypeOK
    <3> QED
      BY <3>1, <3>2, <1>1 DEF Steps
  <2>5. CASE BeginCharge(h, q)
    BY <2>5, <1>1, IdleRow DEF BeginCharge, Steps, Ended
  <2> QED
    BY <1>2, <2>1, <2>2, <2>3, <2>4, <2>5 DEF Begin
<1>3. ASSUME Leave(h) PROVE LeaseInv'
  BY <1>3, IdleRow, RestKnowsNothing, TablesAlone DEF Leave, Done
<1>4. ASSUME CheckStep(h) PROVE LeaseInv'
  <2> DEFINE c == [call[h] EXCEPT !.stage = "commit"]
  <2>1. /\ call[h].stage = "check" /\ call' = [call EXCEPT ![h] = c]
        /\ UNCHANGED <<tenancies, unit, lease, record, charged>>
        /\ call[h].req.op = "validate" => tenant[call[h].seen.tenant] = "ACTIVE"
    BY <1>4 DEF CheckStep, Fit
  <2>2. c \in CallRow /\ call'[h] = c
    BY <2>1 DEF LeaseTypeOK, CallRow
  <2>3. c.stage = "commit" /\ c.req = call[h].req /\ c.seen = call[h].seen
    BY DEF LeaseTypeOK
  <2>4. RequestOK(h)
    BY DEF ServiceOK
  <2>5. RequestOK(h)'
    BY <2>1, <2>2, <2>3, <2>4 DEF RequestOK, tenancies, Steps
  <2> QED
    BY <2>1, <2>2, <2>5, TablesAlone
<1> QED
  BY <1>2, <1>3, <1>4
-----------------------------------------------------------------------------
(* A step that leaves the records and the leases alone leaves the histories. *)
LEMMA HistoryStands ==
  ASSUME HistoryOK, UNCHANGED lease,
         \A l \in Leases : RecordsOf(l)' = RecordsOf(l)
  PROVE  HistoryOK'
<1>1. ASSUME NEW l \in Leases, NEW op PROVE StepRecords(l, op)' = StepRecords(l, op)
  <2>1. StepRecords(l, op) = {e \in RecordsOf(l) : e.req.op = op}
    BY DEF StepRecords, RecordsOf
  <2>2. StepRecords(l, op)' = {e \in RecordsOf(l)' : e.req.op = op}
    BY DEF StepRecords, RecordsOf
  <2> QED
    BY <2>1, <2>2
<1> QED
  BY <1>1 DEF HistoryOK, Reached

(* The commit of a step of a lease adds the one record of that step and       *)
(* counts it in the version: the record is new, because the step was not      *)
(* reached and so had no record of any key.                                   *)
LEMMA HistoryGrows ==
  ASSUME LeaseTypeOK, HistoryOK, NEW l \in Leases, NEW q \in LeasingRequests,
         q.op \in Steps \cup {"createLease"}, Record(q, l),
         ~Reached(l, q.op), Reached(l, q.op)',
         \A op \in Steps \cup {"createLease"} : op # q.op => (Reached(l, op)' <=> Reached(l, op)),
         lease'[l].version = lease[l].version + 1,
         \A m \in Leases : m # l => lease'[m] = lease[m]
  PROVE  HistoryOK'
<1> DEFINE e == [req |-> q, made |-> l]
<1>1. record' = record \cup {e} /\ e.req = q /\ e.made = l
  BY DEF Record
<1>2. e \notin record
  BY <1>1 DEF HistoryOK, StepRecords
<1>3. ASSUME NEW m \in Leases, m # l
      PROVE  /\ \A op \in Steps \cup {"createLease"} :
                  IF Reached(m, op)' THEN Sole(StepRecords(m, op)') ELSE StepRecords(m, op)' = {}
             /\ IsFiniteSet(RecordsOf(m)') /\ Cardinality(RecordsOf(m)') = lease'[m].version
  <2>1. RecordsOf(m)' = RecordsOf(m)
    BY <1>1, <1>3 DEF RecordsOf
  <2>2. \A op : StepRecords(m, op)' = StepRecords(m, op)
    BY <1>1, <1>3 DEF StepRecords
  <2>3. \A op : Reached(m, op)' <=> Reached(m, op)
    BY <1>3 DEF Reached
  <2> QED
    BY <1>3, <2>1, <2>2, <2>3 DEF HistoryOK
<1>4. RecordsOf(l)' = RecordsOf(l) \cup {e} /\ e \notin RecordsOf(l)
  BY <1>1, <1>2 DEF RecordsOf
<1>5. IsFiniteSet(RecordsOf(l)') /\ Cardinality(RecordsOf(l)') = lease'[l].version
  <2>1. IsFiniteSet(RecordsOf(l)) /\ Cardinality(RecordsOf(l)) = lease[l].version
    BY DEF HistoryOK
  <2>2. /\ IsFiniteSet(RecordsOf(l) \cup {e})
        /\ Cardinality(RecordsOf(l) \cup {e}) = Cardinality(RecordsOf(l)) + 1
    BY <1>4, <2>1, FS_AddElement
  <2> QED
    BY <1>4, <2>1, <2>2
<1>6. ASSUME NEW op \in Steps \cup {"createLease"}
      PROVE  IF Reached(l, op)' THEN Sole(StepRecords(l, op)') ELSE StepRecords(l, op)' = {}
  <2>1. CASE op = q.op
    <3>1. StepRecords(l, op) = {}
      BY <2>1 DEF HistoryOK
    <3>2. StepRecords(l, op)' = {e}
      BY <1>1, <2>1, <3>1 DEF StepRecords
    <3> QED
      BY <2>1, <3>2 DEF Sole
  <2>2. CASE op # q.op
    <3>1. StepRecords(l, op)' = StepRecords(l, op)
      BY <1>1, <2>2 DEF StepRecords
    <3> QED
      BY <2>2, <3>1 DEF HistoryOK
  <2> QED
    BY <2>1, <2>2
<1> QED
  BY <1>3, <1>5, <1>6 DEF HistoryOK

(* Writing a row of a lease together with the record of its step preserves    *)
(* everything but the agreement between units and leases.                     *)
LEMMA RowWritten ==
  ASSUME LeaseInv, NEW h \in Handlers, NEW l \in Leases, NEW r \in LeaseRow,
         NEW q \in LeasingRequests, q.op \in Steps \cup {"createLease"},
         lease' = [lease EXCEPT ![l] = r], Record(q, l), call' = [call EXCEPT ![h] = Idle],
         unit' \in [Units -> {"AVAILABLE", "OCCUPIED"}], UNCHANGED <<tenancies, charged>>,
         RowOK(r), r.status # "NONE", r.version = lease[l].version + 1,
         lease[l].status # "NONE" => r.unit = lease[l].unit /\ r.tenant = lease[l].tenant,
         lease[l].status \in Ended => r.status \in Ended,
         r.status # "DRAFT" => tenant[r.tenant] = "ACTIVE",
         ~Reached(l, q.op), Reached(l, q.op)',
         \A op \in Steps \cup {"createLease"} : op # q.op => (Reached(l, op)' <=> Reached(l, op))
  PROVE  LeaseTypeOK' /\ RowsOK' /\ TenancyOK' /\ ServiceOK' /\ ChargesOK' /\ WillingOK' /\ HistoryOK'
<1> USE DEF LeaseInv
<1>1. lease'[l] = r /\ \A m \in Leases : m # l => lease'[m] = lease[m]
  BY DEF LeaseTypeOK
<1>2. LeaseTypeOK'
  <2>1. record' \subseteq [req : LeasingRequests, made : Tenants \cup Leases]
    BY DEF LeaseTypeOK, Record
  <2>2. call' \in [Handlers -> CallRow]
    BY IdleRow DEF LeaseTypeOK, CallRow
  <2>3. lease' \in [Leases -> LeaseRow]
    BY DEF LeaseTypeOK
  <2> QED
    BY <2>1, <2>2, <2>3 DEF LeaseTypeOK, tenancies, CallRow
<1>3. RowsOK' /\ TenancyOK' /\ ChargesOK' /\ WillingOK'
  BY <1>1 DEF LeaseTypeOK, RowsOK, TenancyOK, ChargesOK, WillingOK, tenancies, Ended
<1>4. Kept
  BY <1>1 DEF Kept, tenancies
<1>5. ServiceOK'
  BY <1>4, OthersKnow, IdleRow, RestKnowsNothing
<1>6. HistoryOK'
  BY <1>1, HistoryGrows
<1> QED
  BY <1>2, <1>3, <1>5, <1>6

(* Units are undisturbed by a step that keeps their marks and the set of      *)
(* active leases of each.                                                     *)
LEMMA UnitsStand ==
  ASSUME UnitsOK, UNCHANGED unit, \A u \in Units : ActiveLeases(u)' = ActiveLeases(u)
  PROVE  UnitsOK'
BY DEF UnitsOK

-----------------------------------------------------------------------------
(* The commits of tenants and their invitations. *)
LEMMA TenantSteps ==
  ASSUME LeaseInv, NEW h \in Handlers, CommitTenant(h) \/ SendMail(h) \/ CommitAcceptance(h)
  PROVE  LeaseInv'
<1> USE DEF LeaseInv
<1> DEFINE q == call[h].req
<1>1. RequestOK(h)
  BY DEF ServiceOK
<1>2. ASSUME UNCHANGED <<unit, lease, charged>>, NEW c \in CallRow,
             call' = [call EXCEPT ![h] = c], RequestOK(h)', LeaseTypeOK', TenancyOK',
             \A t \in Tenants : tenant[t] = "ACTIVE" => tenant'[t] = "ACTIVE",
             mailbox \subseteq mailbox', \A l \in Leases : RecordsOf(l)' = RecordsOf(l)
      PROVE  LeaseInv'
  <2>1. Kept
    BY <1>2 DEF Kept
  <2>2. ServiceOK'
    BY <1>2, <2>1, OthersKnow
  <2>3. RowsOK' /\ ChargesOK' /\ UnitsOK'
    BY <1>2 DEF RowsOK, ChargesOK, UnitsOK, ActiveLeases
  <2>4. WillingOK'
    BY <1>2 DEF WillingOK, RowsOK, RowOK
  <2>5. HistoryOK'
    BY <1>2, HistoryStands
  <2> QED
    BY <1>2, <2>2, <2>3, <2>4, <2>5
<1>3. CASE CommitTenant(h)
  <2>1. q \in LeasingRequests /\ q.op = "createTenant" /\ q.target \in Tenants /\ q.send \in BOOLEAN
    BY <1>1, <1>3, RequestShape DEF CommitTenant, Serving, RequestOK
  <2> DEFINE c == IF q.send THEN [stage |-> "mail", req |-> q, seen |-> call[h].seen] ELSE Idle
  <2>2. call' = [call EXCEPT ![h] = c] /\ c \in CallRow /\ call'[h] = c
    <3>1. call[h] \in CallRow
      BY DEF LeaseTypeOK, CallRow
    <3>2. call' = [call EXCEPT ![h] = IF q.send THEN [call[h] EXCEPT !.stage = "mail"] ELSE Idle]
      BY <1>3 DEF CommitTenant
    <3>3. [call[h] EXCEPT !.stage = "mail"] = [stage |-> "mail", req |-> q, seen |-> call[h].seen]
      BY <3>1 DEF CallRow
    <3>4. call' = [call EXCEPT ![h] = c]
      BY <3>2, <3>3
    <3>5. c \in CallRow
      BY <2>1, <3>1, IdleRow DEF CallRow
    <3> QED
      BY <3>4, <3>5 DEF LeaseTypeOK
  <2>3. RequestOK(h)'
    BY <2>1, <2>2 DEF RequestOK, Idle
  <2>4. tenant[q.target] = "NONE" /\ record' = record \cup {[req |-> q, made |-> q.target]}
    BY <1>3 DEF CommitTenant, Record
  <2>5. LeaseTypeOK'
    <3>1. tenant' \in [Tenants -> {"NONE", "PROSPECT", "INVITED", "ACTIVE"}]
      BY <1>3, <2>1 DEF CommitTenant, LeaseTypeOK
    <3>2. invitation' \in [Tenants -> {"none", "pending", "expired", "accepted"}]
      BY <1>3, <2>1 DEF CommitTenant, LeaseTypeOK
    <3>3. record' \subseteq [req : LeasingRequests, made : Tenants \cup Leases]
      BY <2>1, <2>4 DEF LeaseTypeOK
    <3> QED
      BY <1>3, <2>2, <3>1, <3>2, <3>3 DEF CommitTenant, LeaseTypeOK, CallRow
  <2>6. TenancyOK'
    BY <1>3, <2>1, <2>4 DEF CommitTenant, TenancyOK, LeaseTypeOK
  <2>7. \A t \in Tenants : tenant[t] = "ACTIVE" => tenant'[t] = "ACTIVE"
    BY <1>3, <2>1, <2>4 DEF CommitTenant, LeaseTypeOK
  <2>8. \A l \in Leases : RecordsOf(l)' = RecordsOf(l)
    BY <2>1, <2>4, LeasingAssumption DEF RecordsOf
  <2> QED
    BY <1>3, <1>2, <2>2, <2>3, <2>5, <2>6, <2>7, <2>8 DEF CommitTenant
<1>4. CASE SendMail(h)
  <2>1. q \in LeasingRequests /\ q.target \in Tenants
    BY <1>1, <1>4, RequestShape DEF SendMail, Serving, RequestOK
  <2>2. call' = [call EXCEPT ![h] = Idle] /\ RequestOK(h)'
    BY <1>4, RestKnowsNothing DEF SendMail, Done
  <2>3. LeaseTypeOK'
    BY <1>4, <2>1, <2>2, IdleRow DEF SendMail, LeaseTypeOK, CallRow
  <2>4. TenancyOK' /\ \A l \in Leases : RecordsOf(l)' = RecordsOf(l)
    BY <1>4 DEF SendMail, TenancyOK, RecordsOf
  <2> QED
    BY <1>4, <1>2, <2>2, <2>3, <2>4, IdleRow DEF SendMail
<1>5. CASE CommitAcceptance(h)
  <2>1. q \in LeasingRequests /\ q.target \in mailbox /\ q.target \in Tenants
    BY <1>1, <1>5, RequestShape DEF CommitAcceptance, Serving, RequestOK
  <2>2. call' = [call EXCEPT ![h] = Idle] /\ RequestOK(h)'
    BY <1>5, RestKnowsNothing DEF CommitAcceptance, Done
  <2>3. tenant[q.target] = "INVITED"
    BY <1>5, <2>1 DEF CommitAcceptance, TenancyOK
  <2>4. /\ tenant' = [tenant EXCEPT ![q.target] = "ACTIVE"]
        /\ invitation' = [invitation EXCEPT ![q.target] = "accepted"]
        /\ UNCHANGED <<mailbox, unit, lease, record, charged>>
    BY <1>5, <2>3 DEF CommitAcceptance
  <2>5. LeaseTypeOK'
    BY <2>1, <2>2, <2>4, IdleRow DEF LeaseTypeOK, CallRow
  <2>6. TenancyOK' /\ \A t \in Tenants : tenant[t] = "ACTIVE" => tenant'[t] = "ACTIVE"
    BY <2>1, <2>4 DEF TenancyOK, LeaseTypeOK
  <2>7. \A l \in Leases : RecordsOf(l)' = RecordsOf(l)
    BY <2>4 DEF RecordsOf
  <2> QED
    BY <1>2, <2>2, <2>4, <2>5, <2>6, <2>7, IdleRow
<1> QED
  BY <1>3, <1>4, <1>5

(* An invitation that expires leaves its tenant invited. *)
LEMMA ExpiryStep ==
  ASSUME LeaseInv, NEW t \in Tenants, ExpireInvitation(t)
  PROVE  LeaseInv'
<1> USE DEF LeaseInv
<1>1. LeaseTypeOK' /\ TenancyOK'
  BY DEF ExpireInvitation, LeaseTypeOK, TenancyOK
<1>2. RowsOK' /\ ChargesOK' /\ UnitsOK' /\ WillingOK'
  BY DEF ExpireInvitation, RowsOK, ChargesOK, UnitsOK, WillingOK, ActiveLeases
<1>3. ServiceOK'
  BY DEF ExpireInvitation, ServiceOK, RequestOK
<1>4. HistoryOK'
  <2>1. \A l \in Leases : RecordsOf(l)' = RecordsOf(l)
    BY DEF ExpireInvitation, RecordsOf
  <2> QED
    BY <2>1, HistoryStands DEF ExpireInvitation
<1> QED
  BY <1>1, <1>2, <1>3, <1>4

-----------------------------------------------------------------------------
(* The commits of leases. *)

(* The row an advance writes, whether it changes the status or the marker. *)
LEMMA StatusRow ==
  ASSUME NEW row \in LeaseRow, NEW s, NEW v
  PROVE  [[row EXCEPT !.status = s] EXCEPT !.version = v] =
           [status |-> s, version |-> v, renewed |-> row.renewed,
            unit |-> row.unit, tenant |-> row.tenant]
<1> DEFINE x == [row EXCEPT !.status = s]
<1>1. x = [status |-> s, version |-> row.version, renewed |-> row.renewed,
           unit |-> row.unit, tenant |-> row.tenant]
  BY DEF LeaseRow
<1> HIDE DEF x
<1>2. [x EXCEPT !.version = v] =
        [status |-> s, version |-> v, renewed |-> row.renewed,
         unit |-> row.unit, tenant |-> row.tenant]
  BY <1>1
<1> QED
  BY <1>2 DEF x

LEMMA MarkedRow ==
  ASSUME NEW row \in LeaseRow, NEW b, NEW v
  PROVE  [[row EXCEPT !.renewed = b] EXCEPT !.version = v] =
           [status |-> row.status, version |-> v, renewed |-> b,
            unit |-> row.unit, tenant |-> row.tenant]
<1> DEFINE y == [row EXCEPT !.renewed = b]
<1>1. y = [status |-> row.status, version |-> row.version, renewed |-> b,
           unit |-> row.unit, tenant |-> row.tenant]
  BY DEF LeaseRow
<1> HIDE DEF y
<1>2. [y EXCEPT !.version = v] =
        [status |-> row.status, version |-> v, renewed |-> b,
         unit |-> row.unit, tenant |-> row.tenant]
  BY <1>1
<1> QED
  BY <1>2 DEF y

(* What an advance writes. *)
LEMMA Advances ==
  ASSUME NEW h \in Handlers, NEW next, Advance(h, next), NEW r,
         [next EXCEPT !.version = lease[call[h].req.target].version + 1] = r
  PROVE  /\ lease' = [lease EXCEPT ![call[h].req.target] = r]
         /\ Record(call[h].req, call[h].req.target) /\ call' = [call EXCEPT ![h] = Idle]
BY DEF Advance, Done

LEMMA LeaseCommit ==
  ASSUME LeaseInv, NEW h \in Handlers, CommitLease(h)
  PROVE  LeaseInv'
<1> USE DEF LeaseInv
<1> DEFINE q == call[h].req
<1>1. q \in LeasingRequests /\ q.op = "createLease" /\ q.unit \in Units /\ q.tenant \in Tenants
  <2>1. RequestOK(h)
    BY DEF ServiceOK
  <2> QED
    BY <2>1, RequestShape DEF CommitLease, Serving, RequestOK
<1> DEFINE r == [status |-> "DRAFT", version |-> 1, renewed |-> FALSE,
                 unit |-> q.unit, tenant |-> q.tenant]
<1>2. PICK l \in Leases : lease[l] = NoLease /\ lease' = [lease EXCEPT ![l] = r] /\ Record(q, l)
  BY DEF CommitLease
<1>3. /\ UNCHANGED <<tenancies, unit, charged>> /\ call' = [call EXCEPT ![h] = Idle]
  BY DEF CommitLease, Done
<1>4. r \in LeaseRow /\ RowOK(r)
  BY <1>1 DEF LeaseRow, LeaseStatus, RowOK, Ended, NoLease
<1>5. lease'[l] = r /\ \A m \in Leases : m # l => lease'[m] = lease[m]
  BY <1>2 DEF LeaseTypeOK
<1>6. LeaseTypeOK' /\ RowsOK' /\ TenancyOK' /\ ServiceOK' /\ ChargesOK' /\ WillingOK' /\ HistoryOK'
  <2>1. /\ ~Reached(l, "createLease") /\ Reached(l, "createLease")'
        /\ \A op \in Steps : Reached(l, op)' <=> Reached(l, op)
    BY <1>2, <1>5 DEF Reached, Steps, NoLease
  <2>2. /\ r.version = lease[l].version + 1 /\ lease[l].status = "NONE"
        /\ r.status = "DRAFT" /\ lease[l].status \notin Ended
    BY <1>2 DEF NoLease, Ended
  <2>3. unit' \in [Units -> {"AVAILABLE", "OCCUPIED"}]
    BY <1>3 DEF LeaseTypeOK
  <2> QED
    BY <1>1, <1>2, <1>3, <1>4, <2>1, <2>2, <2>3, RowWritten
<1>7. UnitsOK'
  <2>1. \A u \in Units : ActiveLeases(u)' = ActiveLeases(u)
    BY <1>2, <1>5 DEF ActiveLeases, NoLease
  <2> QED
    BY <1>3, <2>1, UnitsStand
<1> QED
  BY <1>6, <1>7

(* What the four steps of a lease have in common: the request is of a lease   *)
(* that exists, whose unit and tenant it has read.                            *)
LEMMA StepTarget ==
  ASSUME LeaseInv, NEW h \in Handlers, call[h].stage = "commit", call[h].req.op \in Steps
  PROVE  LET l == call[h].req.target IN
         /\ call[h].req \in LeasingRequests /\ l \in Leases
         /\ lease[l] \in LeaseRow /\ RowOK(lease[l]) /\ lease[l].status # "NONE"
         /\ call[h].seen.unit = lease[l].unit /\ call[h].seen.tenant = lease[l].tenant
         /\ lease[l].unit \in Units /\ lease[l].tenant \in Tenants
<1>1. RequestOK(h)
  BY DEF LeaseInv, ServiceOK
<1>2. call[h].req \in LeasingRequests
  BY <1>1 DEF RequestOK
<1>3. call[h].req.target \in Leases
  BY <1>2, RequestShape
<1> QED
  BY <1>1, <1>2, <1>3 DEF RequestOK, LeaseInv, LeaseTypeOK, RowsOK, RowOK

(* The commit of a validation, an activation or a termination. *)
LEMMA StatusCommit ==
  ASSUME LeaseInv, NEW h \in Handlers, NEW s, Become(h, s),
         call[h].stage = "commit", call[h].req.op \in Steps
  PROVE  \E q \in LeasingRequests, l \in Leases :
           /\ q = call[h].req /\ l = q.target
           /\ lease[l] \in LeaseRow /\ RowOK(lease[l]) /\ lease[l].status # "NONE"
           /\ lease[l].unit \in Units /\ lease[l].tenant \in Tenants
           /\ call[h].seen.unit = lease[l].unit /\ call[h].seen.tenant = lease[l].tenant
           /\ lease' = [lease EXCEPT ![l] =
                [status |-> s, version |-> lease[l].version + 1, renewed |-> lease[l].renewed,
                 unit |-> lease[l].unit, tenant |-> lease[l].tenant]]
           /\ Record(q, l) /\ call' = [call EXCEPT ![h] = Idle]
<1>1. PICK q \in LeasingRequests, l \in Leases : q = call[h].req /\ l = q.target
  BY StepTarget
<1>2. /\ lease[l] \in LeaseRow /\ RowOK(lease[l]) /\ lease[l].status # "NONE"
      /\ lease[l].unit \in Units /\ lease[l].tenant \in Tenants
      /\ call[h].seen.unit = lease[l].unit /\ call[h].seen.tenant = lease[l].tenant
  BY <1>1, StepTarget
<1> DEFINE r == [status |-> s, version |-> lease[l].version + 1, renewed |-> lease[l].renewed,
                unit |-> lease[l].unit, tenant |-> lease[l].tenant]
           next == [lease[l] EXCEPT !.status = s]
<1>3. Advance(h, next)
  BY <1>1 DEF Become
<1>4. [next EXCEPT !.version = lease[l].version + 1] = r
  <2>1. lease[l] \in LeaseRow
    BY <1>2
  <2> QED
    BY <2>1, StatusRow
<1>5. lease' = [lease EXCEPT ![l] = r] /\ Record(q, l) /\ call' = [call EXCEPT ![h] = Idle]
  <2> HIDE DEF next, r
  <2> QED
    BY <1>1, <1>3, <1>4, Advances
<1> QED
  BY <1>1, <1>2, <1>5

(* The commit of a renewal marker. *)
LEMMA MarkerCommit ==
  ASSUME LeaseInv, NEW h \in Handlers,
         Advance(h, [lease[call[h].req.target] EXCEPT !.renewed = TRUE]),
         call[h].stage = "commit", call[h].req.op \in Steps
  PROVE  \E q \in LeasingRequests, l \in Leases :
           /\ q = call[h].req /\ l = q.target
           /\ lease[l] \in LeaseRow /\ RowOK(lease[l]) /\ lease[l].status # "NONE"
           /\ lease[l].unit \in Units /\ lease[l].tenant \in Tenants
           /\ call[h].seen.unit = lease[l].unit /\ call[h].seen.tenant = lease[l].tenant
           /\ lease' = [lease EXCEPT ![l] =
                [status |-> lease[l].status, version |-> lease[l].version + 1, renewed |-> TRUE,
                 unit |-> lease[l].unit, tenant |-> lease[l].tenant]]
           /\ Record(q, l) /\ call' = [call EXCEPT ![h] = Idle]
<1>1. PICK q \in LeasingRequests, l \in Leases : q = call[h].req /\ l = q.target
  BY StepTarget
<1>2. /\ lease[l] \in LeaseRow /\ RowOK(lease[l]) /\ lease[l].status # "NONE"
      /\ lease[l].unit \in Units /\ lease[l].tenant \in Tenants
      /\ call[h].seen.unit = lease[l].unit /\ call[h].seen.tenant = lease[l].tenant
  BY <1>1, StepTarget
<1> DEFINE r == [status |-> lease[l].status, version |-> lease[l].version + 1, renewed |-> TRUE,
                unit |-> lease[l].unit, tenant |-> lease[l].tenant]
           next == [lease[l] EXCEPT !.renewed = TRUE]
<1>3. Advance(h, next)
  BY <1>1
<1>4. [next EXCEPT !.version = lease[l].version + 1] = r
  <2>1. lease[l] \in LeaseRow
    BY <1>2
  <2> QED
    BY <2>1, MarkedRow
<1>5. lease' = [lease EXCEPT ![l] = r] /\ Record(q, l) /\ call' = [call EXCEPT ![h] = Idle]
  <2> HIDE DEF next, r
  <2> QED
    BY <1>1, <1>3, <1>4, Advances
<1> QED
  BY <1>1, <1>2, <1>5

LEMMA ValidateCommit ==
  ASSUME LeaseInv, NEW h \in Handlers, CommitValidate(h)
  PROVE  LeaseInv'
<1> USE DEF LeaseInv
<1>1. call[h].req.op = "validate" /\ call[h].stage = "commit" /\ call[h].req.op \in Steps
  BY DEF CommitValidate, Serving, Steps
<1>0. PICK q \in LeasingRequests, l \in Leases :
        /\ q = call[h].req /\ l = q.target
        /\ lease[l] \in LeaseRow /\ RowOK(lease[l])
        /\ lease[l].unit \in Units /\ lease[l].tenant \in Tenants
        /\ call[h].seen.unit = lease[l].unit /\ call[h].seen.tenant = lease[l].tenant
        /\ lease' = [lease EXCEPT ![l] =
             [status |-> "READY_FOR_ACTIVATION", version |-> lease[l].version + 1, renewed |-> lease[l].renewed,
              unit |-> lease[l].unit, tenant |-> lease[l].tenant]]
        /\ Record(q, l) /\ call' = [call EXCEPT ![h] = Idle]
  BY <1>1, StatusCommit DEF CommitValidate
<1> DEFINE r == [status |-> "READY_FOR_ACTIVATION", version |-> lease[l].version + 1,
                renewed |-> lease[l].renewed, unit |-> lease[l].unit, tenant |-> lease[l].tenant]
<1>2. /\ lease[l] \in LeaseRow /\ RowOK(lease[l])
      /\ lease[l].unit \in Units /\ lease[l].tenant \in Tenants
      /\ call[h].seen.unit = lease[l].unit /\ call[h].seen.tenant = lease[l].tenant
  BY <1>0
<1>3. lease[l].status = "DRAFT"
  BY <1>0 DEF CommitValidate, StillAt
<1>4. /\ lease' = [lease EXCEPT ![l] = r] /\ Record(q, l) /\ call' = [call EXCEPT ![h] = Idle]
      /\ UNCHANGED <<tenancies, unit, charged>>
  BY <1>0 DEF CommitValidate
<1>5. r \in LeaseRow /\ RowOK(r)
  BY <1>2, <1>3 DEF LeaseRow, LeaseStatus, RowOK, Ended
<1>6. lease'[l] = r /\ \A m \in Leases : m # l => lease'[m] = lease[m]
  BY <1>2, <1>4 DEF LeaseTypeOK
<1>7. tenant[lease[l].tenant] = "ACTIVE"
  BY <1>0, <1>1, <1>2 DEF ServiceOK, RequestOK
<1>8. LeaseTypeOK' /\ RowsOK' /\ TenancyOK' /\ ServiceOK' /\ ChargesOK' /\ WillingOK' /\ HistoryOK'
  <2>1. /\ ~Reached(l, "validate") /\ Reached(l, "validate")'
        /\ \A op \in Steps \cup {"createLease"} : op # "validate" => (Reached(l, op)' <=> Reached(l, op))
    BY <1>3, <1>6 DEF Reached, Steps
  <2>2. unit' \in [Units -> {"AVAILABLE", "OCCUPIED"}]
    BY <1>4 DEF LeaseTypeOK
  <2>3. /\ r.status # "NONE" /\ r.version = lease[l].version + 1
        /\ r.unit = lease[l].unit /\ r.tenant = lease[l].tenant
        /\ lease[l].status \in Ended => r.status \in Ended
        /\ r.status # "DRAFT" => tenant[r.tenant] = "ACTIVE"
    BY <1>3, <1>7 DEF Ended
  <2>4. q.op = "validate" /\ q.op \in Steps \cup {"createLease"}
    BY <1>0, <1>1
  <2> HIDE DEF r, LeaseInv
  <2> QED
    BY <1>4, <1>5, <2>1, <2>2, <2>3, <2>4, RowWritten
<1>9. UnitsOK'
  <2>1. \A u \in Units : ActiveLeases(u)' = ActiveLeases(u)
    BY <1>3, <1>6 DEF ActiveLeases
  <2> QED
    BY <1>4, <2>1, UnitsStand
<1> QED
  BY <1>8, <1>9

LEMMA RenewalCommit ==
  ASSUME LeaseInv, NEW h \in Handlers, CommitRenewal(h)
  PROVE  LeaseInv'
<1> USE DEF LeaseInv
<1>1. call[h].req.op = "renewal-marker" /\ call[h].stage = "commit" /\ call[h].req.op \in Steps
  BY DEF CommitRenewal, Serving, Steps
<1>0. PICK q \in LeasingRequests, l \in Leases :
        /\ q = call[h].req /\ l = q.target
        /\ lease[l] \in LeaseRow /\ RowOK(lease[l])
        /\ lease[l].unit \in Units /\ lease[l].tenant \in Tenants
        /\ lease' = [lease EXCEPT ![l] =
             [status |-> lease[l].status, version |-> lease[l].version + 1, renewed |-> TRUE,
              unit |-> lease[l].unit, tenant |-> lease[l].tenant]]
        /\ Record(q, l) /\ call' = [call EXCEPT ![h] = Idle]
  BY <1>1, MarkerCommit DEF CommitRenewal
<1> DEFINE r == [status |-> lease[l].status, version |-> lease[l].version + 1,
                renewed |-> TRUE, unit |-> lease[l].unit, tenant |-> lease[l].tenant]
<1>2. /\ lease[l] \in LeaseRow /\ RowOK(lease[l])
      /\ lease[l].unit \in Units /\ lease[l].tenant \in Tenants
  BY <1>0
<1>3. lease[l].status = "ACTIVE" /\ lease[l].renewed = FALSE
  BY <1>0, <1>2 DEF CommitRenewal, StillAt, LeaseRow
<1>4. /\ lease' = [lease EXCEPT ![l] = r] /\ Record(q, l) /\ call' = [call EXCEPT ![h] = Idle]
      /\ UNCHANGED <<tenancies, unit, charged>>
  BY <1>0 DEF CommitRenewal
<1>5. r \in LeaseRow /\ RowOK(r)
  BY <1>2, <1>3 DEF LeaseRow, LeaseStatus, RowOK, Ended
<1>6. lease'[l] = r /\ \A m \in Leases : m # l => lease'[m] = lease[m]
  BY <1>2, <1>4 DEF LeaseTypeOK
<1>7. tenant[lease[l].tenant] = "ACTIVE"
  BY <1>2, <1>3 DEF WillingOK
<1>8. LeaseTypeOK' /\ RowsOK' /\ TenancyOK' /\ ServiceOK' /\ ChargesOK' /\ WillingOK' /\ HistoryOK'
  <2>1. /\ ~Reached(l, "renewal-marker") /\ Reached(l, "renewal-marker")'
        /\ \A op \in Steps \cup {"createLease"} :
             op # "renewal-marker" => (Reached(l, op)' <=> Reached(l, op))
    BY <1>3, <1>6 DEF Reached, Steps
  <2>2. unit' \in [Units -> {"AVAILABLE", "OCCUPIED"}]
    BY <1>4 DEF LeaseTypeOK
  <2>3. /\ r.status # "NONE" /\ r.version = lease[l].version + 1
        /\ r.unit = lease[l].unit /\ r.tenant = lease[l].tenant
        /\ lease[l].status \in Ended => r.status \in Ended
        /\ r.status # "DRAFT" => tenant[r.tenant] = "ACTIVE"
    BY <1>3, <1>7 DEF Ended
  <2>4. q.op = "renewal-marker" /\ q.op \in Steps \cup {"createLease"}
    BY <1>0, <1>1
  <2> HIDE DEF r, LeaseInv
  <2> QED
    BY <1>4, <1>5, <2>1, <2>2, <2>3, <2>4, RowWritten
<1>9. UnitsOK'
  <2>1. \A u \in Units : ActiveLeases(u)' = ActiveLeases(u)
    BY <1>3, <1>6 DEF ActiveLeases
  <2> QED
    BY <1>4, <2>1, UnitsStand
<1> QED
  BY <1>8, <1>9

(* The activation makes its lease the only active one of a unit that had none. *)
LEMMA ActivateCommit ==
  ASSUME LeaseInv, NEW h \in Handlers, CommitActivate(h)
  PROVE  LeaseInv'
<1> USE DEF LeaseInv
<1>1. call[h].req.op = "activate" /\ call[h].stage = "commit" /\ call[h].req.op \in Steps
  BY DEF CommitActivate, Serving, Steps
<1>0. PICK q \in LeasingRequests, l \in Leases :
        /\ q = call[h].req /\ l = q.target
        /\ lease[l] \in LeaseRow /\ RowOK(lease[l])
        /\ lease[l].unit \in Units /\ lease[l].tenant \in Tenants
        /\ call[h].seen.unit = lease[l].unit /\ call[h].seen.tenant = lease[l].tenant
        /\ lease' = [lease EXCEPT ![l] =
             [status |-> "ACTIVE", version |-> lease[l].version + 1, renewed |-> lease[l].renewed,
              unit |-> lease[l].unit, tenant |-> lease[l].tenant]]
        /\ Record(q, l) /\ call' = [call EXCEPT ![h] = Idle]
  BY <1>1, StatusCommit DEF CommitActivate
<1> DEFINE r == [status |-> "ACTIVE", version |-> lease[l].version + 1,
                renewed |-> lease[l].renewed, unit |-> lease[l].unit, tenant |-> lease[l].tenant]
<1>2. /\ lease[l] \in LeaseRow /\ RowOK(lease[l])
      /\ lease[l].unit \in Units /\ lease[l].tenant \in Tenants
      /\ call[h].seen.unit = lease[l].unit /\ call[h].seen.tenant = lease[l].tenant
  BY <1>0
<1>3. lease[l].status = "READY_FOR_ACTIVATION"
  BY <1>0 DEF CommitActivate, StillAt
<1>4. /\ lease' = [lease EXCEPT ![l] = r] /\ Record(q, l) /\ call' = [call EXCEPT ![h] = Idle]
      /\ UNCHANGED <<tenancies, charged>>
  BY <1>0 DEF CommitActivate
<1>5. r \in LeaseRow /\ RowOK(r)
  BY <1>2, <1>3 DEF LeaseRow, LeaseStatus, RowOK, Ended
<1>6. lease'[l] = r /\ \A m \in Leases : m # l => lease'[m] = lease[m]
  BY <1>2, <1>4 DEF LeaseTypeOK
<1>7. tenant[lease[l].tenant] = "ACTIVE"
  BY <1>2, <1>3 DEF WillingOK
<1>8. /\ ActiveLeases(lease[l].unit) = {} /\ unit' = [unit EXCEPT ![lease[l].unit] = "OCCUPIED"]
  BY <1>0 DEF CommitActivate
<1>9. LeaseTypeOK' /\ RowsOK' /\ TenancyOK' /\ ServiceOK' /\ ChargesOK' /\ WillingOK' /\ HistoryOK'
  <2>1. /\ ~Reached(l, "activate") /\ Reached(l, "activate")'
        /\ \A op \in Steps \cup {"createLease"} : op # "activate" => (Reached(l, op)' <=> Reached(l, op))
    BY <1>3, <1>6 DEF Reached, Steps
  <2>2. unit' \in [Units -> {"AVAILABLE", "OCCUPIED"}]
    BY <1>8 DEF LeaseTypeOK
  <2>3. /\ r.status # "NONE" /\ r.version = lease[l].version + 1
        /\ r.unit = lease[l].unit /\ r.tenant = lease[l].tenant
        /\ lease[l].status \in Ended => r.status \in Ended
        /\ r.status # "DRAFT" => tenant[r.tenant] = "ACTIVE"
    BY <1>3, <1>7 DEF Ended
  <2>4. q.op = "activate" /\ q.op \in Steps \cup {"createLease"}
    BY <1>0, <1>1
  <2> HIDE DEF r, LeaseInv
  <2> QED
    BY <1>4, <1>5, <2>1, <2>2, <2>3, <2>4, RowWritten
<1>10. UnitsOK'
  <2> DEFINE u == lease[l].unit
  <2>1. \A w \in Units : w # u => ActiveLeases(w)' = ActiveLeases(w) /\ unit'[w] = unit[w]
    BY <1>2, <1>6, <1>8 DEF ActiveLeases, LeaseTypeOK
  <2>2. ActiveLeases(u) \cup {l} = {m \in Leases : lease'[m].unit = u /\ lease'[m].status = "ACTIVE"}
    BY <1>2, <1>6 DEF ActiveLeases
  <2>3. unit'[u] = "OCCUPIED"
    BY <1>2, <1>8 DEF LeaseTypeOK
  <2>4. PICK v \in Units : v = u
    BY <1>2
  <2>5. ActiveLeases(v)' = {l}
    BY <1>8, <2>2, <2>4 DEF ActiveLeases
  <2>6. \A w \in Units : w # v => ActiveLeases(w)' = ActiveLeases(w) /\ unit'[w] = unit[w]
    BY <2>1, <2>4
  <2> QED
    BY <2>3, <2>4, <2>5, <2>6 DEF UnitsOK, Sole
<1> QED
  BY <1>9, <1>10

(* The termination empties the unit: its lease is the only active one there,   *)
(* although the unit is released before the lease is tested.                   *)
LEMMA TerminateCommit ==
  ASSUME LeaseInv, NEW h \in Handlers, CommitTerminate(h)
  PROVE  LeaseInv'
<1> USE DEF LeaseInv
<1>1. call[h].req.op = "terminate" /\ call[h].stage = "commit" /\ call[h].req.op \in Steps
  BY DEF CommitTerminate, Serving, Steps
<1>0. PICK q \in LeasingRequests, l \in Leases :
        /\ q = call[h].req /\ l = q.target
        /\ lease[l] \in LeaseRow /\ RowOK(lease[l])
        /\ lease[l].unit \in Units /\ lease[l].tenant \in Tenants
        /\ call[h].seen.unit = lease[l].unit /\ call[h].seen.tenant = lease[l].tenant
        /\ lease' = [lease EXCEPT ![l] =
             [status |-> "TERMINATED", version |-> lease[l].version + 1, renewed |-> lease[l].renewed,
              unit |-> lease[l].unit, tenant |-> lease[l].tenant]]
        /\ Record(q, l) /\ call' = [call EXCEPT ![h] = Idle]
  BY <1>1, StatusCommit DEF CommitTerminate
<1> DEFINE r == [status |-> "TERMINATED", version |-> lease[l].version + 1,
                renewed |-> lease[l].renewed, unit |-> lease[l].unit, tenant |-> lease[l].tenant]
<1>2. /\ lease[l] \in LeaseRow /\ RowOK(lease[l])
      /\ lease[l].unit \in Units /\ lease[l].tenant \in Tenants
      /\ call[h].seen.unit = lease[l].unit /\ call[h].seen.tenant = lease[l].tenant
  BY <1>0
<1>3. lease[l].status = "ACTIVE"
  BY <1>0 DEF CommitTerminate, StillAt
<1>4. /\ lease' = [lease EXCEPT ![l] = r] /\ Record(q, l) /\ call' = [call EXCEPT ![h] = Idle]
      /\ UNCHANGED <<tenancies, charged>>
  BY <1>0 DEF CommitTerminate
<1>5. r \in LeaseRow /\ RowOK(r)
  BY <1>2, <1>3 DEF LeaseRow, LeaseStatus, RowOK, Ended
<1>6. lease'[l] = r /\ \A m \in Leases : m # l => lease'[m] = lease[m]
  BY <1>2, <1>4 DEF LeaseTypeOK
<1>7. tenant[lease[l].tenant] = "ACTIVE"
  BY <1>2, <1>3 DEF WillingOK
<1>8. unit[lease[l].unit] = "OCCUPIED" /\ unit' = [unit EXCEPT ![lease[l].unit] = "AVAILABLE"]
  BY <1>0 DEF CommitTerminate
<1>9. LeaseTypeOK' /\ RowsOK' /\ TenancyOK' /\ ServiceOK' /\ ChargesOK' /\ WillingOK' /\ HistoryOK'
  <2>1. /\ ~Reached(l, "terminate") /\ Reached(l, "terminate")'
        /\ \A op \in Steps \cup {"createLease"} : op # "terminate" => (Reached(l, op)' <=> Reached(l, op))
    BY <1>3, <1>6 DEF Reached, Steps
  <2>2. unit' \in [Units -> {"AVAILABLE", "OCCUPIED"}]
    BY <1>8 DEF LeaseTypeOK
  <2>3. /\ r.status # "NONE" /\ r.version = lease[l].version + 1
        /\ r.unit = lease[l].unit /\ r.tenant = lease[l].tenant
        /\ lease[l].status \in Ended => r.status \in Ended
        /\ r.status # "DRAFT" => tenant[r.tenant] = "ACTIVE"
    BY <1>3, <1>7 DEF Ended
  <2>4. q.op = "terminate" /\ q.op \in Steps \cup {"createLease"}
    BY <1>0, <1>1
  <2> HIDE DEF r, LeaseInv
  <2> QED
    BY <1>4, <1>5, <2>1, <2>2, <2>3, <2>4, RowWritten
<1>10. UnitsOK'
  <2> DEFINE u == lease[l].unit
  <2>1. \A w \in Units : w # u => ActiveLeases(w)' = ActiveLeases(w) /\ unit'[w] = unit[w]
    BY <1>2, <1>6, <1>8 DEF ActiveLeases, LeaseTypeOK
  <2>2. ActiveLeases(u) \ {l} = {m \in Leases : lease'[m].unit = u /\ lease'[m].status = "ACTIVE"}
    BY <1>2, <1>6 DEF ActiveLeases
  <2>3. unit'[u] = "AVAILABLE"
    BY <1>2, <1>8 DEF LeaseTypeOK
  <2>4. PICK v \in Units : v = u
    BY <1>2
  <2>5. ActiveLeases(u) = {l}
    BY <1>2, <1>3, <1>8 DEF UnitsOK, Sole, ActiveLeases
  <2>6. ActiveLeases(v)' = {}
    BY <2>2, <2>4, <2>5 DEF ActiveLeases
  <2>7. \A w \in Units : w # v => ActiveLeases(w)' = ActiveLeases(w) /\ unit'[w] = unit[w]
    BY <2>1, <2>4
  <2> QED
    BY <2>3, <2>4, <2>6, <2>7 DEF UnitsOK
<1> QED
  BY <1>9, <1>10

(* A charge is committed for a lease that was active when it was read, and     *)
(* so has held its unit.                                                      *)
LEMMA ChargeCommit ==
  ASSUME LeaseInv, NEW h \in Handlers, CommitCharge(h)
  PROVE  LeaseInv'
<1> USE DEF LeaseInv
<1>0. PICK q \in LeasingRequests, l \in Leases :
        q = call[h].req /\ l = q.target /\ lease[l].status \in Ended
  <2>1. RequestOK(h)
    BY DEF ServiceOK
  <2> QED
    BY <2>1, RequestShape DEF CommitCharge, Serving, RequestOK
<1>1. /\ charged' = charged \cup {l} /\ call' = [call EXCEPT ![h] = Idle]
      /\ UNCHANGED <<tenancies, unit, lease, record>>
  BY <1>0 DEF CommitCharge, Done
<1>2. LeaseTypeOK'
  BY <1>1, IdleRow DEF LeaseTypeOK, CallRow, tenancies
<1>3. ServiceOK'
  <2>1. Kept
    BY <1>1 DEF Kept, tenancies
  <2> QED
    BY <1>1, <2>1, OthersKnow, IdleRow, RestKnowsNothing
<1>4. ChargesOK'
  BY <1>0, <1>1 DEF ChargesOK
<1>5. RowsOK' /\ TenancyOK' /\ WillingOK' /\ UnitsOK'
  BY <1>1 DEF RowsOK, TenancyOK, WillingOK, UnitsOK, ActiveLeases, tenancies
<1>6. HistoryOK'
  <2>1. \A m \in Leases : RecordsOf(m)' = RecordsOf(m)
    BY <1>1 DEF RecordsOf
  <2> QED
    BY <1>1, <2>1, HistoryStands
<1> QED
  BY <1>2, <1>3, <1>4, <1>5, <1>6

-----------------------------------------------------------------------------
LEMMA LeaseInvInit ==
  ASSUME Init
  PROVE  LeaseInv
<1>1. LeaseTypeOK
  BY IdleRow DEF Init, LeaseTypeOK, CallRow
<1>2. RowsOK /\ WillingOK /\ TenancyOK /\ ChargesOK
  BY DEF Init, RowsOK, RowOK, WillingOK, TenancyOK, ChargesOK, NoLease, Ended
<1>3. ServiceOK
  BY DEF Init, ServiceOK, RequestOK, Idle
<1>4. UnitsOK
  BY DEF Init, UnitsOK, ActiveLeases, NoLease
<1>5. HistoryOK
  <2> SUFFICES ASSUME NEW l \in Leases
               PROVE  /\ \A op \in Steps \cup {"createLease"} :
                           ~Reached(l, op) /\ StepRecords(l, op) = {}
                      /\ IsFiniteSet(RecordsOf(l)) /\ Cardinality(RecordsOf(l)) = lease[l].version
    BY DEF HistoryOK
  <2>1. \A op : ~Reached(l, op) /\ StepRecords(l, op) = {}
    BY DEF Init, Reached, StepRecords, NoLease
  <2>2. RecordsOf(l) = {} /\ lease[l].version = 0
    BY DEF Init, RecordsOf, NoLease
  <2> QED
    BY <2>1, <2>2, FS_EmptySet
<1> QED
  BY <1>1, <1>2, <1>3, <1>4, <1>5 DEF LeaseInv

LEMMA LeaseInvStep ==
  ASSUME LeaseInv, [Next]_leasingVars
  PROVE  LeaseInv'
<1>1. ASSUME NEW h \in Handlers, Continue(h) PROVE LeaseInv'
  BY <1>1, QuietSteps, TenantSteps, LeaseCommit, ValidateCommit, ActivateCommit,
     RenewalCommit, TerminateCommit, ChargeCommit DEF Continue
<1>2. ASSUME NEW h \in Handlers, NEW q \in LeasingRequests, Begin(h, q) PROVE LeaseInv'
  BY <1>2, QuietSteps
<1>3. CASE UNCHANGED leasingVars
  <2>1. LeaseTypeOK'
    BY <1>3 DEF leasingVars, tenancies, LeaseInv, LeaseTypeOK
  <2>2. RowsOK' /\ TenancyOK' /\ ChargesOK' /\ UnitsOK' /\ WillingOK'
    BY <1>3 DEF leasingVars, tenancies, LeaseInv, RowsOK, TenancyOK, ChargesOK,
       UnitsOK, WillingOK, ActiveLeases
  <2>3. ServiceOK'
    BY <1>3 DEF leasingVars, tenancies, LeaseInv, ServiceOK, RequestOK
  <2>4. \A l \in Leases : RecordsOf(l)' = RecordsOf(l)
    BY <1>3 DEF leasingVars, RecordsOf
  <2> QED
    BY <1>3, <2>1, <2>2, <2>3, <2>4, HistoryStands DEF leasingVars, LeaseInv
<1> QED
  BY <1>1, <1>2, <1>3, ExpiryStep DEF Next

(* The inductive invariant holds in every reachable state.                    *)
THEOREM LeasingIsSound == Spec => []LeaseInv
BY LeaseInvInit, LeaseInvStep, PTL DEF Spec

(* Every row of the leasing tables and every request in service keeps the     *)
(* values the schema and the handlers give it.                                *)
THEOREM LeasingTypeCorrect == Spec => []LeaseTypeOK
<1>1. LeaseInv => LeaseTypeOK
  BY DEF LeaseInv
<1> QED
  BY <1>1, LeasingIsSound, PTL

(* A set with one member counts one, an empty one none. *)
LEMMA SoleCounts ==
  ASSUME NEW S
  PROVE  (Sole(S) => Cardinality(S) = 1) /\ (S = {} => Cardinality(S) = 0)
BY FS_Singleton, FS_EmptySet DEF Sole

(* A unit is marked occupied exactly while one lease of it is active, for any *)
(* number of leases and of members who activate and terminate them at once.   *)
THEOREM UnitsAgreeWithLeases == Spec => []OccupiedMeansLeased
<1>1. LeaseInv => OccupiedMeansLeased
  BY SoleCounts DEF LeaseInv, UnitsOK, OccupiedMeansLeased
<1> QED
  BY <1>1, LeasingIsSound, PTL

(* Each step of a lease is recorded under exactly one key, and the version    *)
(* counts the records: no step is lost, and none is applied twice.            *)
THEOREM HistoriesAreComplete == Spec => []StepsRecordedOnce
<1>1. LeaseInv => StepsRecordedOnce
  <2> SUFFICES ASSUME LeaseInv PROVE StepsRecordedOnce
    OBVIOUS
  <2>1. ASSUME NEW l \in Leases, NEW op \in Steps \cup {"createLease"}
        PROVE  Cardinality(StepRecords(l, op)) = IF Reached(l, op) THEN 1 ELSE 0
    BY <2>1, SoleCounts DEF LeaseInv, HistoryOK
  <2>2. ASSUME NEW l \in Leases PROVE lease[l].version = Cardinality(RecordsOf(l))
    BY <2>2 DEF LeaseInv, HistoryOK
  <2> QED
    BY <2>1, <2>2 DEF StepsRecordedOnce, StepRecords, RecordsOf
<1> QED
  BY <1>1, LeasingIsSound, PTL

(* A lease leaves its draft only for a tenant who accepted an invitation that *)
(* was delivered.                                                             *)
THEOREM TenantsAgreed == Spec => []LeasedToWillingTenants
<1>1. LeaseInv => LeasedToWillingTenants
  BY DEF LeaseInv, LeaseTypeOK, WillingOK, TenancyOK, LeasedToWillingTenants
<1> QED
  BY <1>1, LeasingIsSound, PTL

-----------------------------------------------------------------------------
(* The occupancy of units that a state of the leases stands for. *)
HeldBy(S) == IF S = {} THEN NoValue ELSE CHOOSE l \in S : TRUE
Holders == [u \in Units |-> HeldBy(ActiveLeases(u))]
Gone == {l \in Leases : lease[l].status = "TERMINATED"}

LEMMA SoleHolder ==
  ASSUME NEW l
  PROVE  HeldBy({l}) = l /\ HeldBy({}) = NoValue
BY DEF HeldBy

(* The holders are the active leases, each of its own unit. *)
LEMMA HoldersAreActive ==
  ASSUME LeaseInv
  PROVE  /\ Occupied!Holding = {l \in Leases : lease[l].status = "ACTIVE"}
         /\ \A u \in Units : Holders[u] = NoValue <=> ActiveLeases(u) = {}
<1>1. ASSUME NEW u \in Units
      PROVE  \/ ActiveLeases(u) = {} /\ Holders[u] = NoValue
             \/ \E l \in Leases : ActiveLeases(u) = {l} /\ Holders[u] = l /\ l # NoValue
  <2>1. CASE ActiveLeases(u) = {}
    BY <2>1 DEF Holders, HeldBy
  <2>2. CASE ActiveLeases(u) # {}
    <3>1. PICK l \in ActiveLeases(u) : ActiveLeases(u) = {l}
      BY <2>2 DEF LeaseInv, UnitsOK, Sole
    <3>2. l \in Leases /\ l # NoValue
      BY LeasingAssumption DEF ActiveLeases
    <3>3. HeldBy(ActiveLeases(u)) = l
      BY <3>1, SoleHolder
    <3> QED
      BY <3>1, <3>2, <3>3 DEF Holders
  <2> QED
    BY <2>1, <2>2
<1>2. Occupied!Holding = {Holders[u] : u \in Units} \ {NoValue}
  BY DEF Occupied!Holding, Holders, HeldBy
<1>3. ASSUME NEW l \in Leases, lease[l].status = "ACTIVE" PROVE l \in Occupied!Holding
  <2>1. lease[l].unit \in Units /\ l \in ActiveLeases(lease[l].unit)
    BY <1>3 DEF LeaseInv, RowsOK, RowOK, ActiveLeases
  <2>2. Holders[lease[l].unit] = l /\ l # NoValue
    BY <1>1, <2>1
  <2> QED
    BY <1>2, <2>1, <2>2
<1>4. ASSUME NEW l \in Occupied!Holding PROVE l \in Leases /\ lease[l].status = "ACTIVE"
  BY <1>1, <1>2 DEF ActiveLeases
<1> QED
  BY <1>1, <1>3, <1>4

(* A step that keeps the active and the ended leases is none of the occupancy. *)
LEMMA OccupancyStands ==
  ASSUME UNCHANGED charged, \A u \in Units : ActiveLeases(u)' = ActiveLeases(u),
         \A l \in Leases : lease'[l].status = "TERMINATED" <=> lease[l].status = "TERMINATED"
  PROVE  UNCHANGED Occupied!occupancy
<1>1. Holders' = Holders
  BY DEF Holders
<1>2. Gone' = Gone
  BY DEF Gone
<1> QED
  BY <1>1, <1>2 DEF Occupied!occupancy, Holders, Gone, HeldBy

LEMMA OccupancyInit ==
  ASSUME Init
  PROVE  Occupied!Init
<1>1. \A u \in Units : ActiveLeases(u) = {}
  BY DEF Init, ActiveLeases, NoLease
<1>2. {l \in Leases : lease[l].status = "TERMINATED"} = {}
  BY DEF Init, NoLease
<1> QED
  BY <1>1, <1>2 DEF Init, Occupied!Init

(* An activation moves its lease into the unit. *)
LEMMA ActivationMovesIn ==
  ASSUME LeaseInv, NEW h \in Handlers, CommitActivate(h)
  PROVE  \E u \in Units, l \in Leases : Occupied!MoveIn(u, l)
<1>1. call[h].stage = "commit" /\ call[h].req.op \in Steps /\ Become(h, "ACTIVE")
  BY DEF CommitActivate, Serving, Steps
<1>2. PICK l \in Leases :
        /\ lease[l].unit \in Units /\ l = call[h].req.target /\ call[h].seen.unit = lease[l].unit
        /\ lease' = [lease EXCEPT ![l] =
             [status |-> "ACTIVE", version |-> lease[l].version + 1, renewed |-> lease[l].renewed,
              unit |-> lease[l].unit, tenant |-> lease[l].tenant]]
  BY <1>1, StatusCommit
<1>3. PICK u \in Units : u = lease[l].unit
  BY <1>2
<1>4. lease[l].status = "READY_FOR_ACTIVATION" /\ ActiveLeases(u) = {} /\ UNCHANGED charged
  BY <1>2, <1>3 DEF CommitActivate, StillAt
<1>5. /\ lease'[l].unit = u /\ lease'[l].status = "ACTIVE"
      /\ \A m \in Leases : m # l => lease'[m] = lease[m]
  BY <1>2, <1>3 DEF LeaseInv, LeaseTypeOK
<1>6. ActiveLeases(u)' = {l}
  BY <1>4, <1>5 DEF ActiveLeases
<1>7. \A w \in Units : w # u => ActiveLeases(w)' = ActiveLeases(w)
  BY <1>3, <1>5 DEF ActiveLeases
<1>8. Holders[u] = NoValue /\ Holders' = [Holders EXCEPT ![u] = l]
  <2>1. Holders[u] = NoValue /\ Holders'[u] = l
    BY <1>4, <1>6, SoleHolder DEF Holders
  <2>2. \A w \in Units : w # u => Holders'[w] = Holders[w]
    BY <1>7 DEF Holders
  <2> QED
    BY <2>1, <2>2 DEF Holders
<1>9. l \notin Occupied!Holding \cup Gone /\ Gone' = Gone
  <2>1. l \notin Occupied!Holding
    BY <1>4, HoldersAreActive
  <2> QED
    BY <1>4, <1>5, <2>1 DEF Gone
<1> QED
  BY <1>4, <1>8, <1>9 DEF Occupied!MoveIn, Holders, Gone, HeldBy

(* A termination moves its lease out of the unit, for good. *)
LEMMA TerminationMovesOut ==
  ASSUME LeaseInv, NEW h \in Handlers, CommitTerminate(h)
  PROVE  \E u \in Units : Occupied!MoveOut(u)
<1>1. call[h].stage = "commit" /\ call[h].req.op \in Steps /\ Become(h, "TERMINATED")
  BY DEF CommitTerminate, Serving, Steps
<1>2. PICK l \in Leases :
        /\ lease[l].unit \in Units /\ l = call[h].req.target /\ call[h].seen.unit = lease[l].unit
        /\ lease' = [lease EXCEPT ![l] =
             [status |-> "TERMINATED", version |-> lease[l].version + 1, renewed |-> lease[l].renewed,
              unit |-> lease[l].unit, tenant |-> lease[l].tenant]]
  BY <1>1, StatusCommit
<1>3. PICK u \in Units : u = lease[l].unit
  BY <1>2
<1>4. lease[l].status = "ACTIVE" /\ unit[u] = "OCCUPIED" /\ UNCHANGED charged
  BY <1>2, <1>3 DEF CommitTerminate, StillAt
<1>5. /\ lease'[l].unit = u /\ lease'[l].status = "TERMINATED"
      /\ \A m \in Leases : m # l => lease'[m] = lease[m]
  BY <1>2, <1>3 DEF LeaseInv, LeaseTypeOK
<1>6. ActiveLeases(u) = {l}
  BY <1>3, <1>4 DEF LeaseInv, UnitsOK, Sole, ActiveLeases
<1>7. ActiveLeases(u)' = {}
  BY <1>3, <1>5, <1>6 DEF ActiveLeases
<1>8. \A w \in Units : w # u => ActiveLeases(w)' = ActiveLeases(w)
  BY <1>3, <1>5 DEF ActiveLeases
<1>9. Holders[u] = l /\ l # NoValue /\ Holders' = [Holders EXCEPT ![u] = NoValue]
  <2>1. Holders[u] = l /\ Holders'[u] = NoValue
    BY <1>6, <1>7, SoleHolder DEF Holders
  <2>2. \A w \in Units : w # u => Holders'[w] = Holders[w]
    BY <1>8 DEF Holders
  <2>3. l # NoValue
    BY LeasingAssumption
  <2> QED
    BY <2>1, <2>2, <2>3 DEF Holders
<1>10. Gone' = Gone \cup {l}
  BY <1>5 DEF Gone
<1> QED
  BY <1>4, <1>9, <1>10 DEF Occupied!MoveOut, Holders, Gone, HeldBy

(* A charge bills a lease that holds its unit or has held it. *)
LEMMA ChargeBills ==
  ASSUME LeaseInv, NEW h \in Handlers, CommitCharge(h)
  PROVE  \E l \in Leases : Occupied!Bill(l)
<1>1. PICK l \in Leases : l = call[h].req.target /\ lease[l].status \in Ended
  <2>1. RequestOK(h)
    BY DEF LeaseInv, ServiceOK
  <2> QED
    BY <2>1, RequestShape DEF CommitCharge, Serving, RequestOK
<1>2. /\ l \notin charged /\ charged' = charged \cup {l}
      /\ UNCHANGED lease
  BY <1>1 DEF CommitCharge
<1>3. l \in Occupied!Holding \cup Gone
  BY <1>1, HoldersAreActive DEF Ended, Gone
<1>4. UNCHANGED <<Holders, Gone>>
  BY <1>2 DEF Holders, Gone, ActiveLeases
<1> QED
  BY <1>2, <1>3, <1>4 DEF Occupied!Bill, Holders, Gone, HeldBy

LEMMA OccupancyStep ==
  ASSUME LeaseInv, [Next]_leasingVars
  PROVE  [Occupied!Next]_(Occupied!occupancy)
<1>1. ASSUME UNCHANGED <<lease, charged>> PROVE UNCHANGED Occupied!occupancy
  BY <1>1, OccupancyStands DEF ActiveLeases
<1>2. ASSUME NEW h \in Handlers, CommitLease(h) PROVE UNCHANGED Occupied!occupancy
  <2>1. PICK l \in Leases, r \in [status : {"DRAFT"}, version : {1}, renewed : {FALSE},
                                  unit : {call[h].req.unit}, tenant : {call[h].req.tenant}] :
          lease[l] = NoLease /\ lease' = [lease EXCEPT ![l] = r] /\ UNCHANGED charged
    BY <1>2 DEF CommitLease
  <2>2. lease[l].status = "NONE" /\ lease'[l].status = "DRAFT"
    BY <2>1 DEF NoLease, LeaseInv, LeaseTypeOK
  <2>3. \A m \in Leases : m # l => lease'[m] = lease[m]
    BY <2>1 DEF LeaseInv, LeaseTypeOK
  <2> QED
    BY <2>1, <2>2, <2>3, OccupancyStands DEF ActiveLeases
<1>3. ASSUME NEW h \in Handlers, CommitValidate(h) PROVE UNCHANGED Occupied!occupancy
  <2>1. /\ call[h].stage = "commit" /\ call[h].req.op \in Steps /\ UNCHANGED charged
        /\ Become(h, "READY_FOR_ACTIVATION") /\ lease[call[h].req.target].status = "DRAFT"
    BY <1>3 DEF CommitValidate, StillAt, Serving, Steps
  <2>2. PICK l \in Leases :
          /\ l = call[h].req.target
          /\ lease' = [lease EXCEPT ![l] =
               [status |-> "READY_FOR_ACTIVATION", version |-> lease[l].version + 1,
                renewed |-> lease[l].renewed, unit |-> lease[l].unit, tenant |-> lease[l].tenant]]
    BY <2>1, StatusCommit
  <2>3. /\ lease[l].status = "DRAFT" /\ lease'[l].status = "READY_FOR_ACTIVATION"
        /\ \A m \in Leases : m # l => lease'[m] = lease[m]
    BY <2>1, <2>2 DEF LeaseInv, LeaseTypeOK
  <2> QED
    BY <2>1, <2>3, OccupancyStands DEF ActiveLeases
<1>4. ASSUME NEW h \in Handlers, CommitRenewal(h) PROVE UNCHANGED Occupied!occupancy
  <2>1. /\ call[h].stage = "commit" /\ call[h].req.op \in Steps /\ UNCHANGED charged
        /\ Advance(h, [lease[call[h].req.target] EXCEPT !.renewed = TRUE])
    BY <1>4 DEF CommitRenewal, Serving, Steps
  <2>2. PICK l \in Leases :
          lease' = [lease EXCEPT ![l] =
            [status |-> lease[l].status, version |-> lease[l].version + 1, renewed |-> TRUE,
             unit |-> lease[l].unit, tenant |-> lease[l].tenant]]
    BY <2>1, MarkerCommit
  <2>3. \A m \in Leases : lease'[m].status = lease[m].status /\ lease'[m].unit = lease[m].unit
    BY <2>2 DEF LeaseInv, LeaseTypeOK
  <2> QED
    BY <2>1, <2>3, OccupancyStands DEF ActiveLeases
<1>5. ASSUME NEW h \in Handlers, Continue(h) PROVE [Occupied!Next]_(Occupied!occupancy)
  <2>1. ASSUME Leave(h) \/ CommitTenant(h) \/ SendMail(h) \/ CommitAcceptance(h) \/ CheckStep(h)
        PROVE  UNCHANGED Occupied!occupancy
    <3>1. UNCHANGED <<lease, charged>>
      BY <2>1 DEF Leave, CommitTenant, SendMail, CommitAcceptance, CheckStep
    <3> QED
      BY <1>1, <3>1
  <2>2. CASE CommitActivate(h)
    BY <2>2, ActivationMovesIn DEF Occupied!Next
  <2>3. CASE CommitTerminate(h)
    BY <2>3, TerminationMovesOut DEF Occupied!Next
  <2>4. CASE CommitCharge(h)
    BY <2>4, ChargeBills DEF Occupied!Next
  <2> QED
    BY <1>2, <1>3, <1>4, <1>5, <2>1, <2>2, <2>3, <2>4 DEF Continue
<1>6. ASSUME NEW h \in Handlers, NEW q \in LeasingRequests, Begin(h, q)
      PROVE  UNCHANGED Occupied!occupancy
  BY <1>1, <1>6 DEF Begin, BeginTenant, BeginAcceptance, BeginLease, BeginStep, BeginCharge, Serve
<1>7. ASSUME NEW t \in Tenants, ExpireInvitation(t) PROVE UNCHANGED Occupied!occupancy
  BY <1>1, <1>7 DEF ExpireInvitation
<1>8. CASE UNCHANGED leasingVars
  BY <1>1, <1>8 DEF leasingVars
<1> QED
  BY <1>5, <1>6, <1>7, <1>8 DEF Next

(* Leasing implements the abstract occupancy: whatever transactions interleave, *)
(* a unit passes from one holder to the next through an empty unit, no lease    *)
(* returns to a unit, and rent is billed once, to a lease that held its unit.   *)
THEOREM LeasingImplementsOccupancy == Spec => ImplementsOccupancy
<1>1. Init => Occupied!Init
  BY OccupancyInit
<1>2. LeaseInv /\ [Next]_leasingVars => [Occupied!Next]_(Occupied!occupancy)
  BY OccupancyStep
<1> QED
  BY <1>1, <1>2, LeasingIsSound, PTL DEF Spec, ImplementsOccupancy, Occupied!Spec

=============================================================================
