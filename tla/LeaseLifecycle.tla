--------------------------- MODULE LeaseLifecycle ---------------------------
(***************************************************************************)
(* The leasing module of one active organization: tenants and their        *)
(* invitations, leases from draft to termination, the units they occupy,   *)
(* and the rent module's reading of a lease when it charges it.            *)
(*                                                                         *)
(* A request runs as one READ COMMITTED transaction.  It looks its key up  *)
(* with its first read (whoever takes the key in between is met by the     *)
(* unique index at the commit); later reads are steps of their own, and    *)
(* its writes are one step, since a conditional update tests its row again *)
(* when it takes the lock and holds the lock until the commit.  The expiry *)
(* of idempotency records is left out.                                     *)
(***************************************************************************)
EXTENDS Integers, FiniteSets

CONSTANTS
  Tenants,          \* e-mail addresses tenants may be created with
  Units, Leases,    \* units of the portfolio, and identifiers of leases
  Actors, Role,     \* members, and the role of each
  Keys,             \* idempotency keys
  LeasingRequests,  \* the requests clients send
  Handlers,         \* requests the API may be serving at the same time
  NoValue

Steps == {"validate", "activate", "renewal-marker", "terminate"}
Managers == {"OWNER", "PROPERTY_MANAGER"}
LeaseStatus == {"NONE", "DRAFT", "READY_FOR_ACTIVATION", "ACTIVE", "TERMINATED"}

DraftTerms == [days : Int, rent : Int, deposit : Int, dueDay : Int]
LeasingRequest ==
  [op : {"createTenant"}, actor : Actors, key : Keys, target : Tenants, send : BOOLEAN]
    \cup [op : {"createLease"}, actor : Actors, key : Keys, unit : Units, tenant : Tenants,
          terms : DraftTerms]
    \cup [op : Steps, actor : Actors, key : Keys, target : Leases, version : 1..5]
    \cup [op : {"charge"}, actor : Actors, target : Leases]
    \cup [op : {"acceptInvitation"}, target : Tenants]

ASSUME LeasingAssumption ==
  /\ Role \in [Actors -> {"OWNER", "PROPERTY_MANAGER", "ACCOUNTANT", "MAINTENANCE_MANAGER"}]
  /\ \A q \in LeasingRequests : q \in LeasingRequest
  /\ IsFiniteSet(Leases) /\ NoValue \notin Leases \cup Units \cup Tenants
  /\ Tenants \cap Leases = {}

VARIABLES
  tenant,      \* tenant_profiles: the status of each address
  invitation,  \* tenant_invitations of each tenant
  mailbox,     \* tenants who received their token
  unit,        \* the status of each unit
  lease,       \* leases: [status, version, renewed, unit, tenant]
  record,      \* idempotency_records: [req, made]
  charged,     \* leases with a rent obligation for the period
  call         \* requests in service

tenancies == <<tenant, invitation, mailbox>>
leasingVars == <<tenancies, unit, lease, record, charged, call>>

LeaseRow == [status : LeaseStatus, version : 0..5, renewed : BOOLEAN,
             unit : Units \cup {NoValue}, tenant : Tenants \cup {NoValue}]
NoLease ==
  [status |-> "NONE", version |-> 0, renewed |-> FALSE, unit |-> NoValue, tenant |-> NoValue]
Idle == [stage |-> "idle", req |-> NoValue, seen |-> NoLease]

ActiveLeases(u) == {l \in Leases : lease[l].unit = u /\ lease[l].status = "ACTIVE"}

(* A lease runs for 30 to 3650 days for a positive rent; the deposit is at *)
(* most three rents and the rent is due on one of the days 1 to 28.        *)
AdmissibleTerms(t) ==
  /\ t.days \in 30..3650 /\ t.rent > 0
  /\ t.deposit \in 0..3 * t.rent
  /\ t.dueDay \in 1..28

(* The versions of a lease that snapshots have shown to clients so far. *)
Shown(l) == 1..lease[l].version

(* The record that holds the slot <actor, scope, key> of a request: the scope *)
(* of a creation is the organization, that of a transition is the lease.      *)
Recorded(q) ==
  {e \in record : /\ e.req.op = q.op /\ e.req.actor = q.actor /\ e.req.key = q.key
                  /\ q.op \in Steps => e.req.target = q.target}
Keyed(q) == q.op \in Steps \cup {"createTenant", "createLease"}
FaultyRecord(q, made) == record' = record \cup {[req |-> q, made |-> NoValue]}
Record(q, made) == record' = record \cup {[req |-> q, made |-> made]}

-----------------------------------------------------------------------------
(* A request passes the membership guard and the role check of the          *)
(* transaction and finds its key unused; whoever does not pass or replays   *)
(* is answered without a trace.                                             *)
Admitted(q) ==
  /\ Role[q.actor] \in Managers \cup (IF q.op = "charge" THEN {"ACCOUNTANT"} ELSE {})
  /\ Keyed(q) => Recorded(q) = {}

Serve(h, q, stage, seen) ==
  /\ call[h].stage = "idle"
  /\ call' = [call EXCEPT ![h] = [stage |-> stage, req |-> q, seen |-> seen]]
  /\ UNCHANGED <<tenancies, unit, lease, record, charged>>

Serving(h, op, stage) == call[h].stage = stage /\ call[h].req.op = op
Done(h) == call' = [call EXCEPT ![h] = Idle]

(* A request that fails a check, matches no row, violates a unique index or *)
(* dies with its process is rolled back; after the commit of a tenant it is *)
(* the mail that is lost.                                                   *)
Leave(h) ==
  /\ call[h].stage # "idle"
  /\ Done(h)
  /\ UNCHANGED <<tenancies, unit, lease, record, charged>>

-----------------------------------------------------------------------------
(* Tenants and their invitations. *)

BeginTenant(h, q) ==
  /\ q.op = "createTenant" /\ Admitted(q)
  /\ tenant[q.target] = "NONE"
  /\ Serve(h, q, "commit", NoLease)

(* The e-mail is unique: a second creation ends as a duplicate. *)
CommitTenant(h) ==
  LET q == call[h].req IN
  /\ Serving(h, "createTenant", "commit")
  /\ tenant[q.target] = "NONE" /\ Recorded(q) = {}
  /\ tenant' = [tenant EXCEPT ![q.target] = IF q.send THEN "INVITED" ELSE "PROSPECT"]
  /\ invitation' = IF q.send THEN [invitation EXCEPT ![q.target] = "pending"] ELSE invitation
  /\ Record(q, q.target)
  /\ call' = [call EXCEPT ![h] = IF q.send THEN [@ EXCEPT !.stage = "mail"] ELSE Idle]
  /\ UNCHANGED <<mailbox, unit, lease, charged>>

(* Sent after the commit and not awaited; the token is kept nowhere else. *)
SendMail(h) ==
  /\ Serving(h, "createTenant", "mail")
  /\ mailbox' = mailbox \cup {call[h].req.target}
  /\ Done(h)
  /\ UNCHANGED <<tenant, invitation, unit, lease, record, charged>>

BeginAcceptance(h, q) ==
  /\ q.op = "acceptInvitation"
  /\ q.target \in mailbox /\ invitation[q.target] = "pending"
  /\ Serve(h, q, "commit", NoLease)

CommitAcceptance(h) ==
  LET t == call[h].req.target IN
  /\ Serving(h, "acceptInvitation", "commit")
  /\ invitation[t] = "pending"
  /\ invitation' = [invitation EXCEPT ![t] = "accepted"]
  /\ tenant' = [tenant EXCEPT ![t] = IF @ = "INVITED" THEN "ACTIVE" ELSE @]
  /\ Done(h)
  /\ UNCHANGED <<mailbox, unit, lease, record, charged>>

(* The 72 hours of an invitation pass. *)
ExpireInvitation(t) ==
  /\ invitation[t] = "pending"
  /\ invitation' = [invitation EXCEPT ![t] = "expired"]
  /\ UNCHANGED <<tenant, mailbox, unit, lease, record, charged, call>>

-----------------------------------------------------------------------------
(* Leases. *)

BeginLease(h, q) ==
  /\ q.op = "createLease" /\ AdmissibleTerms(q.terms) /\ Admitted(q)
  /\ tenant[q.tenant] # "NONE"
  /\ unit[q.unit] = "AVAILABLE" /\ ActiveLeases(q.unit) = {}
  /\ Serve(h, q, "commit", NoLease)

CommitLease(h) ==
  LET q == call[h].req IN
  /\ Serving(h, "createLease", "commit")
  /\ Recorded(q) = {}
  /\ \E l \in Leases :
       /\ lease[l] = NoLease
       /\ lease' = [lease EXCEPT ![l] = [status |-> "DRAFT", version |-> 1, renewed |-> FALSE,
                                         unit |-> q.unit, tenant |-> q.tenant]]
       /\ Record(q, l)
  /\ Done(h)
  /\ UNCHANGED <<tenancies, unit, charged>>

BeginStep(h, q) ==
  /\ q.op \in Steps /\ Admitted(q)
  /\ q.version \in Shown(q.target) /\ lease[q.target].status # "NONE"
  /\ Serve(h, q, "check", lease[q.target])

FaultyFit(l) == unit[l.unit] = "AVAILABLE"
Fit(l) == tenant[l.tenant] = "ACTIVE" /\ unit[l.unit] = "AVAILABLE"

(* The tenant and the unit are read after the lease.  Termination asks for *)
(* no status here, and the renewal window is measured from a date that is  *)
(* always inside it (90 days before the end of the lease).                 *)
CheckStep(h) ==
  LET op == call[h].req.op
      seen == call[h].seen
  IN /\ call[h].stage = "check" /\ seen.version = call[h].req.version
     /\ \/ /\ op = "validate" /\ seen.status = "DRAFT"
           /\ Fit(seen) /\ ActiveLeases(seen.unit) = {}
        \/ op = "activate" /\ seen.status = "READY_FOR_ACTIVATION" /\ Fit(seen)
        \/ op = "renewal-marker" /\ seen.status = "ACTIVE" /\ ~seen.renewed
        \/ op = "terminate" /\ seen.status # "TERMINATED"
     /\ call' = [call EXCEPT ![h].stage = "commit"]
     /\ UNCHANGED <<tenancies, unit, lease, record, charged>>

(* The conditional update of a lease and the record of its request. *)
StillAt(h, status) ==
  LET l == call[h].req.target IN
  lease[l].status = status /\ lease[l].version = call[h].seen.version
Advance(h, next) ==
  LET q == call[h].req IN
  /\ Recorded(q) = {}
  /\ lease' = [lease EXCEPT ![q.target] = [next EXCEPT !.version = lease[q.target].version + 1]]
  /\ Record(q, q.target)
  /\ Done(h)
Become(h, status) == Advance(h, [lease[call[h].req.target] EXCEPT !.status = status])

CommitValidate(h) ==
  /\ Serving(h, "validate", "commit") /\ StillAt(h, "DRAFT")
  /\ Become(h, "READY_FOR_ACTIVATION")
  /\ UNCHANGED <<tenancies, unit, charged>>

(* The unit is taken by a conditional update; one ACTIVE lease per unit is *)
(* also a unique index.                                                    *)
CommitActivate(h) ==
  LET u == call[h].seen.unit IN
  /\ Serving(h, "activate", "commit") /\ StillAt(h, "READY_FOR_ACTIVATION")
  /\ unit[u] = "AVAILABLE" /\ ActiveLeases(u) = {}
  /\ unit' = [unit EXCEPT ![u] = "OCCUPIED"]
  /\ Become(h, "ACTIVE")
  /\ UNCHANGED <<tenancies, charged>>

FaultyCommitRenewal(h) ==
  /\ Serving(h, "renewal-marker", "commit")
  /\ lease[call[h].req.target].status = "ACTIVE"
  /\ Advance(h, [lease[call[h].req.target] EXCEPT !.renewed = TRUE])
  /\ UNCHANGED <<tenancies, unit, charged>>

CommitRenewal(h) ==
  /\ Serving(h, "renewal-marker", "commit")
  /\ StillAt(h, "ACTIVE") /\ ~lease[call[h].req.target].renewed
  /\ Advance(h, [lease[call[h].req.target] EXCEPT !.renewed = TRUE])
  /\ UNCHANGED <<tenancies, unit, charged>>

FaultyCommitTerminate(h) ==
  LET u == call[h].seen.unit IN
  /\ Serving(h, "terminate", "commit")
  /\ unit[u] = "OCCUPIED"
  /\ unit' = [unit EXCEPT ![u] = "AVAILABLE"]
  /\ \/ StillAt(h, "ACTIVE") /\ Become(h, "TERMINATED")
     \/ ~StillAt(h, "ACTIVE") /\ Done(h) /\ UNCHANGED <<lease, record>>
  /\ UNCHANGED <<tenancies, charged>>

(* The unit is released first, for whichever lease occupies it; it stays *)
(* released only if this lease is still the active one.                  *)
CommitTerminate(h) ==
  LET u == call[h].seen.unit IN
  /\ Serving(h, "terminate", "commit")
  /\ unit[u] = "OCCUPIED" /\ StillAt(h, "ACTIVE")
  /\ unit' = [unit EXCEPT ![u] = "AVAILABLE"]
  /\ Become(h, "TERMINATED")
  /\ UNCHANGED <<tenancies, charged>>

FaultyBeginCharge(h, q) ==
  /\ q.op = "charge" /\ Admitted(q)
  /\ lease[q.target].status # "NONE"
  /\ Serve(h, q, "commit", NoLease)

(* The rent module reads the lease without locking it. *)
BeginCharge(h, q) ==
  /\ q.op = "charge" /\ Admitted(q)
  /\ lease[q.target].status = "ACTIVE"
  /\ Serve(h, q, "commit", NoLease)

(* Only the lease and the period are unique: the lease may have ended since. *)
CommitCharge(h) ==
  /\ Serving(h, "charge", "commit")
  /\ call[h].req.target \notin charged
  /\ charged' = charged \cup {call[h].req.target}
  /\ Done(h)
  /\ UNCHANGED <<tenancies, unit, lease, record>>

-----------------------------------------------------------------------------
Init ==
  /\ tenant = [t \in Tenants |-> "NONE"] /\ invitation = [t \in Tenants |-> "none"]
  /\ mailbox = {} /\ charged = {} /\ record = {}
  /\ unit = [u \in Units |-> "AVAILABLE"]
  /\ lease = [l \in Leases |-> NoLease]
  /\ call = [h \in Handlers |-> Idle]

Begin(h, q) ==
  \/ BeginTenant(h, q) \/ BeginAcceptance(h, q)
  \/ BeginLease(h, q) \/ BeginStep(h, q) \/ BeginCharge(h, q)

Continue(h) ==
  \/ Leave(h) \/ CommitTenant(h) \/ SendMail(h) \/ CommitAcceptance(h)
  \/ CommitLease(h) \/ CheckStep(h) \/ CommitCharge(h)
  \/ CommitValidate(h) \/ CommitActivate(h) \/ CommitRenewal(h) \/ CommitTerminate(h)

Next == \/ \E h \in Handlers : (\E q \in LeasingRequests : Begin(h, q)) \/ Continue(h)
        \/ \E t \in Tenants : ExpireInvitation(t)

Spec == Init /\ [][Next]_leasingVars

-----------------------------------------------------------------------------
(* Every variable has the values the schema and the handlers give it. *)
LeaseTypeOK ==
  /\ tenant \in [Tenants -> {"NONE", "PROSPECT", "INVITED", "ACTIVE"}]
  /\ invitation \in [Tenants -> {"none", "pending", "expired", "accepted"}]
  /\ mailbox \subseteq Tenants /\ charged \subseteq Leases
  /\ unit \in [Units -> {"AVAILABLE", "OCCUPIED"}]
  /\ lease \in [Leases -> LeaseRow]
  /\ record \subseteq [req : LeasingRequests, made : Tenants \cup Leases]
  /\ call \in [Handlers -> [stage : {"idle", "check", "commit", "mail"},
                            req : LeasingRequests \cup {NoValue}, seen : LeaseRow]]

(* A unit is marked occupied exactly while one lease of it is active, and    *)
(* never two are: activation and termination write both rows or neither,     *)
(* whichever activations, terminations and renewals run at the same time.    *)
OccupiedMeansLeased ==
  \A u \in Units : Cardinality(ActiveLeases(u)) = IF unit[u] = "OCCUPIED" THEN 1 ELSE 0

(* The history of a lease is complete: each step of its life is recorded     *)
(* under exactly one key, no step is lost or applied twice by requests that  *)
(* read the same version, and the version counts the steps.                  *)
Reached(l, op) ==
  \/ op = "validate" /\ lease[l].status \in {"READY_FOR_ACTIVATION", "ACTIVE", "TERMINATED"}
  \/ op = "activate" /\ lease[l].status \in {"ACTIVE", "TERMINATED"}
  \/ op = "renewal-marker" /\ lease[l].renewed
  \/ op = "terminate" /\ lease[l].status = "TERMINATED"
  \/ op = "createLease" /\ lease[l].status # "NONE"
StepsRecordedOnce ==
  \A l \in Leases :
    LET of(op) == {e \in record : e.req.op = op /\ e.made = l} IN
    /\ \A op \in Steps \cup {"createLease"} :
         Cardinality(of(op)) = IF Reached(l, op) THEN 1 ELSE 0
    /\ lease[l].version = Cardinality({e \in record : e.made = l})

(* A lease leaves its draft only for a tenant who accepted the invitation     *)
(* sent to the address, through a token that was delivered and used once.     *)
LeasedToWillingTenants ==
  /\ \A l \in Leases : lease[l].status \notin {"NONE", "DRAFT"} => tenant[lease[l].tenant] = "ACTIVE"
  /\ \A t \in Tenants : /\ tenant[t] = "ACTIVE" <=> invitation[t] = "accepted"
                        /\ tenant[t] = "ACTIVE" => t \in mailbox

(* Leasing implements the abstract occupancy of units: units pass from one    *)
(* holder to the next through an empty unit, no lease returns, and a charge   *)
(* is made only for a lease that has held its unit.                           *)
Occupied == INSTANCE Occupancy WITH
  holder <- [u \in Units |-> IF ActiveLeases(u) = {} THEN NoValue
                              ELSE CHOOSE l \in ActiveLeases(u) : TRUE],
  gone <- {l \in Leases : lease[l].status = "TERMINATED"},
  billed <- charged, NoOne <- NoValue
ImplementsOccupancy == Occupied!Spec

=============================================================================
