--------------------------- MODULE Organizations ---------------------------
(***************************************************************************)
(* Organizations, their members and the invitations of members.  The       *)
(* request records of idempotent commands are kept without their session   *)
(* and without their expiry.                                               *)
(***************************************************************************)
EXTENDS Accounts

CONSTANTS
  Orgs,             \* identifiers of organizations
  Slugs,            \* names of workspaces
  Invites,          \* tokens of members' invitations
  Keys,             \* keys of idempotent commands
  AdmittedStatuses  \* statuses of an organization whose members the guard admits

Stages == <<"ORGANIZATION_CREATED", "WORKSPACE_CONFIGURED", "MFA_REQUIRED",
            "PORTFOLIO_REQUIRED", "READY_FOR_REVIEW", "ACTIVE">>
Guests == {"PROPERTY_MANAGER", "ACCOUNTANT", "MAINTENANCE_MANAGER"}

ASSUME OrganizationsAssumption ==
  /\ AdmittedStatuses \subseteq {"ONBOARDING", "ACTIVE"}
  /\ Registrations \cap Invites = {}
  /\ NoValue \notin Users \cup Orgs \cup Slugs \cup Sessions \cup Guests \cup {"OWNER"}

VARIABLES
  org,     \* organizations and onboarding_progress: [status, version, slug, state]
  member,  \* memberships: the role of each user in each organization
  invite,  \* organization_invitations: [org, email, role, status]
  record   \* idempotency_records: [req, made]

organizationVars == <<org, member, invite, record>>

NoOrg == [status |-> "NONE", version |-> 0, slug |-> NoValue, state |-> "NONE"]

(* The version of the progress counts its transitions, one for each stage. *)
Stage(o) == IF org[o].status = "NONE" THEN 0
            ELSE CHOOSE i \in 1..Len(Stages) : Stages[i] = org[o].state
At(o, state) == org[o].state = state
Enter(o, state) == org' = [org EXCEPT ![o].state = state]

Actor(q) == session[q.by].user
Signed(q) == q.by \in Live

(* The guard of a workspace: a signed-in member with one of the roles, in an *)
(* organization of an admitted status.                                       *)
Passes(q, roles) ==
  /\ Signed(q)
  /\ member[q.org][Actor(q)] \in roles
  /\ org[q.org].status \in AdmittedStatuses

(* The record that holds the slot <actor, scope, key> of a request: the scope *)
(* of every command but the creation of an organization names one.            *)
Recorded(q) == {e \in record : /\ e.req.op = q.op /\ e.req.by = Actor(q) /\ e.req.key = q.key
                               /\ q.op # "create" => e.req.org = q.org}
Record(q, made) == record' = record \cup {[req |-> [q EXCEPT !.by = Actor(q)], made |-> made]}

-----------------------------------------------------------------------------
BeginCreation(h, q) ==
  /\ q.op = "create" /\ Signed(q) /\ Recorded(q) = {}
  /\ Serve(h, q, NoValue)

CommitCreation(h) ==
  LET q == call[h].req
      free == {o \in Orgs : org[o] = NoOrg}
  IN /\ Serving(h, "create") /\ Recorded(q) = {} /\ free # {}
     /\ org' = [org EXCEPT ![New(free)] = [status |-> "ONBOARDING", version |-> 1,
                                           slug |-> NoValue, state |-> Stages[1]]]
     /\ member' = [member EXCEPT ![New(free)][Actor(q)] = "OWNER"]
     /\ Record(q, New(free))
     /\ Done(h)
     /\ UNCHANGED invite

BeginConfiguration(h, q) ==
  /\ q.op = "configure" /\ Passes(q, {"OWNER"})
  /\ org[q.org].status = "ONBOARDING" /\ At(q.org, "ORGANIZATION_CREATED")
  /\ org[q.org].version = q.version
  /\ Serve(h, q, NoValue)

(* Two conditional updates; the slug is unique among all organizations. *)
CommitConfiguration(h) ==
  LET q == call[h].req IN
  /\ Serving(h, "configure")
  /\ org[q.org].version = q.version /\ org[q.org].status = "ONBOARDING"
  /\ At(q.org, "ORGANIZATION_CREATED")
  /\ \A o \in Orgs : org[o].slug # q.slug
  /\ org' = [org EXCEPT ![q.org] = [status |-> @.status, version |-> @.version + 1,
                                      slug |-> q.slug, state |-> "WORKSPACE_CONFIGURED"]]
  /\ Done(h)
  /\ UNCHANGED <<member, invite, record>>

-----------------------------------------------------------------------------
(* Invitations of members.  An expired one still counts as open. *)
Open(o, u) == {i \in Invites : /\ invite[i].org = o /\ invite[i].email = u
                               /\ invite[i].status \in {"pending", "expired"}}

BeginInvitation(h, q) ==
  /\ q.op = "invite" /\ Passes(q, {"OWNER"}) /\ Recorded(q) = {}
  /\ org[q.org].state \in {"PORTFOLIO_REQUIRED", "READY_FOR_REVIEW", "ACTIVE"}
  /\ member[q.org][q.email] = NoValue
  /\ Serve(h, q, NoValue)

(* The open invitation of the address is revoked and a new one created; the  *)
(* membership of the address is not looked at again.                         *)
CommitInvitation(h) ==
  LET q == call[h].req
      free == {i \in Invites : invite[i].status = "none"}
  IN /\ Serving(h, "invite") /\ Recorded(q) = {} /\ free # {}
     /\ invite' = [i \in Invites |->
                     IF i = New(free) THEN [org |-> q.org, email |-> q.email, role |-> q.role,
                                            status |-> "pending"]
                     ELSE IF i \in Open(q.org, q.email) THEN [invite[i] EXCEPT !.status = "revoked"]
                     ELSE invite[i]]
     /\ Record(q, New(free))
     /\ Mail(h, New(free))
     /\ UNCHANGED <<org, member>>

BeginAcceptance(h, q) ==
  LET i == q.token IN
  /\ q.op = "accept" /\ Signed(q) /\ i \in mailbox
  /\ invite[i].status = "pending" /\ invite[i].email = Actor(q)
  /\ member[invite[i].org][Actor(q)] = NoValue
  /\ Serve(h, q, NoValue)

FaultyCommitAcceptance(h) ==
  LET i == call[h].req.token IN
  /\ Serving(h, "accept")
  /\ invite' = [invite EXCEPT ![i].status = "accepted"]
  /\ member' = [member EXCEPT ![invite[i].org][invite[i].email] = invite[i].role]
  /\ Done(h)
  /\ UNCHANGED <<org, record>>

(* One membership of a user in an organization is a unique index. *)
CommitAcceptance(h) ==
  LET i == call[h].req.token IN
  /\ Serving(h, "accept")
  /\ invite[i].status = "pending"
  /\ member[invite[i].org][invite[i].email] = NoValue
  /\ invite' = [invite EXCEPT ![i].status = "accepted"]
  /\ member' = [member EXCEPT ![invite[i].org][invite[i].email] = invite[i].role]
  /\ Done(h)
  /\ UNCHANGED <<org, record>>

(* The 72 hours of an invitation pass. *)
ExpireInvite(i) ==
  /\ invite[i].status = "pending"
  /\ invite' = [invite EXCEPT ![i].status = "expired"]
  /\ UNCHANGED <<org, member, record, call>>

-----------------------------------------------------------------------------
OrganizationsInit ==
  /\ org = [o \in Orgs |-> NoOrg]
  /\ member = [o \in Orgs |-> [u \in Users |-> NoValue]]
  /\ invite = [i \in Invites |-> [org |-> NoValue, email |-> NoValue, role |-> NoValue,
                                  status |-> "none"]]
  /\ record = {}

BeginOrganization(h, q) ==
  \/ BeginCreation(h, q) \/ BeginConfiguration(h, q)
  \/ BeginInvitation(h, q) \/ BeginAcceptance(h, q)
CommitOrganization(h) ==
  \/ CommitCreation(h) \/ CommitConfiguration(h)
  \/ CommitInvitation(h) \/ CommitAcceptance(h)

-----------------------------------------------------------------------------
(* Every variable has the values the schema and the handlers give it. *)
OrganizationsTypeOK ==
  /\ org \in [Orgs -> {NoOrg} \cup
       [status : {"ONBOARDING", "ACTIVE"}, version : 1..3, slug : Slugs \cup {NoValue},
        state : {Stages[i] : i \in 1..Len(Stages)}]]
  /\ member \in [Orgs -> [Users -> Guests \cup {"OWNER", NoValue}]]
  /\ \A i \in Invites :
       invite[i].status \in {"none", "pending", "expired", "accepted", "revoked"}

(* A guest is a member of an organization by exactly one invitation, which was      *)
(* delivered to the guest, was spent once and gave the role the guest holds; at     *)
(* most one invitation of an address is open, and each came of one recorded request.*)
InvitationsAdmitOnce ==
  \A o \in Orgs, u \in Users :
    LET accepted == {i \in Invites : /\ invite[i].org = o /\ invite[i].email = u
                                     /\ invite[i].status = "accepted"}
    IN /\ Cardinality(Open(o, u)) <= 1
       /\ Cardinality(accepted) = IF member[o][u] \in Guests THEN 1 ELSE 0
       /\ \A i \in accepted : i \in mailbox /\ invite[i].role = member[o][u]
       /\ \A i \in accepted \cup Open(o, u) :
            Cardinality({e \in record : e.req.op = "invite" /\ e.made = i}) = 1

=============================================================================
