--------------------------- MODULE WorkspaceProofs ---------------------------
(***************************************************************************)
(* Theorems about Workspace, for any users, tokens, sessions, organizations*)
(* and requests, and any number of handlers.                               *)
(***************************************************************************)
EXTENDS Workspace, FiniteSetTheorems, TLAPS

(* Every part of a state, with its shape.  A session names what opened it. *)
Origins == {"none", "verify", "login", "confirm"}
SessionRow ==
  [user : Users \cup {NoValue}, status : {"none", "fresh", "live", "revoked", "expired"},
   origin : Origins \X (Registrations \cup Enrollments \cup {NoValue}),
   parent : Sessions \cup {NoValue}]
ChallengeRow ==
  [user : Users \cup {NoValue}, status : {"none", "pending", "revoked", "consumed", "expired"}]
AccountRow == [status : {"NONE", "PENDING", "ACTIVE"}, password : Registrations \cup {NoValue}]
InviteRow ==
  [org : Orgs \cup {NoValue}, email : Users \cup {NoValue}, role : Guests \cup {NoValue},
   status : {"none", "pending", "expired", "accepted", "revoked"}]
States == {"ORGANIZATION_CREATED", "WORKSPACE_CONFIGURED", "MFA_REQUIRED",
           "PORTFOLIO_REQUIRED", "READY_FOR_REVIEW", "ACTIVE"}
OrgRow == [status : {"ONBOARDING", "ACTIVE"}, version : 1..3, slug : Slugs \cup {NoValue},
           state : States]
EnrollmentRow ==
  [user : Users \cup {NoValue}, org : Orgs \cup {NoValue},
   status : {"none", "pending", "revoked", "consumed"},
   expired : BOOLEAN, attempts : 0..AttemptLimit]
FactorRow == [status : {"none", "ACTIVE", "REVOKED"}, acknowledged : BOOLEAN]
Seen == AccountRow \cup {"NONE", "PENDING", "fresh", "live", NoValue} \cup Registrations \cup Invites
          \cup [state : States, pending : SUBSET Enrollments]
CallRow ==
  [stage : {"idle", "commit", "mail"}, req : Requests \cup {NoValue}, seen : Seen]

ShapeOK ==
  /\ account \in [Users -> AccountRow]
  /\ challenge \in [Registrations -> ChallengeRow]
  /\ session \in [Sessions -> SessionRow]
  /\ org \in [Orgs -> {NoOrg} \cup OrgRow]
  /\ member \in [Orgs -> [Users -> Guests \cup {"OWNER", NoValue}]]
  /\ invite \in [Invites -> InviteRow]
  /\ enrollment \in [Enrollments -> EnrollmentRow]
  /\ factor \in [Enrollments -> FactorRow]
  /\ property \subseteq Orgs
  /\ building \in [Orgs -> SUBSET Names]
  /\ unit \in [Orgs -> SUBSET Row]
  /\ call \in [Handlers -> CallRow]

-----------------------------------------------------------------------------
(* Tokens: a registration has one open token of an address, a password on     *)
(* file was mailed to its owner, and an account is active exactly when a      *)
(* delivered token of it was spent.                                           *)
Created(r) == challenge[r].status # "none"
TokensOK ==
  /\ \A r \in Registrations : Created(r) =>
       challenge[r].user \in Users /\ account[challenge[r].user].status # "NONE"
  /\ \A u \in Users : \A r, p \in Pending(u) : r = p
  /\ \A u \in Users : account[u].status # "NONE" =>
       /\ account[u].password \in Registrations
       /\ Created(account[u].password) /\ challenge[account[u].password].user = u
  /\ \A u \in Users : account[u].status = "ACTIVE" =>
       \E r \in Registrations : challenge[r].user = u /\ challenge[r].status = "consumed"
  /\ \A r \in Registrations : challenge[r].status = "consumed" =>
       r \in mailbox /\ account[challenge[r].user].status = "ACTIVE"

(* Sessions: what is unused is blank; a spent token opened one session of its *)
(* owner, and a login had a password that was mailed.                         *)
OpenedBy(via, s) == session[s].origin[1] = via
Vouched(s) ==
  LET r == session[s].origin[2] IN
  /\ r \in Registrations /\ Created(r) /\ r \in mailbox
  /\ challenge[r].user = session[s].user
  /\ OpenedBy("verify", s) => challenge[r].status = "consumed"
SessionsOK ==
  /\ \A s \in Sessions : session[s].status = "none" <=> OpenedBy("none", s)
  /\ \A s \in Sessions : session[s].status = "none" <=> session[s].user = NoValue
  /\ \A s, t \in Sessions :
       (OpenedBy("verify", s) \/ OpenedBy("confirm", s)) /\ session[s].origin = session[t].origin
         => s = t
  /\ \A s \in Sessions : OpenedBy("verify", s) \/ OpenedBy("login", s) => Vouched(s)
  /\ \A r \in Registrations : challenge[r].status = "consumed" =>
       \E s \in Sessions : session[s].origin = <<"verify", r>>

(* Organizations: the version follows the stage, the status the last stage,   *)
(* and what was not created has no members.                                   *)
Exists(o) == org[o].status # "NONE"
OrgsOK ==
  /\ \A o \in Orgs : ~Exists(o) => \A u \in Users : member[o][u] = NoValue
  /\ \A o \in Orgs : Exists(o) =>
       /\ org[o].status = "ACTIVE" <=> At(o, "ACTIVE")
       /\ At(o, "ORGANIZATION_CREATED") <=> org[o].slug = NoValue
       /\ org[o].version = IF At(o, "ORGANIZATION_CREATED") THEN 1
                           ELSE IF At(o, "ACTIVE") THEN 3 ELSE 2

(* Invitations: one record and at most one membership for each. *)
InviteRecords == {e \in record : e.req.op = "invite"}
Sent(i) == invite[i].status # "none"
Waiting(i) == invite[i].status \in {"pending", "expired"}
Accepted(i) == invite[i].status = "accepted"
Rivals(i, j) == invite[i].org = invite[j].org /\ invite[i].email = invite[j].email
InvitesOK ==
  /\ \A i \in Invites : Sent(i) =>
       /\ invite[i].org \in Orgs /\ Exists(invite[i].org)
       /\ invite[i].email \in Users /\ invite[i].role \in Guests
       /\ \E e \in InviteRecords : e.made = i
  /\ \A e \in InviteRecords : e.made \in Invites /\ Sent(e.made)
  /\ \A d, e \in InviteRecords : d.made = e.made => d = e
  /\ \A i, j \in Invites : Waiting(i) /\ Waiting(j) /\ Rivals(i, j) => i = j
  /\ \A i \in Invites : Accepted(i) =>
       i \in mailbox /\ member[invite[i].org][invite[i].email] = invite[i].role
  /\ \A i, j \in Invites : Accepted(i) /\ Accepted(j) /\ Rivals(i, j) => i = j
  /\ \A o \in Orgs, u \in Users : member[o][u] \in Guests =>
       \E i \in Invites : Accepted(i) /\ invite[i].org = o /\ invite[i].email = u

(* Enrolments: a factor for each that was consumed, with the session it       *)
(* opened in place of another one of its owner.                               *)
Begun(e) == enrollment[e].status # "none"
Confirms(s) ==
  LET e == session[s].origin[2]
      p == session[s].parent
  IN /\ e \in Enrollments /\ enrollment[e].status = "consumed"
     /\ session[s].user = enrollment[e].user
     /\ p \in Sessions /\ session[p].user = session[s].user /\ session[p].status = "revoked"
MfaOK ==
  /\ \A e \in Enrollments : ~Begun(e) => enrollment[e] = NoEnrollment
  /\ \A e \in Enrollments : Begun(e) =>
       /\ enrollment[e].user \in Users
       /\ enrollment[e].org \in Orgs /\ Exists(enrollment[e].org)
  /\ \A e \in Enrollments : enrollment[e].status = "consumed" <=> factor[e].status # "none"
  /\ \A e \in Enrollments : factor[e].status = "none" => ~factor[e].acknowledged
  /\ \A u \in Users : \A d, e \in ActiveFactors(u) : d = e
  /\ \A e \in Enrollments : enrollment[e].status = "consumed" =>
       /\ enrollment[e].attempts < AttemptLimit
       /\ \E s \in Sessions : session[s].origin = <<"confirm", e>>
  /\ \A s \in Sessions : OpenedBy("confirm", s) => Confirms(s)

(* Portfolio: what was made on record is disjoint and whole. *)
Makers == {"foundation", "unit", "import"}
Made(o) == {e \in record : e.req.op \in Makers /\ e.req.org = o}
DistinctCodes(rows) == \A r, s \in rows : r.code = s.code => r = s
PortfolioOK ==
  \A o \in Orgs :
    /\ \A e \in Made(o) : e.made \subseteq unit[o]
    /\ \A row \in unit[o] : \E e \in Made(o) : row \in e.made
    /\ \A d, e \in Made(o) : d # e => CodesOf(d.made) \cap CodesOf(e.made) = {}
    /\ IsFiniteSet(unit[o]) /\ DistinctCodes(unit[o])
    /\ \A row \in unit[o] : row.building \in building[o] \cup {NoValue}
    /\ o \in property <=> \E e \in Made(o) : e.req.op = "foundation"
    /\ o \notin property => Made(o) = {}
    /\ o \in property => unit[o] # {}

(* Progress: one acknowledged factor, one property and one activation for the *)
(* stages that need them.                                                     *)
Activations == {e \in record : e.req.op = "activate"}
ProgressOK ==
  /\ \A o \in Orgs : o \in property <=> org[o].state \in {"READY_FOR_REVIEW", "ACTIVE"}
  /\ \A e \in Enrollments : factor[e].acknowledged =>
       org[enrollment[e].org].state \in {"PORTFOLIO_REQUIRED", "READY_FOR_REVIEW", "ACTIVE"}
  /\ \A o \in Orgs : \A d, e \in Proven(o) : d = e
  /\ \A o \in Orgs : org[o].state \in {"PORTFOLIO_REQUIRED", "READY_FOR_REVIEW", "ACTIVE"} =>
       Proven(o) # {}
  /\ \A e \in Activations : e.req.org \in Orgs /\ org[e.req.org].status = "ACTIVE"
  /\ \A d, e \in Activations : d.req.org = e.req.org => d = e
  /\ \A o \in Orgs : org[o].status = "ACTIVE" => \E e \in Activations : e.req.org = o

(* What a request in service has checked and is still true of it: no step     *)
(* takes these back.                                                          *)
OfOrganization == {"configure", "invite", "enroll", "foundation", "building", "unit", "import",
                   "activate"}
OfEnrollment == {"confirm", "miss", "acknowledge"}
Known(q, seen) ==
  /\ q \in Requests
  /\ q.op = "register" => seen \in {"NONE", "PENDING"}
  /\ q.op = "verify" => Created(q.token) /\ q.token \in mailbox
  /\ q.op = "login" => /\ Created(q.password) /\ q.password \in mailbox
                       /\ challenge[q.password].user = q.user
  /\ q.op \notin {"register", "verify", "login"} => session[q.by].status # "none"
  /\ q.op \in OfOrganization => Exists(q.org)
  /\ q.op = "enroll" => seen \in [state : States, pending : SUBSET Enrollments]
  /\ q.op = "accept" => Sent(q.token) /\ q.token \in mailbox
  /\ q.op \in OfEnrollment => /\ Begun(q.enrollment)
                              /\ enrollment[q.enrollment].user = Actor(q)
  /\ q.op = "confirm" => seen \in {"fresh", "live"}
  /\ q.op = "acknowledge" => factor[q.enrollment].status # "none"
  /\ q.op \in {"building", "unit", "import"} => q.org \in property
  /\ q.op \in {"unit", "import"} =>
       /\ DistinctCodes(q.rows)
       /\ \A row \in q.rows : row.building \in building[q.org] \cup {NoValue}
CallsOK ==
  \A h \in Handlers : call[h].stage = "commit" => Known(call[h].req, call[h].seen)

WorkspaceInv == /\ ShapeOK /\ TokensOK /\ SessionsOK /\ OrgsOK /\ InvitesOK /\ MfaOK
                /\ PortfolioOK /\ ProgressOK /\ CallsOK

-----------------------------------------------------------------------------
(* What each kind of request carries. *)
LEMMA RequestShape ==
  ASSUME NEW q \in Requests
  PROVE  /\ q.op = "register" => q.user \in Users
         /\ q.op = "verify" => q.token \in Registrations
         /\ q.op = "login" => q.user \in Users /\ q.password \in Registrations
         /\ q.op \notin {"register", "verify", "login"} => q.by \in Sessions
         /\ q.op \in OfOrganization => q.org \in Orgs
         /\ q.op = "configure" => q.slug \in Slugs
         /\ q.op = "invite" => q.email \in Users /\ q.role \in Guests
         /\ q.op = "accept" => q.token \in Invites
         /\ q.op \in OfEnrollment => q.enrollment \in Enrollments
         /\ q.op = "foundation" => q.code \in Codes
         /\ q.op = "building" => q.name \in Names
BY WorkspaceAssumption DEF Request, OfOrganization, OfEnrollment

(* The rows of a request for units. *)
LEMMA RowsShape ==
  ASSUME NEW q \in Requests, q.op \in {"unit", "import"}
  PROVE  /\ q.rows \subseteq Row /\ IsFiniteSet(q.rows)
         /\ q.op = "unit" => DistinctCodes(q.rows)
<1>1. CASE q.op = "unit"
  <2>1. PICK row \in Row : q.rows = {row}
    BY <1>1, WorkspaceAssumption DEF Request
  <2> QED
    BY <2>1, <1>1, FS_Singleton DEF DistinctCodes
<1>2. CASE q.op = "import"
  <2>1. q.rows \in {rows \in SUBSET Row : IsFiniteSet(rows)}
    BY <1>2, WorkspaceAssumption DEF Request
  <2> QED
    BY <2>1, <1>2
<1> QED
  BY <1>1, <1>2

(* The entry of a command is new, and carries its kind and organization. *)
Entry(q, made, e) ==
  /\ record' = record \cup {e} /\ e \notin record
  /\ e.made = made /\ e.req.op = q.op
  /\ q.op # "create" => e.req.org = q.org

Filing == {"create", "invite", "foundation", "building", "unit", "import", "activate"}

(* Naming its user in a filed command changes neither its kind, key nor organization. *)
LEMMA RequestKeys ==
  ASSUME NEW q \in Requests, q.op \in Filing, NEW u
  PROVE  LET d == [q EXCEPT !.by = u] IN
         /\ d.op = q.op /\ d.by = u /\ d.key = q.key
         /\ q.op # "create" => d.org = q.org
<1>1. CASE q.op = "create"
  <2>1. q \in [op : {"create"}, by : Sessions, key : Keys]
    BY <1>1, WorkspaceAssumption DEF Request
  <2> QED
    BY <2>1, <1>1
<1>2. CASE q.op = "invite"
  <2>1. q \in [op : {"invite"}, by : Sessions, org : Orgs, key : Keys, email : Users, role : Guests]
    BY <1>2, WorkspaceAssumption DEF Request
  <2> QED
    BY <2>1, <1>2
<1>3. CASE q.op = "foundation"
  <2>1. q \in [op : {"foundation"}, by : Sessions, org : Orgs, key : Keys, code : Codes]
    BY <1>3, WorkspaceAssumption DEF Request
  <2> QED
    BY <2>1, <1>3
<1>4. CASE q.op = "building"
  <2>1. q \in [op : {"building"}, by : Sessions, org : Orgs, key : Keys, name : Names]
    BY <1>4, WorkspaceAssumption DEF Request
  <2> QED
    BY <2>1, <1>4
<1>5. CASE q.op = "unit"
  <2>1. q \in [op : {"unit"}, by : Sessions, org : Orgs, key : Keys, rows : {{row} : row \in Row}]
    BY <1>5, WorkspaceAssumption DEF Request
  <2> QED
    BY <2>1, <1>5
<1>6. CASE q.op = "import"
  <2>1. q \in [op : {"import"}, by : Sessions, org : Orgs, key : Keys \cup {NoValue},
               mode : {"DRY_RUN", "COMMIT"}, rows : {rows \in SUBSET Row : IsFiniteSet(rows)}]
    BY <1>6, WorkspaceAssumption DEF Request
  <2> QED
    BY <2>1, <1>6
<1>7. CASE q.op = "activate"
  <2>1. q \in [op : {"activate"}, by : Sessions, org : Orgs, key : Keys, version : Nat]
    BY <1>7, WorkspaceAssumption DEF Request
  <2> QED
    BY <2>1, <1>7
<1> QED
  BY <1>1, <1>2, <1>3, <1>4, <1>5, <1>6, <1>7 DEF Filing

(* A commit that records adds one entry, which is new. *)
LEMMA RecordFiles ==
  ASSUME NEW q \in Requests, q.op \in Filing, NEW made, Record(q, made), Recorded(q) = {}
  PROVE  \E e : Entry(q, made, e)
<1> DEFINE d == [q EXCEPT !.by = Actor(q)]
           e == [req |-> d, made |-> made]
<1>1. d.op = q.op /\ d.by = Actor(q) /\ d.key = q.key /\ (q.op # "create" => d.org = q.org)
  BY RequestKeys
<1>2. record' = record \cup {e}
  BY DEF Record
<1> HIDE DEF d
<1>3. e.req = d /\ e.made = made
  OBVIOUS
<1>4. e \notin record
  BY <1>1, <1>3 DEF Recorded
<1> QED
  BY <1>1, <1>2, <1>3, <1>4 DEF Entry

(* The values at rest. *)
LEMMA Blanks ==
  /\ Idle \in CallRow /\ NoEnrollment \in EnrollmentRow /\ NoFactor \in FactorRow
  /\ NoFactor.status = "none" /\ NoFactor.acknowledged = FALSE
  /\ NoEnrollment.status = "none" /\ NoEnrollment.attempts = 0 /\ NoEnrollment.org = NoValue
  /\ NoOrg.status = "NONE" /\ NoOrg.slug = NoValue /\ NoOrg.state = "NONE"
BY MfaAssumption DEF Idle, CallRow, Seen, NoEnrollment, EnrollmentRow, NoFactor, FactorRow, NoOrg

-----------------------------------------------------------------------------
(* What no step takes back. *)
Kept ==
  /\ \A r \in Registrations : Created(r) => Created(r)' /\ challenge'[r].user = challenge[r].user
  /\ mailbox \subseteq mailbox'
  /\ \A s \in Sessions : session[s].status # "none" =>
       /\ session'[s].status # "none" /\ session'[s].user = session[s].user
       /\ session'[s].origin = session[s].origin /\ session'[s].parent = session[s].parent
       /\ session[s].status = "revoked" => session'[s].status = "revoked"
  /\ \A o \in Orgs : Exists(o) => Exists(o)'
  /\ \A i \in Invites : Sent(i) => Sent(i)'
  /\ \A e \in Enrollments : Begun(e) =>
       /\ Begun(e)' /\ enrollment'[e].user = enrollment[e].user
       /\ enrollment'[e].org = enrollment[e].org
  /\ \A e \in Enrollments : factor[e].status # "none" => factor'[e].status # "none"
  /\ property \subseteq property'
  /\ \A o \in Orgs : building[o] \subseteq building'[o]

(* What a request knows survives a step of another one. *)
LEMMA KnowledgeLasts ==
  ASSUME Kept, NEW q, NEW seen, Known(q, seen)
  PROVE  Known(q, seen)'
<1>1. q \in Requests
  BY DEF Known
<1>2. q.op = "verify" => Created(q.token)' /\ q.token \in mailbox'
  BY <1>1, RequestShape DEF Known, Kept
<1>3. q.op = "login" => /\ Created(q.password)' /\ q.password \in mailbox'
                        /\ challenge'[q.password].user = q.user
  BY <1>1, RequestShape DEF Known, Kept
<1>4. q.op \notin {"register", "verify", "login"} =>
        session'[q.by].status # "none" /\ Actor(q)' = Actor(q)
  BY <1>1, RequestShape DEF Known, Kept, Actor
<1>5. q.op \in OfOrganization => Exists(q.org)'
  BY <1>1, RequestShape DEF Known, Kept
<1>6. q.op = "accept" => Sent(q.token)' /\ q.token \in mailbox'
  BY <1>1, RequestShape DEF Known, Kept
<1>7. q.op \in OfEnrollment => Begun(q.enrollment)' /\ enrollment'[q.enrollment].user = Actor(q)'
  BY <1>1, <1>4, RequestShape DEF Known, Kept, OfEnrollment
<1>8. q.op = "acknowledge" => factor'[q.enrollment].status # "none"
  BY <1>1, RequestShape DEF Known, Kept, OfEnrollment
<1>9. q.op \in {"building", "unit", "import"} => q.org \in property'
  BY <1>1 DEF Known, Kept
<1>10. q.op \in {"unit", "import"} =>
         \A row \in q.rows : row.building \in building'[q.org] \cup {NoValue}
  <2>1. q.op \in {"unit", "import"} => q.org \in Orgs
    BY <1>1, RequestShape DEF OfOrganization
  <2> QED
    BY <2>1 DEF Known, Kept
<1> QED
  BY <1>1, <1>2, <1>3, <1>4, <1>5, <1>6, <1>7, <1>8, <1>9, <1>10 DEF Known

(* A request that is not taking the step still knows what it has read. *)
LEMMA OthersKnow ==
  ASSUME ShapeOK, CallsOK, Kept, NEW h \in Handlers, NEW c \in CallRow,
         call' = [call EXCEPT ![h] = c],
         c.stage = "commit" => Known(c.req, c.seen)'
  PROVE  CallsOK'
<1> SUFFICES ASSUME NEW g \in Handlers, (call[g].stage = "commit")'
             PROVE  Known(call[g].req, call[g].seen)'
  BY DEF CallsOK
<1>1. CASE g = h
  <2>1. call'[g] = c
    BY <1>1 DEF ShapeOK
  <2> QED
    BY <2>1 DEF Known
<1>2. CASE g # h
  <2>1. call'[g] = call[g]
    BY <1>2 DEF ShapeOK
  <2>3. PICK q, seen : q = call[g].req /\ seen = call[g].seen
    OBVIOUS
  <2>4. Known(q, seen)
    BY <2>1, <2>3 DEF CallsOK
  <2>5. Known(q, seen)'
    BY <2>4, KnowledgeLasts
  <2> QED
    BY <2>1, <2>3, <2>5 DEF Known
<1> QED
  BY <1>1, <1>2

(* Reading writes no table. *)
tables == <<accountVars, organizationVars, mfaVars, portfolioVars>>

(* A step that writes no table keeps the invariant if the request it serves knows what it says. *)
LEMMA TablesAlone ==
  ASSUME WorkspaceInv, UNCHANGED tables, NEW h \in Handlers, NEW c \in CallRow,
         call' = [call EXCEPT ![h] = c],
         c.stage = "commit" => Known(c.req, c.seen)
  PROVE  WorkspaceInv'
<1> USE DEF tables, accountVars, organizationVars, mfaVars, portfolioVars
<1>1. Kept
  BY DEF Kept, Created, Exists, Sent, Begun
<1>2. c.stage = "commit" => Known(c.req, c.seen)'
  <2>1. PICK q, seen : q = c.req /\ seen = c.seen
    OBVIOUS
  <2> QED
    BY <1>1, <2>1, KnowledgeLasts
<1>3. CallsOK'
  BY <1>1, <1>2, OthersKnow DEF WorkspaceInv
<1>4. ShapeOK'
  BY DEF WorkspaceInv, ShapeOK
<1>5. TokensOK' /\ SessionsOK'
  <2>1. \A u \in Users : Pending(u)' = Pending(u)
    BY DEF Pending
  <2>2. TokensOK'
    BY <2>1 DEF WorkspaceInv, TokensOK, Created
  <2> QED
    BY <2>2 DEF WorkspaceInv, SessionsOK, OpenedBy, Vouched, Created
<1>6. OrgsOK' /\ InvitesOK'
  BY DEF WorkspaceInv, OrgsOK, InvitesOK, Exists, At, Sent, InviteRecords, Waiting, Accepted, Rivals
<1>7. MfaOK'
  <2>1. \A u \in Users : ActiveFactors(u)' = ActiveFactors(u)
    BY DEF ActiveFactors
  <2> QED
    BY <2>1 DEF WorkspaceInv, MfaOK, Begun, Exists, OpenedBy, Confirms
<1>8. PortfolioOK'
  BY DEF WorkspaceInv, PortfolioOK, Made
<1>9. ProgressOK'
  BY DEF WorkspaceInv, ProgressOK, Proven, Activations
<1> QED
  BY <1>3, <1>4, <1>5, <1>6, <1>7, <1>8, <1>9 DEF WorkspaceInv

(* Whoever passes a guard is a user signed in, of an organization that exists. *)
LEMMA SignedIn ==
  ASSUME ShapeOK, SessionsOK, NEW q, q.by \in Sessions, Signed(q)
  PROVE  /\ session[q.by].status \in {"fresh", "live"} /\ Actor(q) \in Users
BY DEF Signed, Live, ShapeOK, SessionsOK, SessionRow, Actor

(* Only an organization that exists has members. *)
LEMMA MembersExist ==
  ASSUME ShapeOK, OrgsOK, NEW o \in Orgs, NEW u \in Users, member[o][u] # NoValue
  PROVE  Exists(o)
BY DEF OrgsOK

(* A request begins with what it knows. *)
LEMMA ServesKnown ==
  ASSUME WorkspaceInv, UNCHANGED tables, NEW h \in Handlers, NEW q \in Requests, NEW seen \in Seen,
         Serve(h, q, seen), Known(q, seen)
  PROVE  WorkspaceInv'
<1> DEFINE c == [stage |-> "commit", req |-> q, seen |-> seen]
<1>1. c \in CallRow /\ call' = [call EXCEPT ![h] = c]
  BY DEF Serve, CallRow
<1> QED
  BY <1>1, TablesAlone

(* The requests of accounts know what they have read when they begin. *)
LEMMA BeginsAccount ==
  ASSUME WorkspaceInv, UNCHANGED tables, NEW h \in Handlers, NEW q \in Requests, BeginAccount(h, q)
  PROVE  WorkspaceInv'
<1> USE DEF WorkspaceInv
<1>0. NoValue \in Seen
  BY DEF Seen
<1>1. CASE BeginRegistration(h, q)
  <2>1. q.op = "register" /\ q.user \in Users
    BY <1>1, RequestShape DEF BeginRegistration
  <2>2. account[q.user].status \in {"NONE", "PENDING"}
    BY <1>1, <2>1 DEF BeginRegistration, ShapeOK, AccountRow
  <2>3. Known(q, account[q.user].status)
    BY <2>1, <2>2 DEF Known, OfOrganization, OfEnrollment
  <2>4. account[q.user].status \in Seen
    BY <2>2 DEF Seen
  <2> QED
    BY <1>1, <2>3, <2>4, ServesKnown DEF BeginRegistration
<1>2. CASE BeginVerification(h, q)
  <2>1. Known(q, NoValue)
    BY <1>2 DEF BeginVerification, Known, OfOrganization, OfEnrollment, Created
  <2> QED
    BY <1>0, <1>2, <2>1, ServesKnown DEF BeginVerification
<1>3. CASE BeginLogin(h, q)
  <2>1. q.op = "login" /\ q.user \in Users /\ q.password \in mailbox
    BY <1>3, RequestShape DEF BeginLogin
  <2>2. account[q.user].status = "ACTIVE" /\ account[q.user].password = q.password
    BY <1>3 DEF BeginLogin
  <2>3. Created(q.password) /\ challenge[q.password].user = q.user
    BY <2>1, <2>2 DEF TokensOK
  <2>4. Known(q, NoValue)
    BY <2>1, <2>3 DEF Known, OfOrganization, OfEnrollment
  <2> QED
    BY <1>0, <1>3, <2>4, ServesKnown DEF BeginLogin
<1>4. CASE BeginLogout(h, q)
  <2>1. q.op = "logout" /\ session[q.by].status # "none"
    BY <1>4 DEF BeginLogout, Live
  <2>2. Known(q, NoValue)
    BY <2>1 DEF Known, OfOrganization, OfEnrollment
  <2> QED
    BY <1>0, <1>4, <2>2, ServesKnown DEF BeginLogout
<1> QED
  BY <1>1, <1>2, <1>3, <1>4 DEF BeginAccount

(* The guard of a workspace admits members alone. *)
LEMMA Admitted ==
  ASSUME ShapeOK, SessionsOK, NEW q, q.by \in Sessions, q.org \in Orgs, NEW roles, Passes(q, roles)
  PROVE  Exists(q.org) /\ session[q.by].status # "none" /\ Actor(q) \in Users
<1>1. org[q.org].status # "NONE"
  BY OrganizationsAssumption DEF Passes
<1> QED
  BY <1>1, SignedIn DEF Passes, Exists

(* The requests of organizations know what they have read when they begin. *)
LEMMA BeginsOrganization ==
  ASSUME WorkspaceInv, UNCHANGED tables, NEW h \in Handlers, NEW q \in Requests,
         BeginOrganization(h, q)
  PROVE  WorkspaceInv'
<1> USE DEF WorkspaceInv
<1>0. NoValue \in Seen
  BY DEF Seen
<1>1. CASE BeginCreation(h, q)
  <2>1. q.op = "create" /\ session[q.by].status # "none"
    BY <1>1, RequestShape, SignedIn DEF BeginCreation
  <2>2. Known(q, NoValue)
    BY <2>1 DEF Known, OfOrganization, OfEnrollment
  <2> QED
    BY <1>0, <1>1, <2>2, ServesKnown DEF BeginCreation
<1>2. CASE BeginConfiguration(h, q)
  <2>1. q.op = "configure" /\ q.by \in Sessions /\ q.org \in Orgs /\ Passes(q, {"OWNER"})
    BY <1>2, RequestShape DEF BeginConfiguration, OfOrganization
  <2>2. Exists(q.org) /\ session[q.by].status # "none"
    BY <2>1, Admitted
  <2>3. Known(q, NoValue)
    BY <2>1, <2>2 DEF Known, OfEnrollment
  <2> QED
    BY <1>0, <1>2, <2>3, ServesKnown DEF BeginConfiguration
<1>3. CASE BeginInvitation(h, q)
  <2>1. q.op = "invite" /\ q.by \in Sessions /\ q.org \in Orgs /\ Passes(q, {"OWNER"})
    BY <1>3, RequestShape DEF BeginInvitation, OfOrganization
  <2>2. Exists(q.org) /\ session[q.by].status # "none"
    BY <2>1, Admitted
  <2>3. Known(q, NoValue)
    BY <2>1, <2>2 DEF Known, OfEnrollment
  <2> QED
    BY <1>0, <1>3, <2>3, ServesKnown DEF BeginInvitation
<1>4. CASE BeginAcceptance(h, q)
  <2>1. /\ q.op = "accept" /\ q.by \in Sessions /\ q.token \in mailbox /\ Sent(q.token)
        /\ session[q.by].status # "none"
    BY <1>4, RequestShape, SignedIn DEF BeginAcceptance, Sent
  <2>2. Known(q, NoValue)
    BY <2>1 DEF Known, OfOrganization, OfEnrollment
  <2> QED
    BY <1>0, <1>4, <2>2, ServesKnown DEF BeginAcceptance
<1> QED
  BY <1>1, <1>2, <1>3, <1>4 DEF BeginOrganization

(* The requests of enrolment know what they have read when they begin. *)
LEMMA BeginsMfa ==
  ASSUME WorkspaceInv, UNCHANGED tables, NEW h \in Handlers, NEW q \in Requests, BeginMfa(h, q)
  PROVE  WorkspaceInv'
<1> USE DEF WorkspaceInv
<1>0. NoValue \in Seen /\ "fresh" \in Seen /\ "live" \in Seen
  BY DEF Seen
<1>1. CASE BeginEnrollment(h, q)
  <2> DEFINE seen == [state |-> org[q.org].state, pending |-> PendingOf(Actor(q), q.org)]
  <2>1. /\ q.op = "enroll" /\ q.by \in Sessions /\ q.org \in Orgs /\ Signed(q)
        /\ member[q.org][Actor(q)] = "OWNER"
    BY <1>1, RequestShape DEF BeginEnrollment, OfOrganization
  <2>2. Exists(q.org) /\ session[q.by].status # "none"
    BY <2>1, SignedIn, MembersExist, OrganizationsAssumption
  <2>3. seen \in [state : States, pending : SUBSET Enrollments]
    BY <1>1 DEF BeginEnrollment, States, PendingOf
  <2>4. Known(q, seen) /\ seen \in Seen
    BY <2>1, <2>2, <2>3 DEF Known, OfEnrollment, Seen
  <2>5. Serve(h, q, seen)
    BY <1>1 DEF BeginEnrollment
  <2> QED
    BY <2>4, <2>5, ServesKnown
<1>2. CASE BeginConfirmation(h, q)
  <2>1. /\ q.op \in {"confirm", "miss"} /\ q.by \in Sessions /\ Signed(q)
        /\ enrollment[q.enrollment].user = Actor(q) /\ Begun(q.enrollment)
    BY <1>2, RequestShape DEF BeginConfirmation, Usable, Begun
  <2>2. session[q.by].status \in {"fresh", "live"}
    BY <2>1, SignedIn
  <2>3. Known(q, session[q.by].status)
    BY <2>1, <2>2 DEF Known, OfOrganization
  <2> QED
    BY <1>0, <1>2, <2>2, <2>3, ServesKnown DEF BeginConfirmation
<1>3. CASE BeginAcknowledgement(h, q)
  <2>1. /\ q.op = "acknowledge" /\ q.by \in Sessions /\ Signed(q) /\ q.enrollment \in Enrollments
        /\ enrollment[q.enrollment].user = Actor(q) /\ factor[q.enrollment].status = "ACTIVE"
    BY <1>3, RequestShape DEF BeginAcknowledgement, OfEnrollment
  <2>2. session[q.by].status # "none" /\ Begun(q.enrollment)
    BY <2>1, SignedIn DEF MfaOK, Begun
  <2>3. Known(q, NoValue)
    BY <2>1, <2>2 DEF Known, OfOrganization
  <2> QED
    BY <1>0, <1>3, <2>3, ServesKnown DEF BeginAcknowledgement
<1> QED
  BY <1>1, <1>2, <1>3 DEF BeginMfa

(* An import is of a file whose codes differ even without their case. *)
LEMMA FilesAreDistinct ==
  ASSUME NEW rows \in SUBSET Row, WellFormed(rows)
  PROVE  DistinctCodes(rows)
BY DEF WellFormed, DistinctCodes

(* The requests of the portfolio know what they have read when they begin. *)
LEMMA BeginsPortfolio ==
  ASSUME WorkspaceInv, UNCHANGED tables, NEW h \in Handlers, NEW q \in Requests,
         BeginPortfolio(h, q)
  PROVE  WorkspaceInv'
<1> USE DEF WorkspaceInv
<1>0. NoValue \in Seen
  BY DEF Seen
<1>1. ASSUME q.op \in {"building", "unit", "import"}, Established(q)
      PROVE  /\ q.by \in Sessions /\ q.org \in property
             /\ Exists(q.org) /\ session[q.by].status # "none"
  <2>1. q.by \in Sessions /\ q.org \in Orgs
    BY <1>1, RequestShape DEF OfOrganization
  <2> QED
    BY <1>1, <2>1, Admitted DEF Established
<1>2. CASE BeginFoundation(h, q)
  <2>1. q.op = "foundation" /\ q.by \in Sessions /\ q.org \in Orgs /\ Passes(q, Managers)
    BY <1>2, RequestShape DEF BeginFoundation, OfOrganization
  <2>2. Exists(q.org) /\ session[q.by].status # "none"
    BY <2>1, Admitted
  <2>3. Known(q, NoValue)
    BY <2>1, <2>2 DEF Known, OfEnrollment
  <2> QED
    BY <1>0, <1>2, <2>3, ServesKnown DEF BeginFoundation
<1>3. CASE BeginBuilding(h, q)
  <2>1. q.op = "building" /\ Established(q) /\ Serve(h, q, NoValue)
    BY <1>3 DEF BeginBuilding
  <2>2. Known(q, NoValue)
    BY <1>1, <2>1 DEF Known, OfEnrollment
  <2> QED
    BY <1>0, <2>1, <2>2, ServesKnown
<1>4. CASE BeginUnit(h, q)
  <2>1. /\ q.op = "unit" /\ Established(q) /\ Serve(h, q, NoValue)
        /\ \A row \in q.rows : row.building \in building[q.org] \cup {NoValue}
    BY <1>4 DEF BeginUnit
  <2>2. Known(q, NoValue)
    BY <1>1, <2>1, RowsShape DEF Known, OfEnrollment
  <2> QED
    BY <1>0, <2>1, <2>2, ServesKnown
<1>5. CASE BeginImport(h, q)
  <2>1. /\ q.op = "import" /\ Established(q) /\ Serve(h, q, NoValue) /\ WellFormed(q.rows)
        /\ \A row \in q.rows : row.building \in building[q.org] \cup {NoValue}
    BY <1>5 DEF BeginImport, Acceptable
  <2>2. DistinctCodes(q.rows)
    BY <2>1, RowsShape, FilesAreDistinct
  <2>3. Known(q, NoValue)
    BY <1>1, <2>1, <2>2 DEF Known, OfEnrollment
  <2> QED
    BY <1>0, <2>1, <2>3, ServesKnown
<1> QED
  BY <1>2, <1>3, <1>4, <1>5 DEF BeginPortfolio

(* An activation knows what it has read when it begins. *)
LEMMA BeginsActivation ==
  ASSUME WorkspaceInv, UNCHANGED tables, NEW h \in Handlers, NEW q \in Requests,
         BeginActivation(h, q)
  PROVE  WorkspaceInv'
<1> USE DEF WorkspaceInv
<1>1. NoValue \in Seen
  BY DEF Seen
<1>2. q.op = "activate" /\ q.by \in Sessions /\ q.org \in Orgs /\ Passes(q, {"OWNER"})
  BY RequestShape DEF BeginActivation, OfOrganization
<1>3. Exists(q.org) /\ session[q.by].status # "none"
  BY <1>2, Admitted
<1>4. Known(q, NoValue)
  BY <1>2, <1>3 DEF Known, OfEnrollment
<1> QED
  BY <1>1, <1>4, ServesKnown DEF BeginActivation

(* Beginning and leaving. *)
LEMMA QuietSteps ==
  ASSUME WorkspaceInv, NEW h \in Handlers, (\E q \in Requests : Begin(h, q)) \/ Leave(h)
  PROVE  WorkspaceInv'
<1>1. CASE \E q \in Requests : Begin(h, q)
  <2>1. PICK q \in Requests : Begin(h, q)
    BY <1>1
  <2> QED
    BY <2>1, BeginsAccount, BeginsOrganization, BeginsMfa, BeginsPortfolio, BeginsActivation
    DEF Begin, tables
<1>2. CASE Leave(h)
  <2>1. Idle.stage # "commit"
    BY DEF Idle
  <2> QED
    BY <1>2, <2>1, Blanks, TablesAlone DEF Leave, Done, tables
<1> QED
  BY <1>1, <1>2

-----------------------------------------------------------------------------
(* A part of the invariant stands while what it speaks of stays. *)
LEMMA TokensStand ==
  ASSUME TokensOK, UNCHANGED <<account, challenge>>, mailbox \subseteq mailbox'
  PROVE  TokensOK'
<1>1. \A u \in Users : Pending(u)' = Pending(u)
  BY DEF Pending
<1> QED
  BY <1>1 DEF TokensOK, Created

(* More mail leaves the sessions explained. *)
LEMMA SessionsStand ==
  ASSUME SessionsOK, UNCHANGED <<session, challenge>>, mailbox \subseteq mailbox'
  PROVE  SessionsOK'
BY DEF SessionsOK, OpenedBy, Vouched, Created

(* Organizations depend on their rows and members alone. *)
LEMMA OrgsStand ==
  ASSUME OrgsOK, UNCHANGED <<org, member>>
  PROVE  OrgsOK'
BY DEF OrgsOK, Exists, At

(* Invitations stand while no step takes back what they rest on. *)
LEMMA InvitesStand ==
  ASSUME InvitesOK, Kept, UNCHANGED invite, InviteRecords' = InviteRecords,
         \A o \in Orgs, u \in Users : \/ member'[o][u] = member[o][u]
                                      \/ member[o][u] \notin Guests /\ member'[o][u] \notin Guests
  PROVE  InvitesOK'
<1>1. \A i \in Invites : /\ Sent(i)' <=> Sent(i)
                         /\ Waiting(i)' <=> Waiting(i)
                         /\ Accepted(i)' <=> Accepted(i)
  BY DEF Sent, Waiting, Accepted
<1>2. \A i, j \in Invites : Rivals(i, j)' <=> Rivals(i, j)
  BY DEF Rivals
<1>3. ASSUME NEW i \in Invites, Sent(i)'
      PROVE  /\ invite'[i].org \in Orgs /\ Exists(invite[i].org)'
             /\ invite'[i].email \in Users /\ invite'[i].role \in Guests
             /\ \E e \in InviteRecords' : e.made = i
  BY <1>1, <1>3 DEF InvitesOK, Kept
<1>4. ASSUME NEW i \in Invites, Accepted(i)'
      PROVE  i \in mailbox' /\ member'[invite'[i].org][invite'[i].email] = invite'[i].role
  <2>1. Accepted(i) /\ Sent(i)
    BY <1>1, <1>4 DEF Accepted, Sent
  <2>2. /\ i \in mailbox /\ member[invite[i].org][invite[i].email] = invite[i].role
        /\ invite[i].org \in Orgs /\ invite[i].email \in Users /\ invite[i].role \in Guests
    BY <2>1 DEF InvitesOK
  <2> QED
    BY <2>2 DEF Kept
<1>5. ASSUME NEW o \in Orgs, NEW u \in Users, member'[o][u] \in Guests
      PROVE  \E i \in Invites : Accepted(i)' /\ invite'[i].org = o /\ invite'[i].email = u
  <2>1. member[o][u] \in Guests
    BY <1>5
  <2> QED
    BY <1>1, <2>1 DEF InvitesOK
<1> QED
  BY <1>1, <1>2, <1>3, <1>4, <1>5 DEF InvitesOK

(* Enrolments stand while no step opens a session for them or takes one back. *)
LEMMA MfaStands ==
  ASSUME SessionsOK, MfaOK, Kept, UNCHANGED <<enrollment, factor>>,
         \A s \in Sessions : session[s].status = "none" => session'[s].origin[1] # "confirm"
  PROVE  MfaOK'
<1>1. \A u \in Users : ActiveFactors(u)' = ActiveFactors(u)
  BY DEF ActiveFactors
<1>2. ASSUME NEW e \in Enrollments, enrollment'[e].status = "consumed"
      PROVE  \E s \in Sessions : session'[s].origin = <<"confirm", e>>
  <2>1. PICK s \in Sessions : session[s].origin = <<"confirm", e>>
    BY <1>2 DEF MfaOK
  <2>2. session[s].status # "none"
    BY <2>1 DEF SessionsOK, OpenedBy
  <2> QED
    BY <2>1, <2>2 DEF Kept
<1>3. ASSUME NEW s \in Sessions, OpenedBy("confirm", s)'
      PROVE  Confirms(s)'
  <2>1. session[s].status # "none"
    BY <1>3 DEF OpenedBy
  <2>2. /\ session'[s].origin = session[s].origin /\ session'[s].parent = session[s].parent
        /\ session'[s].user = session[s].user
    BY <2>1 DEF Kept
  <2>3. Confirms(s)
    BY <1>3, <2>2 DEF MfaOK, OpenedBy
  <2> QED
    BY <2>2, <2>3 DEF Kept, Confirms
<1>4. ASSUME NEW e \in Enrollments, Begun(e)'
      PROVE  /\ enrollment'[e].user \in Users
             /\ enrollment'[e].org \in Orgs /\ Exists(enrollment[e].org)'
  BY <1>4 DEF MfaOK, Kept, Begun
<1> QED
  BY <1>1, <1>2, <1>3, <1>4 DEF MfaOK, Begun

(* Units stand while the entries that made them do. *)
LEMMA PortfolioStands ==
  ASSUME PortfolioOK, UNCHANGED <<unit, property>>, \A o \in Orgs : Made(o)' = Made(o),
         \A o \in Orgs : building[o] \subseteq building'[o]
  PROVE  PortfolioOK'
BY DEF PortfolioOK

SameProgress(o) ==
  /\ org'[o].state \in {"READY_FOR_REVIEW", "ACTIVE"} <=>
       org[o].state \in {"READY_FOR_REVIEW", "ACTIVE"}
  /\ org'[o].state \in {"PORTFOLIO_REQUIRED", "READY_FOR_REVIEW", "ACTIVE"} <=>
       org[o].state \in {"PORTFOLIO_REQUIRED", "READY_FOR_REVIEW", "ACTIVE"}
  /\ org'[o].status = "ACTIVE" <=> org[o].status = "ACTIVE"

(* Progress stands while what earned it does. *)
LEMMA ProgressStands ==
  ASSUME ProgressOK, UNCHANGED property, Activations' = Activations,
         \A o \in Orgs : SameProgress(o),
         \A o \in Orgs : Proven(o)' = Proven(o),
         \A e \in Enrollments : factor'[e].acknowledged =>
           factor[e].acknowledged /\ enrollment'[e].org = enrollment[e].org,
         ShapeOK, MfaOK
  PROVE  ProgressOK'
<1>1. ASSUME NEW e \in Enrollments, factor'[e].acknowledged
      PROVE  org'[enrollment'[e].org].state \in {"PORTFOLIO_REQUIRED", "READY_FOR_REVIEW", "ACTIVE"}
  <2>1. factor[e].acknowledged /\ enrollment'[e].org = enrollment[e].org
    BY <1>1
  <2>2. enrollment[e].org \in Orgs
    BY <2>1 DEF MfaOK, Begun
  <2>3. org[enrollment[e].org].state \in {"PORTFOLIO_REQUIRED", "READY_FOR_REVIEW", "ACTIVE"}
    BY <2>1 DEF ProgressOK
  <2> QED
    BY <2>1, <2>2, <2>3 DEF SameProgress
<1>2. \A o \in Orgs : o \in property <=> org'[o].state \in {"READY_FOR_REVIEW", "ACTIVE"}
  BY DEF ProgressOK, SameProgress
<1>3. \A o \in Orgs : org'[o].state \in {"PORTFOLIO_REQUIRED", "READY_FOR_REVIEW", "ACTIVE"} =>
        Proven(o)' # {}
  BY DEF ProgressOK, SameProgress
<1>4. \A e \in Activations : e.req.org \in Orgs /\ org'[e.req.org].status = "ACTIVE"
  BY DEF ProgressOK, SameProgress
<1>5. \A o \in Orgs : org'[o].status = "ACTIVE" => \E e \in Activations : e.req.org = o
  BY DEF ProgressOK, SameProgress
<1> QED
  BY <1>1, <1>2, <1>3, <1>4, <1>5 DEF ProgressOK

-----------------------------------------------------------------------------
(* What a request in service is, when it comes to its commit, and afterwards. *)
LEMMA Served ==
  ASSUME CallsOK, NEW h \in Handlers, NEW op, Serving(h, op)
  PROVE  /\ Known(call[h].req, call[h].seen)
         /\ call[h].req \in Requests /\ call[h].req.op = op
BY DEF CallsOK, Serving, Known

(* A request that ends, or turns to its mail, leaves the others with what they know. *)
LEMMA CallsAfter ==
  ASSUME ShapeOK, CallsOK, Kept, NEW h \in Handlers,
         Done(h) \/ (\E token \in Registrations \cup Invites : Mail(h, token))
  PROVE  CallsOK' /\ call' \in [Handlers -> CallRow]
<1>1. CASE Done(h)
  <2>1. Idle \in CallRow /\ Idle.stage # "commit"
    BY Blanks DEF Idle
  <2>2. call' = [call EXCEPT ![h] = Idle]
    BY <1>1 DEF Done
  <2> QED
    BY <2>1, <2>2, OthersKnow DEF ShapeOK
<1>2. CASE \E token \in Registrations \cup Invites : Mail(h, token)
  <2>1. PICK token \in Registrations \cup Invites : Mail(h, token)
    BY <1>2
  <2> DEFINE c == [stage |-> "mail", req |-> NoValue, seen |-> token]
  <2>2. c \in CallRow /\ c.stage # "commit"
    BY DEF CallRow, Seen
  <2>3. call' = [call EXCEPT ![h] = c]
    BY <2>1 DEF Mail
  <2> QED
    BY <2>2, <2>3, OthersKnow DEF ShapeOK
<1> QED
  BY <1>1, <1>2

(* A new row is one of the free ones. *)
LEMMA NewIsOne ==
  ASSUME NEW S, S # {}
  PROVE  New(S) \in S
BY DEF New

-----------------------------------------------------------------------------
(* Accounts.  A commit of theirs leaves the parts of the workspace alone.     *)
workspaceVars == <<organizationVars, mfaVars, portfolioVars>>

(* What a commit of accounts leaves standing. *)
LEMMA WorkspaceStands ==
  ASSUME WorkspaceInv, Kept, UNCHANGED workspaceVars,
         \A s \in Sessions : session[s].status = "none" => session'[s].origin[1] # "confirm"
  PROVE  OrgsOK' /\ InvitesOK' /\ MfaOK' /\ PortfolioOK' /\ ProgressOK'
<1> USE DEF WorkspaceInv, workspaceVars, organizationVars, mfaVars, portfolioVars
<1>1. OrgsOK'
  BY OrgsStand
<1>2. InvitesOK'
  <2>1. InviteRecords' = InviteRecords
    BY DEF InviteRecords
  <2> QED
    BY <2>1, InvitesStand
<1>3. MfaOK'
  BY MfaStands
<1>4. PortfolioOK'
  <2>1. \A o \in Orgs : Made(o)' = Made(o)
    BY DEF Made
  <2> QED
    BY <2>1, PortfolioStands
<1>5. ProgressOK'
  <2>1. /\ Activations' = Activations
        /\ \A o \in Orgs : Proven(o)' = Proven(o) /\ SameProgress(o)
    BY DEF Activations, Proven, SameProgress
  <2> QED
    BY <2>1, ProgressStands
<1> QED
  BY <1>1, <1>2, <1>3, <1>4, <1>5

(* A registration, and the mail of its token, keep the invariant. *)
LEMMA RegistrationCommits ==
  ASSUME WorkspaceInv, NEW h \in Handlers, CommitRegistration(h), UNCHANGED workspaceVars
  PROVE  WorkspaceInv'
<1> USE DEF WorkspaceInv, workspaceVars, organizationVars, mfaVars, portfolioVars
<1> DEFINE free == {r \in Registrations : challenge[r].status = "none"}
<1>1. PICK u, n : /\ u = call[h].req.user /\ n = New(free)
  OBVIOUS
<1>2. u \in Users /\ n \in Registrations /\ challenge[n].status = "none"
  <2>1. u \in Users
    BY <1>1, Served, RequestShape DEF CommitRegistration
  <2>2. n \in free
    BY <1>1, NewIsOne DEF CommitRegistration
  <2> QED
    BY <2>1, <2>2
<1>3. /\ account' \in [Users -> AccountRow]
      /\ account'[u].password = n
      /\ account'[u].status = IF account[u].status = "NONE" THEN "PENDING" ELSE account[u].status
      /\ \A v \in Users : v # u => account'[v] = account[v]
  <2> DEFINE row == [status |-> IF account[u].status = "NONE" THEN "PENDING" ELSE account[u].status,
                     password |-> n]
  <2>1. account' = [account EXCEPT ![u] = row]
    BY <1>1 DEF CommitRegistration
  <2>2. row \in AccountRow
    BY <1>2 DEF ShapeOK, AccountRow
  <2>3. /\ row.password = n
        /\ row.status = IF account[u].status = "NONE" THEN "PENDING" ELSE account[u].status
    OBVIOUS
  <2> HIDE DEF row
  <2>4. account'[u] = row
    BY <1>2, <2>1 DEF ShapeOK
  <2> QED
    BY <1>2, <2>1, <2>2, <2>3, <2>4 DEF ShapeOK
<1>4. challenge' = [r \in Registrations |->
                      IF r = n THEN [user |-> u, status |-> "pending"]
                      ELSE IF r \in Pending(u) THEN [user |-> u, status |-> "revoked"]
                      ELSE challenge[r]]
  BY <1>1 DEF CommitRegistration
<1>5. challenge' \in [Registrations -> ChallengeRow]
  BY <1>2, <1>4 DEF ShapeOK, ChallengeRow
<1>6. /\ challenge'[n].user = u /\ challenge'[n].status = "pending"
      /\ \A r \in Registrations : r # n =>
           /\ challenge'[r].user = challenge[r].user
           /\ IF r \in Pending(u) THEN challenge'[r].status = "revoked"
              ELSE challenge'[r].status = challenge[r].status
  BY <1>2, <1>4 DEF Pending
<1>7. UNCHANGED <<session, mailbox>> /\ Mail(h, n)
  BY <1>1 DEF CommitRegistration
<1> HIDE DEF free
<1>8. Kept
  BY <1>2, <1>6, <1>7 DEF Kept, Created, Exists, Sent, Begun, Pending
<1>9. CallsOK' /\ call' \in [Handlers -> CallRow]
  BY <1>2, <1>7, <1>8, CallsAfter
<1>10. ShapeOK'
  BY <1>3, <1>5, <1>7, <1>9 DEF ShapeOK
<1>11. TokensOK'
  <2>1. ASSUME NEW r \in Registrations, Created(r)'
        PROVE  challenge'[r].user \in Users /\ account'[challenge'[r].user].status # "NONE"
    <3>1. CASE r = n
      BY <1>2, <1>3, <1>6, <3>1
    <3>2. CASE r # n
      <4>1. Created(r) /\ challenge'[r].user = challenge[r].user
        BY <1>6, <2>1, <3>2 DEF Created, Pending
      <4>2. challenge[r].user \in Users /\ account[challenge[r].user].status # "NONE"
        BY <4>1 DEF TokensOK
      <4> QED
        BY <1>3, <4>1, <4>2
    <3> QED
      BY <3>1, <3>2
  <2>2. ASSUME NEW v \in Users, NEW r \in Pending(v)', NEW p \in Pending(v)' PROVE r = p
    <3>1. /\ r \in Registrations /\ challenge'[r].user = v /\ challenge'[r].status = "pending"
          /\ p \in Registrations /\ challenge'[p].user = v /\ challenge'[p].status = "pending"
      BY DEF Pending
    <3>2. CASE v = u
      BY <1>6, <3>1, <3>2 DEF Pending
    <3>3. CASE v # u
      <4>1. r \in Pending(v) /\ p \in Pending(v)
        BY <1>6, <3>1, <3>3 DEF Pending
      <4> QED
        BY <4>1 DEF TokensOK
    <3> QED
      BY <3>2, <3>3
  <2>3. ASSUME NEW v \in Users, account'[v].status # "NONE"
        PROVE  /\ account'[v].password \in Registrations
               /\ Created(account[v].password)' /\ challenge'[account'[v].password].user = v
    <3>1. CASE v = u
      BY <1>2, <1>3, <1>6, <3>1 DEF Created
    <3>2. CASE v # u
      BY <1>3, <1>8, <2>3, <3>2 DEF TokensOK, Kept, Created
    <3> QED
      BY <3>1, <3>2
  <2>4. \A r \in Registrations : challenge'[r].status = "consumed" <=> challenge[r].status = "consumed"
    BY <1>2, <1>6 DEF Pending
  <2>5. \A v \in Users : account'[v].status = "ACTIVE" <=> account[v].status = "ACTIVE"
    BY <1>3
  <2>6. ASSUME NEW v \in Users, account'[v].status = "ACTIVE"
        PROVE  \E r \in Registrations : challenge'[r].user = v /\ challenge'[r].status = "consumed"
    BY <1>8, <2>4, <2>5, <2>6 DEF TokensOK, Kept, Created
  <2>7. ASSUME NEW r \in Registrations, challenge'[r].status = "consumed"
        PROVE  r \in mailbox' /\ account'[challenge'[r].user].status = "ACTIVE"
    <3>1. challenge[r].status = "consumed" /\ challenge'[r].user = challenge[r].user
      BY <1>8, <2>4, <2>7 DEF Kept, Created
    <3>2. r \in mailbox /\ challenge[r].user \in Users /\ account[challenge[r].user].status = "ACTIVE"
      BY <3>1 DEF TokensOK, Created
    <3> QED
      BY <1>7, <2>5, <3>1, <3>2
  <2> QED
    BY <2>1, <2>2, <2>3, <2>6, <2>7 DEF TokensOK
<1>12. SessionsOK'
  <2>1. \A r \in Registrations : challenge'[r].status = "consumed" <=> challenge[r].status = "consumed"
    BY <1>2, <1>6 DEF Pending
  <2>2. \A r \in Registrations : Created(r) => Created(r)' /\ challenge'[r].user = challenge[r].user
    BY <1>8 DEF Kept
  <2>3. ASSUME NEW s \in Sessions, OpenedBy("verify", s) \/ OpenedBy("login", s)
        PROVE  Vouched(s)'
    <3>1. Vouched(s)
      BY <2>3 DEF SessionsOK
    <3> QED
      BY <1>7, <2>1, <2>2, <3>1 DEF Vouched, OpenedBy
  <2> QED
    BY <1>7, <2>1, <2>3 DEF SessionsOK, OpenedBy
<1>13. OrgsOK' /\ InvitesOK' /\ MfaOK' /\ PortfolioOK' /\ ProgressOK'
  <2>1. \A s \in Sessions : session[s].status = "none" => session'[s].origin[1] # "confirm"
    BY <1>7 DEF SessionsOK, OpenedBy
  <2> QED
    BY <1>8, <2>1, WorkspaceStands
<1> QED
  BY <1>9, <1>10, <1>11, <1>12, <1>13

(* Opening a session in an unused row. *)
LEMMA Opens ==
  ASSUME ShapeOK, NEW s \in Unused, NEW u \in Users, NEW status \in {"fresh", "live"},
         NEW via \in Origins, NEW of \in Registrations \cup Enrollments,
         NEW parent \in Sessions \cup {NoValue}
  PROVE  LET new == Opened(s, u, status, via, of, parent) IN
         /\ new \in [Sessions -> SessionRow]
         /\ new[s].user = u /\ new[s].status = status /\ new[s].origin = <<via, of>>
         /\ new[s].origin[1] = via /\ new[s].origin[2] = of /\ new[s].parent = parent
         /\ \A t \in Sessions : t # s => new[t] = session[t]
<1> DEFINE row == [user |-> u, status |-> status, origin |-> <<via, of>>, parent |-> parent]
<1>1. s \in Sessions
  BY DEF Unused
<1>2. /\ row.user = u /\ row.status = status /\ row.origin = <<via, of>> /\ row.parent = parent
      /\ row.origin[1] = via /\ row.origin[2] = of
  OBVIOUS
<1>3. row \in SessionRow
  BY DEF SessionRow
<1>4. Opened(s, u, status, via, of, parent) = [session EXCEPT ![s] = row]
  BY DEF Opened
<1> HIDE DEF row
<1> QED
  BY <1>1, <1>2, <1>3, <1>4 DEF ShapeOK

(* A session opened by a login or a verification is vouched for. *)
LEMMA VerificationCommits ==
  ASSUME WorkspaceInv, NEW h \in Handlers, CommitVerification(h), UNCHANGED workspaceVars
  PROVE  WorkspaceInv'
<1> USE DEF WorkspaceInv, workspaceVars, organizationVars, mfaVars, portfolioVars
<1>1. PICK r, n, u : r = call[h].req.token /\ n = New(Unused) /\ u = challenge[call[h].req.token].user
  OBVIOUS
<1>2. /\ r \in Registrations /\ r \in mailbox /\ challenge[r].status = "pending"
      /\ u = challenge[r].user /\ u \in Users
      /\ n \in Sessions /\ n \in Unused /\ session[n].status = "none"
  <2>1. r \in Registrations /\ r \in mailbox
    BY <1>1, Served, RequestShape DEF CommitVerification, Known
  <2>2. challenge[r].status = "pending"
    BY <1>1 DEF CommitVerification
  <2>3. n \in Unused
    BY <1>1, NewIsOne DEF CommitVerification
  <2>4. u \in Users
    BY <1>1, <2>1, <2>2 DEF TokensOK, Created
  <2> QED
    BY <1>1, <2>1, <2>2, <2>3, <2>4 DEF Unused
<1>3. /\ challenge' = [challenge EXCEPT ![r].status = "consumed"]
      /\ account' = [account EXCEPT ![u].status = "ACTIVE"]
      /\ session' = Opened(n, u, "fresh", "verify", r, NoValue)
      /\ Done(h) /\ UNCHANGED mailbox
  BY <1>1 DEF CommitVerification
<1>4. /\ challenge' \in [Registrations -> ChallengeRow]
      /\ challenge'[r].status = "consumed" /\ challenge'[r].user = u
      /\ \A p \in Registrations : p # r => challenge'[p] = challenge[p]
  BY <1>2, <1>3 DEF ShapeOK, ChallengeRow
<1>5. /\ account' \in [Users -> AccountRow]
      /\ account'[u].status = "ACTIVE" /\ account'[u].password = account[u].password
      /\ \A v \in Users : v # u => account'[v] = account[v]
  BY <1>2, <1>3 DEF ShapeOK, AccountRow
<1>6. /\ session' \in [Sessions -> SessionRow]
      /\ session'[n].user = u /\ session'[n].status = "fresh" /\ session'[n].origin = <<"verify", r>>
      /\ session'[n].origin[1] = "verify" /\ session'[n].origin[2] = r
      /\ \A t \in Sessions : t # n => session'[t] = session[t]
  BY <1>2, <1>3, Opens DEF Origins
<1>7. Kept
  BY <1>2, <1>3, <1>4, <1>6 DEF Kept, Created, Exists, Sent, Begun
<1>8. CallsOK' /\ call' \in [Handlers -> CallRow]
  BY <1>3, <1>7, CallsAfter
<1>9. ShapeOK'
  BY <1>4, <1>5, <1>6, <1>8 DEF ShapeOK
<1>10. TokensOK'
  <2>1. ASSUME NEW p \in Registrations, Created(p)'
        PROVE  challenge'[p].user \in Users /\ account'[challenge'[p].user].status # "NONE"
    <3>1. Created(p) /\ challenge'[p].user = challenge[p].user
      BY <1>2, <1>4, <2>1 DEF Created
    <3>2. challenge[p].user \in Users /\ account[challenge[p].user].status # "NONE"
      BY <3>1 DEF TokensOK
    <3> QED
      BY <1>5, <3>1, <3>2
  <2>2. ASSUME NEW v \in Users, NEW p \in Pending(v)', NEW d \in Pending(v)' PROVE p = d
    <3>1. p \in Pending(v) /\ d \in Pending(v)
      BY <1>4 DEF Pending
    <3> QED
      BY <3>1 DEF TokensOK
  <2>3. account[u].status # "NONE"
    BY <1>2 DEF TokensOK, Created
  <2>4. ASSUME NEW v \in Users, account'[v].status # "NONE"
        PROVE  /\ account'[v].password \in Registrations
               /\ Created(account[v].password)' /\ challenge'[account'[v].password].user = v
    <3>1. account[v].status # "NONE" /\ account'[v].password = account[v].password
      BY <1>5, <2>3, <2>4
    <3>2. /\ account[v].password \in Registrations
          /\ Created(account[v].password) /\ challenge[account[v].password].user = v
      BY <3>1 DEF TokensOK
    <3> QED
      BY <1>2, <1>4, <3>1, <3>2 DEF Created
  <2>5. ASSUME NEW v \in Users, account'[v].status = "ACTIVE"
        PROVE  \E p \in Registrations : challenge'[p].user = v /\ challenge'[p].status = "consumed"
    <3>1. CASE v = u
      BY <1>2, <1>4, <3>1
    <3>2. CASE v # u
      <4>1. PICK p \in Registrations : challenge[p].user = v /\ challenge[p].status = "consumed"
        BY <1>5, <2>5, <3>2 DEF TokensOK
      <4> QED
        BY <1>2, <1>4, <4>1
    <3> QED
      BY <3>1, <3>2
  <2>6. ASSUME NEW p \in Registrations, challenge'[p].status = "consumed"
        PROVE  p \in mailbox' /\ account'[challenge'[p].user].status = "ACTIVE"
    <3>1. CASE p = r
      BY <1>2, <1>3, <1>4, <1>5, <3>1
    <3>2. CASE p # r
      <4>1. /\ p \in mailbox /\ account[challenge[p].user].status = "ACTIVE"
            /\ challenge[p].user \in Users /\ challenge'[p] = challenge[p]
        BY <1>4, <2>6, <3>2 DEF TokensOK, Created
      <4> QED
        BY <1>3, <1>5, <4>1
    <3> QED
      BY <3>1, <3>2
  <2> QED
    BY <2>1, <2>2, <2>4, <2>5, <2>6 DEF TokensOK
<1>11. SessionsOK'
  <2>1. ASSUME NEW s \in Sessions, OpenedBy("verify", s)' \/ OpenedBy("login", s)'
        PROVE  Vouched(s)'
    <3>1. CASE s = n
      BY <1>2, <1>3, <1>4, <1>6, <3>1 DEF Vouched, Created
    <3>2. CASE s # n
      <4>1. session'[s] = session[s]
        BY <1>6, <3>2
      <4>2. Vouched(s)
        BY <2>1, <4>1 DEF SessionsOK, OpenedBy
      <4> QED
        BY <1>2, <1>3, <1>4, <1>7, <4>1, <4>2 DEF Vouched, OpenedBy, Kept
    <3> QED
      BY <3>1, <3>2
  <2>2. ASSUME NEW s \in Sessions
        PROVE  /\ session'[s].status = "none" <=> OpenedBy("none", s)'
               /\ session'[s].status = "none" <=> session'[s].user = NoValue
    BY <1>2, <1>6, OrganizationsAssumption DEF SessionsOK, OpenedBy
  <2>3. ASSUME NEW t \in Sessions, t # n PROVE session'[t].origin # <<"verify", r>>
    <3>1. SUFFICES ASSUME session[t].origin = <<"verify", r>> PROVE FALSE
      BY <1>6, <2>3
    <3>2. Vouched(t) /\ OpenedBy("verify", t)
      BY <3>1 DEF SessionsOK, OpenedBy
    <3> QED
      BY <1>2, <3>1, <3>2 DEF Vouched
  <2>4. ASSUME NEW s \in Sessions, NEW t \in Sessions, session'[s].origin = session'[t].origin,
               OpenedBy("verify", s)' \/ OpenedBy("confirm", s)'
        PROVE  s = t
    BY <1>6, <2>3, <2>4 DEF SessionsOK, OpenedBy
  <2>5. ASSUME NEW p \in Registrations, challenge'[p].status = "consumed"
        PROVE  \E s \in Sessions : session'[s].origin = <<"verify", p>>
    <3>1. CASE p = r
      BY <1>2, <1>6, <3>1
    <3>2. CASE p # r
      <4>1. PICK s \in Sessions : session[s].origin = <<"verify", p>>
        BY <1>4, <2>5, <3>2 DEF SessionsOK
      <4>2. session[s].status # "none"
        BY <4>1 DEF SessionsOK, OpenedBy
      <4> QED
        BY <1>2, <1>6, <4>1, <4>2
    <3> QED
      BY <3>1, <3>2
  <2> QED
    BY <2>1, <2>2, <2>4, <2>5 DEF SessionsOK
<1>12. OrgsOK' /\ InvitesOK' /\ MfaOK' /\ PortfolioOK' /\ ProgressOK'
  <2>1. \A s \in Sessions : session[s].status = "none" => session'[s].origin[1] # "confirm"
    BY <1>6 DEF SessionsOK, OpenedBy
  <2> QED
    BY <1>7, <2>1, WorkspaceStands
<1> QED
  BY <1>8, <1>9, <1>10, <1>11, <1>12

(* A login opens one session, with the password it was checked against. *)
LEMMA LoginCommits ==
  ASSUME WorkspaceInv, NEW h \in Handlers, CommitLogin(h), UNCHANGED workspaceVars
  PROVE  WorkspaceInv'
<1> USE DEF WorkspaceInv, workspaceVars, organizationVars, mfaVars, portfolioVars
<1>1. PICK r, n, u : r = call[h].req.password /\ n = New(Unused) /\ u = call[h].req.user
  OBVIOUS
<1>2. /\ r \in Registrations /\ r \in mailbox /\ Created(r)
      /\ u = challenge[r].user /\ u \in Users
      /\ n \in Sessions /\ n \in Unused /\ session[n].status = "none"
  <2>1. r \in Registrations /\ r \in mailbox /\ Created(r) /\ u = challenge[r].user /\ u \in Users
    BY <1>1, Served, RequestShape DEF CommitLogin, Known
  <2>2. n \in Unused
    BY <1>1, NewIsOne DEF CommitLogin
  <2> QED
    BY <2>1, <2>2 DEF Unused
<1>3. /\ session' = Opened(n, u, "fresh", "login", r, NoValue)
      /\ Done(h) /\ UNCHANGED <<account, challenge, mailbox>>
  BY <1>1 DEF CommitLogin
<1>4. /\ session' \in [Sessions -> SessionRow]
      /\ session'[n].user = u /\ session'[n].status = "fresh"
      /\ session'[n].origin[1] = "login" /\ session'[n].origin[2] = r
      /\ \A t \in Sessions : t # n => session'[t] = session[t]
  BY <1>2, <1>3, Opens DEF Origins
<1>5. Kept
  BY <1>2, <1>3, <1>4 DEF Kept, Created, Exists, Sent, Begun
<1>6. CallsOK' /\ call' \in [Handlers -> CallRow]
  BY <1>3, <1>5, CallsAfter
<1>7. ShapeOK'
  BY <1>3, <1>4, <1>6 DEF ShapeOK
<1>8. TokensOK'
  BY <1>3, TokensStand
<1>9. SessionsOK'
  <2>1. ASSUME NEW s \in Sessions, OpenedBy("verify", s)' \/ OpenedBy("login", s)'
        PROVE  Vouched(s)'
    <3>1. CASE s = n
      BY <1>2, <1>3, <1>4, <3>1 DEF Vouched, Created, OpenedBy
    <3>2. CASE s # n
      <4>1. session'[s] = session[s]
        BY <1>4, <3>2
      <4>2. Vouched(s)
        BY <2>1, <4>1 DEF SessionsOK, OpenedBy
      <4> QED
        BY <1>3, <4>1, <4>2 DEF Vouched, OpenedBy, Created
    <3> QED
      BY <3>1, <3>2
  <2>2. ASSUME NEW s \in Sessions
        PROVE  /\ session'[s].status = "none" <=> OpenedBy("none", s)'
               /\ session'[s].status = "none" <=> session'[s].user = NoValue
    BY <1>2, <1>4, OrganizationsAssumption DEF SessionsOK, OpenedBy
  <2>3. ASSUME NEW s \in Sessions, NEW t \in Sessions, session'[s].origin = session'[t].origin,
               OpenedBy("verify", s)' \/ OpenedBy("confirm", s)'
        PROVE  s = t
    <3>1. s # n /\ t # n
      BY <1>4, <2>3 DEF OpenedBy
    <3> QED
      BY <1>4, <2>3, <3>1 DEF SessionsOK, OpenedBy
  <2>4. ASSUME NEW p \in Registrations, challenge'[p].status = "consumed"
        PROVE  \E s \in Sessions : session'[s].origin = <<"verify", p>>
    <3>1. PICK s \in Sessions : session[s].origin = <<"verify", p>>
      BY <1>3, <2>4 DEF SessionsOK
    <3>2. session[s].status # "none"
      BY <3>1 DEF SessionsOK, OpenedBy
    <3> QED
      BY <1>2, <1>4, <3>1, <3>2
  <2> QED
    BY <2>1, <2>2, <2>3, <2>4 DEF SessionsOK
<1>10. OrgsOK' /\ InvitesOK' /\ MfaOK' /\ PortfolioOK' /\ ProgressOK'
  <2>1. \A s \in Sessions : session[s].status = "none" => session'[s].origin[1] # "confirm"
    BY <1>4 DEF SessionsOK, OpenedBy
  <2> QED
    BY <1>5, <2>1, WorkspaceStands
<1> QED
  BY <1>6, <1>7, <1>8, <1>9, <1>10

(* A session that only changes its status, but not to or from unused. *)
StatusMoved(n, status) ==
  /\ session' \in [Sessions -> SessionRow]
  /\ session'[n].status = status
  /\ \A s \in Sessions : /\ session'[s].user = session[s].user
                         /\ session'[s].origin = session[s].origin
                         /\ session'[s].parent = session[s].parent
                         /\ s # n => session'[s].status = session[s].status

(* An EXCEPT on the status of a session moves that status and nothing else. *)
LEMMA StatusMoves ==
  ASSUME ShapeOK, NEW n \in Sessions, NEW status \in {"live", "revoked", "expired"},
         session' = [session EXCEPT ![n].status = status]
  PROVE  StatusMoved(n, status)
BY DEF ShapeOK, SessionRow, StatusMoved

(* A session that is used, revoked or expires keeps the invariant. *)
LEMMA StatusChanges ==
  ASSUME WorkspaceInv, UNCHANGED <<account, challenge, mailbox>>, UNCHANGED workspaceVars,
         NEW n \in Sessions, session[n].status # "none",
         NEW status \in {"live", "revoked", "expired"},
         session[n].status = "revoked" => status = "revoked",
         StatusMoved(n, status),
         Kept => CallsOK' /\ call' \in [Handlers -> CallRow]
  PROVE  WorkspaceInv'
<1> USE DEF WorkspaceInv, workspaceVars, organizationVars, mfaVars, portfolioVars
<1>1. /\ session' \in [Sessions -> SessionRow]
      /\ session'[n].status = status
      /\ \A s \in Sessions : /\ session'[s].user = session[s].user
                             /\ session'[s].origin = session[s].origin
                             /\ session'[s].parent = session[s].parent
                             /\ s # n => session'[s].status = session[s].status
  BY DEF StatusMoved
<1>2. Kept
  <2>1. \A s \in Sessions : /\ session[s].status # "none" => session'[s].status # "none"
                            /\ session[s].status = "revoked" => session'[s].status = "revoked"
    BY <1>1
  <2> QED
    BY <1>1, <2>1 DEF Kept, Created, Exists, Sent, Begun
<1>3. ShapeOK' /\ CallsOK'
  BY <1>1, <1>2 DEF ShapeOK
<1>4. TokensOK'
  BY TokensStand
<1>5. SessionsOK'
  <2>1. \A s \in Sessions : session'[s].status = "none" <=> session[s].status = "none"
    BY <1>1
  <2>2. ASSUME NEW s \in Sessions, OpenedBy("verify", s)' \/ OpenedBy("login", s)'
        PROVE  Vouched(s)'
    <3>1. Vouched(s)
      BY <1>1, <2>2 DEF SessionsOK, OpenedBy
    <3> QED
      BY <1>1, <3>1 DEF Vouched, OpenedBy, Created
  <2>3. \A via : \A s \in Sessions : OpenedBy(via, s)' <=> OpenedBy(via, s)
    BY <1>1 DEF OpenedBy
  <2>4. ASSUME NEW s \in Sessions, NEW t \in Sessions, session'[s].origin = session'[t].origin,
               OpenedBy("verify", s) \/ OpenedBy("confirm", s)
        PROVE  s = t
    BY <1>1, <2>4 DEF SessionsOK
  <2>5. \A r \in Registrations : challenge'[r].status = "consumed" =>
          \E s \in Sessions : session'[s].origin = <<"verify", r>>
    BY <1>1 DEF SessionsOK
  <2> QED
    BY <1>1, <2>1, <2>2, <2>3, <2>4, <2>5 DEF SessionsOK
<1>6. OrgsOK' /\ InvitesOK' /\ MfaOK' /\ PortfolioOK' /\ ProgressOK'
  <2>1. \A s \in Sessions : session[s].status = "none" => session'[s].origin[1] # "confirm"
    BY <1>1 DEF SessionsOK, OpenedBy
  <2> QED
    BY <1>2, <2>1, WorkspaceStands
<1> QED
  BY <1>3, <1>4, <1>5, <1>6

(* A logout keeps the invariant. *)
LEMMA LogoutCommits ==
  ASSUME WorkspaceInv, NEW h \in Handlers, CommitLogout(h), UNCHANGED workspaceVars
  PROVE  WorkspaceInv'
<1> USE DEF WorkspaceInv
<1>1. PICK n : n = call[h].req.by
  OBVIOUS
<1>2. n \in Sessions /\ session[n].status # "none"
  BY <1>1, Served, RequestShape DEF CommitLogout, Known
<1>3. /\ session' = [session EXCEPT ![n].status = "revoked"] /\ Done(h)
      /\ UNCHANGED <<account, challenge, mailbox>>
  BY <1>1 DEF CommitLogout
<1>4. Kept => CallsOK' /\ call' \in [Handlers -> CallRow]
  BY <1>3, CallsAfter
<1>5. StatusMoved(n, "revoked")
  BY <1>2, <1>3, StatusMoves
<1> QED
  BY <1>2, <1>3, <1>4, <1>5, StatusChanges

(* Mail arrives, and time passes. *)
LEMMA MailArrives ==
  ASSUME WorkspaceInv, NEW h \in Handlers, Deliver(h)
  PROVE  WorkspaceInv'
<1> USE DEF WorkspaceInv, workspaceVars, organizationVars, mfaVars, portfolioVars
<1>1. /\ mailbox \subseteq mailbox' /\ Done(h) /\ UNCHANGED <<account, challenge, session>>
      /\ UNCHANGED workspaceVars
  BY DEF Deliver, SendMail
<1>2. Kept
  BY <1>1 DEF Kept, Created, Exists, Sent, Begun
<1>3. CallsOK' /\ call' \in [Handlers -> CallRow]
  BY <1>1, <1>2, CallsAfter
<1>4. ShapeOK'
  BY <1>1, <1>3 DEF ShapeOK
<1>5. TokensOK' /\ SessionsOK'
  BY <1>1, TokensStand, SessionsStand
<1>6. \A s \in Sessions : session[s].status = "none" => session'[s].origin[1] # "confirm"
  BY <1>1 DEF SessionsOK, OpenedBy
<1>7. OrgsOK' /\ InvitesOK' /\ MfaOK' /\ PortfolioOK' /\ ProgressOK'
  BY <1>1, <1>2, <1>6, WorkspaceStands
<1> QED
  BY <1>3, <1>4, <1>5, <1>7

(* Requests in service keep what they know when time passes. *)
LEMMA CallsStand ==
  ASSUME CallsOK, Kept, UNCHANGED call
  PROVE  CallsOK'
<1> SUFFICES ASSUME NEW g \in Handlers, call[g].stage = "commit"
             PROVE  Known(call[g].req, call[g].seen)'
  BY DEF CallsOK
<1>1. PICK q, seen : q = call[g].req /\ seen = call[g].seen
  OBVIOUS
<1>2. Known(q, seen)
  BY <1>1 DEF CallsOK
<1>3. Known(q, seen)'
  BY <1>2, KnowledgeLasts
<1> QED
  BY <1>1, <1>3 DEF Known

(* A token may expire. *)
LEMMA ChallengeExpires ==
  ASSUME WorkspaceInv, NEW r \in Registrations, ExpireChallenge(r), UNCHANGED workspaceVars
  PROVE  WorkspaceInv'
<1> USE DEF WorkspaceInv, workspaceVars, organizationVars, mfaVars, portfolioVars
<1>1. /\ challenge[r].status = "pending"
      /\ challenge' \in [Registrations -> ChallengeRow]
      /\ challenge'[r].status = "expired" /\ challenge'[r].user = challenge[r].user
      /\ \A p \in Registrations : p # r => challenge'[p] = challenge[p]
      /\ UNCHANGED <<account, session, mailbox, call>>
  BY DEF ExpireChallenge, ShapeOK, ChallengeRow
<1>2. /\ \A p \in Registrations :
           /\ challenge'[p].status = "consumed" <=> challenge[p].status = "consumed"
           /\ challenge'[p].status = "pending" => challenge[p].status = "pending"
           /\ challenge'[p].user = challenge[p].user
           /\ Created(p)' <=> Created(p)
  BY <1>1 DEF Created
<1>3. Kept
  BY <1>1, <1>2 DEF Kept, Exists, Sent, Begun
<1>4. CallsOK' /\ ShapeOK'
  BY <1>1, <1>3, CallsStand DEF ShapeOK
<1>5. TokensOK'
  <2>1. ASSUME NEW u \in Users, NEW p \in Pending(u)', NEW d \in Pending(u)' PROVE p = d
    <3>1. p \in Pending(u) /\ d \in Pending(u)
      BY <1>2 DEF Pending
    <3> QED
      BY <3>1 DEF TokensOK
  <2>2. ASSUME NEW u \in Users, account'[u].status # "NONE"
        PROVE  /\ account'[u].password \in Registrations
               /\ Created(account[u].password)' /\ challenge'[account'[u].password].user = u
    BY <1>1, <1>2, <2>2 DEF TokensOK
  <2> QED
    BY <1>1, <1>2, <2>1, <2>2 DEF TokensOK
<1>6. SessionsOK'
  <2>1. ASSUME NEW s \in Sessions, OpenedBy("verify", s)' \/ OpenedBy("login", s)'
        PROVE  Vouched(s)'
    <3>1. Vouched(s)
      BY <1>1, <2>1 DEF SessionsOK, OpenedBy
    <3> QED
      BY <1>1, <1>2, <3>1 DEF Vouched, OpenedBy, Created
  <2> QED
    BY <1>1, <1>2, <2>1 DEF SessionsOK, OpenedBy
<1>7. \A s \in Sessions : session[s].status = "none" => session'[s].origin[1] # "confirm"
  BY <1>1 DEF SessionsOK, OpenedBy
<1>8. OrgsOK' /\ InvitesOK' /\ MfaOK' /\ PortfolioOK' /\ ProgressOK'
  BY <1>3, <1>7, WorkspaceStands
<1> QED
  BY <1>4, <1>5, <1>6, <1>8

(* A session may expire. *)
LEMMA SessionAges ==
  ASSUME WorkspaceInv, NEW s \in Sessions, AgeSession(s), UNCHANGED workspaceVars
  PROVE  WorkspaceInv'
<1> DEFINE status == IF session[s].status = "fresh" THEN "live" ELSE "expired"
<1> USE DEF WorkspaceInv
<1>1. /\ session[s].status \in {"fresh", "live"} /\ session' = [session EXCEPT ![s].status = status]
      /\ UNCHANGED <<account, challenge, mailbox, call>>
  BY DEF AgeSession
<1>2. PICK st \in {"live", "expired"} : st = status
  OBVIOUS
<1>3. StatusMoved(s, st)
  BY <1>1, <1>2, StatusMoves
<1>4. Kept => CallsOK' /\ call' \in [Handlers -> CallRow]
  BY <1>1, CallsStand DEF ShapeOK
<1> HIDE DEF status
<1> QED
  BY <1>1, <1>2, <1>3, <1>4, StatusChanges

-----------------------------------------------------------------------------
(* Which of the records an entry joins. *)
LEMMA EntryJoins ==
  ASSUME NEW q, NEW made, NEW e, Entry(q, made, e)
  PROVE  /\ q.op # "invite" => InviteRecords' = InviteRecords
         /\ q.op = "invite" => InviteRecords' = InviteRecords \cup {e}
         /\ q.op # "activate" => Activations' = Activations
         /\ q.op = "activate" => Activations' = Activations \cup {e}
         /\ \A o \in Orgs : ~(q.op \in Makers /\ q.org = o) => Made(o)' = Made(o)
         /\ q.op \in Makers => Made(q.org)' = Made(q.org) \cup {e}
<1>1. /\ record' = record \cup {e} /\ e.req.op = q.op /\ (q.op # "create" => e.req.org = q.org)
  BY DEF Entry
<1>2. /\ q.op # "invite" => InviteRecords' = InviteRecords
      /\ q.op = "invite" => InviteRecords' = InviteRecords \cup {e}
  BY <1>1 DEF InviteRecords
<1>3. /\ q.op # "activate" => Activations' = Activations
      /\ q.op = "activate" => Activations' = Activations \cup {e}
  BY <1>1 DEF Activations
<1>4. \A o \in Orgs : ~(q.op \in Makers /\ q.org = o) => Made(o)' = Made(o)
  BY <1>1 DEF Made, Makers
<1>5. q.op \in Makers => Made(q.org)' = Made(q.org) \cup {e}
  BY <1>1 DEF Made, Makers
<1> QED
  BY <1>2, <1>3, <1>4, <1>5

(* Organizations.  Accounts are left alone. *)
LEMMA CreationCommits ==
  ASSUME WorkspaceInv, NEW h \in Handlers, CommitCreation(h),
         UNCHANGED <<accountVars, mfaVars, portfolioVars>>
  PROVE  WorkspaceInv'
<1> USE DEF WorkspaceInv, accountVars, mfaVars, portfolioVars
<1> DEFINE free == {o \in Orgs : org[o] = NoOrg}
<1>1. PICK q, n, u : q = call[h].req /\ n = New(free) /\ u = Actor(call[h].req)
  OBVIOUS
<1>2. q \in Requests /\ q.op = "create" /\ u \in Users /\ n \in Orgs /\ org[n] = NoOrg
  <2>1. q \in Requests /\ q.op = "create" /\ q.by \in Sessions /\ session[q.by].status # "none"
    BY <1>1, Served, RequestShape DEF CommitCreation, Known
  <2>2. u \in Users
    BY <1>1, <2>1 DEF SessionsOK, ShapeOK, SessionRow, Actor
  <2>3. n \in free
    BY <1>1, NewIsOne DEF CommitCreation
  <2> QED
    BY <2>1, <2>2, <2>3
<1> DEFINE row == [status |-> "ONBOARDING", version |-> 1, slug |-> NoValue,
                   state |-> "ORGANIZATION_CREATED"]
<1>3. row \in OrgRow
  BY DEF OrgRow, States
<1>4. /\ row.status = "ONBOARDING" /\ row.version = 1 /\ row.slug = NoValue
      /\ row.state = "ORGANIZATION_CREATED"
  OBVIOUS
<1>5. /\ org' = [org EXCEPT ![n] = row]
      /\ member' = [member EXCEPT ![n][u] = "OWNER"]
      /\ Record(q, n) /\ Recorded(q) = {} /\ Done(h) /\ UNCHANGED invite
  <2>1. Stages[1] = "ORGANIZATION_CREATED"
    BY DEF Stages
  <2> QED
    BY <1>1, <2>1 DEF CommitCreation
<1> HIDE DEF row, free
<1>6. /\ org' \in [Orgs -> {NoOrg} \cup OrgRow] /\ org'[n] = row
      /\ \A o \in Orgs : o # n => org'[o] = org[o]
  BY <1>2, <1>3, <1>5 DEF ShapeOK
<1>7. /\ member' \in [Orgs -> [Users -> Guests \cup {"OWNER", NoValue}]]
      /\ member'[n][u] = "OWNER"
      /\ \A o \in Orgs, v \in Users : o # n \/ v # u => member'[o][v] = member[o][v]
  BY <1>2, <1>5 DEF ShapeOK
<1>8. PICK e : Entry(q, n, e)
  BY <1>2, <1>5, RecordFiles DEF Filing
<1>9. Kept
  BY <1>2, <1>4, <1>5, <1>6, Blanks DEF Kept, Created, Exists, Sent, Begun
<1>10. CallsOK' /\ call' \in [Handlers -> CallRow]
  BY <1>5, <1>9, CallsAfter
<1>11. ShapeOK'
  BY <1>5, <1>6, <1>7, <1>10 DEF ShapeOK
<1>12. TokensOK' /\ SessionsOK'
  BY TokensStand, SessionsStand
<1>13. OrgsOK'
  <2>1. ASSUME NEW o \in Orgs, o # n
        PROVE  /\ ~Exists(o)' => \A v \in Users : member'[o][v] = NoValue
               /\ Exists(o)' =>
                    /\ org'[o].status = "ACTIVE" <=> At(o, "ACTIVE")'
                    /\ At(o, "ORGANIZATION_CREATED")' <=> org'[o].slug = NoValue
                    /\ org'[o].version = IF At(o, "ORGANIZATION_CREATED")' THEN 1
                                         ELSE IF At(o, "ACTIVE")' THEN 3 ELSE 2
    BY <1>6, <1>7, <2>1 DEF OrgsOK, Exists, At
  <2>2. /\ Exists(n)' /\ org'[n].status # "ACTIVE" /\ ~At(n, "ACTIVE")'
        /\ At(n, "ORGANIZATION_CREATED")' /\ org'[n].slug = NoValue /\ org'[n].version = 1
    BY <1>4, <1>6 DEF Exists, At
  <2> QED
    BY <2>1, <2>2 DEF OrgsOK
<1>14. InvitesOK'
  <2>1. InviteRecords' = InviteRecords
    BY <1>2, <1>8, EntryJoins
  <2>2. member[n][u] = NoValue /\ NoValue \notin Guests /\ "OWNER" \notin Guests
    BY <1>2, Blanks, OrganizationsAssumption DEF OrgsOK, Exists, Guests
  <2> QED
    BY <1>5, <1>7, <1>9, <2>1, <2>2, InvitesStand
<1>15. MfaOK'
  <2>1. \A s \in Sessions : session[s].status = "none" => session'[s].origin[1] # "confirm"
    BY DEF SessionsOK, OpenedBy
  <2> QED
    BY <1>9, <2>1, MfaStands
<1>16. PortfolioOK'
  BY <1>2, <1>8, EntryJoins, PortfolioStands DEF Makers
<1>17. ProgressOK'
  <2>1. Activations' = Activations
    BY <1>2, <1>8, EntryJoins
  <2>2. \A o \in Orgs : Proven(o)' = Proven(o)
    BY DEF Proven
  <2>3. NoOrg.state \notin {"PORTFOLIO_REQUIRED", "READY_FOR_REVIEW", "ACTIVE"}
    <3>1. Proven(n) = {}
      BY <1>2, Blanks DEF Proven, MfaOK, Begun, Exists
    <3> QED
      BY <1>2, <3>1 DEF ProgressOK
  <2>4. \A o \in Orgs : SameProgress(o)
    BY <1>2, <1>4, <1>6, <2>3, Blanks DEF SameProgress
  <2> QED
    BY <2>1, <2>2, <2>4, ProgressStands
<1> QED
  BY <1>10, <1>11, <1>12, <1>13, <1>14, <1>15, <1>16, <1>17

(* An organization that exists gets a row that agrees with its stage. *)
Agrees(row) ==
  /\ row.status = "ACTIVE" <=> row.state = "ACTIVE"
  /\ row.state = "ORGANIZATION_CREATED" <=> row.slug = NoValue
  /\ row.version = IF row.state = "ORGANIZATION_CREATED" THEN 1
                   ELSE IF row.state = "ACTIVE" THEN 3 ELSE 2

(* What a write of one organization's row keeps. *)
LEMMA OrgMoves ==
  ASSUME ShapeOK, OrgsOK, NEW o \in Orgs, Exists(o), NEW row \in OrgRow, Agrees(row),
         org' = [org EXCEPT ![o] = row], UNCHANGED member
  PROVE  /\ org' \in [Orgs -> {NoOrg} \cup OrgRow] /\ org'[o] = row
         /\ \A p \in Orgs : p # o => org'[p] = org[p]
         /\ \A p \in Orgs : Exists(p)' <=> Exists(p)
         /\ OrgsOK'
<1>1. /\ org' \in [Orgs -> {NoOrg} \cup OrgRow] /\ org'[o] = row
      /\ \A p \in Orgs : p # o => org'[p] = org[p]
  BY DEF ShapeOK
<1>2. \A p \in Orgs : Exists(p)' <=> Exists(p)
  BY <1>1 DEF Exists, OrgRow
<1>3. ASSUME NEW p \in Orgs, p # o
      PROVE  /\ ~Exists(p)' => \A v \in Users : member'[p][v] = NoValue
             /\ Exists(p)' =>
                  /\ org'[p].status = "ACTIVE" <=> At(p, "ACTIVE")'
                  /\ At(p, "ORGANIZATION_CREATED")' <=> org'[p].slug = NoValue
                  /\ org'[p].version = IF At(p, "ORGANIZATION_CREATED")' THEN 1
                                       ELSE IF At(p, "ACTIVE")' THEN 3 ELSE 2
  BY <1>1, <1>3 DEF OrgsOK, Exists, At
<1>4. /\ Exists(o)'
      /\ org'[o].status = "ACTIVE" <=> At(o, "ACTIVE")'
      /\ At(o, "ORGANIZATION_CREATED")' <=> org'[o].slug = NoValue
      /\ org'[o].version = IF At(o, "ORGANIZATION_CREATED")' THEN 1
                           ELSE IF At(o, "ACTIVE")' THEN 3 ELSE 2
  BY <1>1, <1>2 DEF Agrees, At
<1>5. OrgsOK'
  BY <1>3, <1>4 DEF OrgsOK
<1> QED
  BY <1>1, <1>2, <1>5

(* Rows that agree are in the same stage. *)
LEMMA RowsAgree ==
  ASSUME ShapeOK, OrgsOK, NEW o \in Orgs, Exists(o)
  PROVE  org[o] \in OrgRow /\ Agrees(org[o])
<1>1. org[o] \in OrgRow
  BY Blanks DEF ShapeOK, Exists
<1> QED
  BY <1>1 DEF OrgsOK, Agrees, At

(* A configuration keeps the invariant. *)
LEMMA ConfigurationCommits ==
  ASSUME WorkspaceInv, NEW h \in Handlers, CommitConfiguration(h),
         UNCHANGED <<accountVars, mfaVars, portfolioVars>>
  PROVE  WorkspaceInv'
<1> USE DEF WorkspaceInv, accountVars, mfaVars, portfolioVars
<1>1. PICK q, o : q = call[h].req /\ o = call[h].req.org
  OBVIOUS
<1>2. o \in Orgs /\ Exists(o) /\ q.slug \in Slugs /\ q.slug # NoValue
  BY <1>1, Served, RequestShape, OrganizationsAssumption DEF CommitConfiguration, Known, OfOrganization
<1>3. org[o].status = "ONBOARDING" /\ org[o].state = "ORGANIZATION_CREATED"
  BY <1>1 DEF CommitConfiguration, At
<1>4. org[o] \in OrgRow /\ org[o].version = 1
  BY <1>2, <1>3, RowsAgree DEF Agrees
<1> DEFINE row == [status |-> org[o].status, version |-> org[o].version + 1, slug |-> q.slug,
                   state |-> "WORKSPACE_CONFIGURED"]
<1>5. /\ row.status = "ONBOARDING" /\ row.state = "WORKSPACE_CONFIGURED"
      /\ row.version = 2 /\ row.slug = q.slug
  BY <1>3, <1>4
<1>6. row \in OrgRow /\ Agrees(row)
  <2>1. row \in OrgRow
    BY <1>2, <1>3, <1>4 DEF OrgRow, States
  <2> HIDE DEF row
  <2> QED
    BY <1>2, <1>5, <2>1 DEF Agrees
<1>7. /\ org' = [org EXCEPT ![o] = row] /\ Done(h) /\ UNCHANGED <<member, invite, record>>
  BY <1>1 DEF CommitConfiguration
<1> HIDE DEF row
<1>8. /\ org' \in [Orgs -> {NoOrg} \cup OrgRow] /\ org'[o] = row
      /\ \A p \in Orgs : p # o => org'[p] = org[p]
      /\ \A p \in Orgs : Exists(p)' <=> Exists(p)
      /\ OrgsOK'
  BY <1>2, <1>6, <1>7, OrgMoves
<1>9. Kept
  BY <1>7, <1>8 DEF Kept, Created, Sent, Begun
<1>10. CallsOK' /\ call' \in [Handlers -> CallRow]
  BY <1>7, <1>9, CallsAfter
<1>11. ShapeOK'
  BY <1>7, <1>8, <1>10 DEF ShapeOK
<1>12. TokensOK' /\ SessionsOK'
  BY TokensStand, SessionsStand
<1>13. InvitesOK'
  BY <1>7, <1>9, InvitesStand DEF InviteRecords
<1>14. MfaOK'
  BY <1>9, MfaStands DEF SessionsOK, OpenedBy
<1>15. PortfolioOK'
  BY <1>7, PortfolioStands DEF Made
<1>16. ProgressOK'
  <2>1. Activations' = Activations /\ \A p \in Orgs : Proven(p)' = Proven(p)
    BY <1>7 DEF Activations, Proven
  <2>2. \A p \in Orgs : SameProgress(p)
    BY <1>2, <1>3, <1>5, <1>8 DEF SameProgress
  <2> QED
    BY <2>1, <2>2, ProgressStands
<1> QED
  BY <1>8, <1>10, <1>11, <1>12, <1>13, <1>14, <1>15, <1>16

-----------------------------------------------------------------------------
(* Invitations touch neither the organizations nor their parts. *)
LEMMA OthersStand ==
  ASSUME WorkspaceInv, Kept, UNCHANGED <<accountVars, org, mfaVars, portfolioVars>>,
         Activations' = Activations, \A o \in Orgs : Made(o)' = Made(o)
  PROVE  TokensOK' /\ SessionsOK' /\ MfaOK' /\ PortfolioOK' /\ ProgressOK'
<1> USE DEF WorkspaceInv, accountVars, mfaVars, portfolioVars
<1>1. TokensOK' /\ SessionsOK'
  BY TokensStand, SessionsStand
<1>2. MfaOK'
  BY MfaStands DEF SessionsOK, OpenedBy
<1>3. PortfolioOK'
  BY PortfolioStands
<1>4. ProgressOK'
  <2>1. \A o \in Orgs : Proven(o)' = Proven(o) /\ SameProgress(o)
    BY DEF Proven, SameProgress
  <2> QED
    BY <2>1, ProgressStands
<1> QED
  BY <1>1, <1>2, <1>3, <1>4

(* An invitation keeps the invariant: the open one of its address gives way to it. *)
LEMMA InvitationCommits ==
  ASSUME WorkspaceInv, NEW h \in Handlers, CommitInvitation(h),
         UNCHANGED <<accountVars, mfaVars, portfolioVars>>
  PROVE  WorkspaceInv'
<1> USE DEF WorkspaceInv, accountVars, mfaVars, portfolioVars
<1> DEFINE free == {i \in Invites : invite[i].status = "none"}
<1>1. PICK q, n : q = call[h].req /\ n = New(free)
  OBVIOUS
<1>2. /\ q \in Requests /\ q.op = "invite" /\ q.org \in Orgs /\ Exists(q.org)
      /\ q.email \in Users /\ q.role \in Guests
      /\ n \in Invites /\ invite[n].status = "none"
  <2>1. /\ q \in Requests /\ q.op = "invite" /\ q.org \in Orgs /\ Exists(q.org)
        /\ q.email \in Users /\ q.role \in Guests
    BY <1>1, Served, RequestShape DEF CommitInvitation, Known, OfOrganization
  <2>2. n \in free
    BY <1>1, NewIsOne DEF CommitInvitation
  <2> QED
    BY <2>1, <2>2
<1>3. /\ invite' = [i \in Invites |->
                      IF i = n THEN [org |-> q.org, email |-> q.email, role |-> q.role,
                                     status |-> "pending"]
                      ELSE IF i \in Open(q.org, q.email) THEN [invite[i] EXCEPT !.status = "revoked"]
                      ELSE invite[i]]
      /\ Record(q, n) /\ Recorded(q) = {} /\ Mail(h, n) /\ UNCHANGED <<org, member>>
  BY <1>1 DEF CommitInvitation
<1> HIDE DEF free
<1>4. invite' \in [Invites -> InviteRow]
  <2>1. ASSUME NEW i \in Invites PROVE [invite[i] EXCEPT !.status = "revoked"] \in InviteRow
    BY DEF ShapeOK, InviteRow
  <2>2. [org |-> q.org, email |-> q.email, role |-> q.role, status |-> "pending"] \in InviteRow
    BY <1>2 DEF InviteRow
  <2> QED
    BY <1>3, <2>1, <2>2 DEF ShapeOK
<1>5. /\ invite'[n].org = q.org /\ invite'[n].email = q.email /\ invite'[n].role = q.role
      /\ invite'[n].status = "pending"
  BY <1>2, <1>3
<1>6. \A i \in Invites : i # n =>
        /\ invite'[i].org = invite[i].org /\ invite'[i].email = invite[i].email
        /\ invite'[i].role = invite[i].role
        /\ IF i \in Open(q.org, q.email) THEN invite'[i].status = "revoked"
           ELSE invite'[i].status = invite[i].status
  <2>1. ASSUME NEW i \in Invites
        PROVE  LET row == [invite[i] EXCEPT !.status = "revoked"] IN
               /\ row.org = invite[i].org /\ row.email = invite[i].email
               /\ row.role = invite[i].role /\ row.status = "revoked"
    BY DEF ShapeOK, InviteRow
  <2>2. ASSUME NEW i \in Invites, i # n
        PROVE  invite'[i] = IF i \in Open(q.org, q.email) THEN [invite[i] EXCEPT !.status = "revoked"]
                            ELSE invite[i]
    BY <1>3, <2>2
  <2> QED
    BY <2>1, <2>2
<1>7. PICK e : Entry(q, n, e)
  BY <1>2, <1>3, RecordFiles DEF Filing
<1>8. \A i \in Invites : i # n => /\ Sent(i)' <=> Sent(i)
                                  /\ Accepted(i)' <=> Accepted(i)
                                  /\ Waiting(i)' => Waiting(i) /\ i \notin Open(q.org, q.email)
  BY <1>6 DEF Sent, Accepted, Waiting, Open
<1>9. Sent(n)' /\ Waiting(n)' /\ ~Accepted(n)' /\ ~Sent(n) /\ ~Accepted(n)
  BY <1>2, <1>5 DEF Sent, Accepted, Waiting
<1>10. Kept
  BY <1>3, <1>8, <1>9 DEF Kept, Created, Exists, Begun
<1>11. CallsOK' /\ call' \in [Handlers -> CallRow]
  BY <1>2, <1>3, <1>10, CallsAfter
<1>12. ShapeOK'
  BY <1>3, <1>4, <1>11 DEF ShapeOK
<1>13. TokensOK' /\ SessionsOK' /\ MfaOK' /\ PortfolioOK' /\ ProgressOK'
  BY <1>2, <1>3, <1>7, <1>10, EntryJoins, OthersStand DEF Makers
<1>14. OrgsOK'
  BY <1>3, OrgsStand
<1>15. InvitesOK'
  <2>1. InviteRecords' = InviteRecords \cup {e} /\ e.made = n
    BY <1>2, <1>7, EntryJoins DEF Entry
  <2>2. ASSUME NEW i \in Invites, Sent(i)'
        PROVE  /\ invite'[i].org \in Orgs /\ Exists(invite[i].org)'
               /\ invite'[i].email \in Users /\ invite'[i].role \in Guests
               /\ \E d \in InviteRecords' : d.made = i
    <3>1. CASE i = n
      BY <1>2, <1>3, <1>5, <2>1, <3>1 DEF Exists
    <3>2. CASE i # n
      BY <1>3, <1>6, <1>8, <2>1, <2>2, <3>2 DEF InvitesOK, Exists
    <3> QED
      BY <3>1, <3>2
  <2>3. \A d \in InviteRecords' : d.made \in Invites /\ (Sent(d.made) \/ d.made = n)
    BY <1>2, <2>1 DEF InvitesOK
  <2>4. ASSUME NEW d \in InviteRecords' PROVE d.made \in Invites /\ invite'[d.made].status # "none"
    BY <1>8, <1>9, <2>3 DEF Sent
  <2>5. ASSUME NEW c \in InviteRecords', NEW d \in InviteRecords', c.made = d.made PROVE c = d
    BY <1>9, <2>1, <2>5 DEF InvitesOK
  <2>6. ASSUME NEW i \in Invites, NEW j \in Invites, Waiting(i)', Waiting(j)', Rivals(i, j)'
        PROVE  i = j
    <3>1. ASSUME NEW k \in Invites, k # n, Waiting(k)'
          PROVE  ~(invite'[k].org = q.org /\ invite'[k].email = q.email)
      <4>1. Waiting(k) /\ k \notin Open(q.org, q.email)
        BY <1>8, <3>1
      <4> QED
        BY <1>6, <3>1, <4>1 DEF Open, Waiting
    <3>2. CASE i # n /\ j # n
      <4>1. Waiting(i) /\ Waiting(j) /\ Rivals(i, j)
        BY <1>6, <1>8, <2>6, <3>2 DEF Rivals
      <4> QED
        BY <4>1 DEF InvitesOK
    <3>3. CASE i = n /\ j # n
      BY <1>5, <2>6, <3>1, <3>3 DEF Rivals
    <3>4. CASE i # n /\ j = n
      BY <1>5, <2>6, <3>1, <3>4 DEF Rivals
    <3> QED
      BY <3>2, <3>3, <3>4
  <2>7. ASSUME NEW i \in Invites, Accepted(i)'
        PROVE  /\ i \in mailbox' /\ member'[invite'[i].org][invite'[i].email] = invite'[i].role
               /\ i # n /\ Accepted(i)
    BY <1>3, <1>6, <1>8, <1>9, <2>7 DEF InvitesOK
  <2>8. ASSUME NEW i \in Invites, NEW j \in Invites, Accepted(i)', Accepted(j)', Rivals(i, j)'
        PROVE  i = j
    <3>1. Accepted(i) /\ Accepted(j) /\ Rivals(i, j)
      BY <1>6, <2>7, <2>8 DEF Rivals
    <3> QED
      BY <3>1 DEF InvitesOK
  <2>9. ASSUME NEW o \in Orgs, NEW u \in Users, member'[o][u] \in Guests
        PROVE  \E i \in Invites : Accepted(i)' /\ invite'[i].org = o /\ invite'[i].email = u
    <3>1. PICK i \in Invites : Accepted(i) /\ invite[i].org = o /\ invite[i].email = u
      BY <1>3, <2>9 DEF InvitesOK
    <3> QED
      BY <1>6, <1>8, <1>9, <3>1
  <2> QED
    BY <2>2, <2>4, <2>5, <2>6, <2>7, <2>8, <2>9 DEF InvitesOK, Sent
<1> QED
  BY <1>11, <1>12, <1>13, <1>14, <1>15

(* An acceptance keeps the invariant: it makes a member of the invitation it spends. *)
LEMMA AcceptanceCommits ==
  ASSUME WorkspaceInv, NEW h \in Handlers, CommitAcceptance(h),
         UNCHANGED <<accountVars, mfaVars, portfolioVars>>
  PROVE  WorkspaceInv'
<1> USE DEF WorkspaceInv, accountVars, mfaVars, portfolioVars
<1>1. PICK n, o, u : /\ n = call[h].req.token
                     /\ o = invite[call[h].req.token].org /\ u = invite[call[h].req.token].email
  OBVIOUS
<1>2. /\ n \in Invites /\ n \in mailbox /\ invite[n].status = "pending"
      /\ o = invite[n].org /\ u = invite[n].email /\ o \in Orgs /\ u \in Users
      /\ invite[n].role \in Guests /\ member[o][u] = NoValue
  <2>1. n \in Invites /\ n \in mailbox
    BY <1>1, Served, RequestShape DEF CommitAcceptance, Known
  <2>2. invite[n].status = "pending" /\ member[o][u] = NoValue
    BY <1>1 DEF CommitAcceptance
  <2> QED
    BY <1>1, <2>1, <2>2 DEF InvitesOK, Sent
<1>3. /\ invite' = [invite EXCEPT ![n].status = "accepted"]
      /\ member' = [member EXCEPT ![o][u] = invite[n].role]
      /\ Done(h) /\ UNCHANGED <<org, record>>
  BY <1>1 DEF CommitAcceptance
<1>4. /\ invite' \in [Invites -> InviteRow]
      /\ invite'[n].status = "accepted"
      /\ \A i \in Invites : /\ invite'[i].org = invite[i].org /\ invite'[i].email = invite[i].email
                            /\ invite'[i].role = invite[i].role
                            /\ i # n => invite'[i].status = invite[i].status
  BY <1>2, <1>3 DEF ShapeOK, InviteRow
<1>5. /\ member' \in [Orgs -> [Users -> Guests \cup {"OWNER", NoValue}]]
      /\ member'[o][u] = invite[n].role
      /\ \A p \in Orgs, v \in Users : p # o \/ v # u => member'[p][v] = member[p][v]
  BY <1>2, <1>3 DEF ShapeOK
<1>6. NoValue \notin Guests
  BY OrganizationsAssumption
<1>7. \A i \in Invites : Accepted(i) => ~(invite[i].org = o /\ invite[i].email = u)
  <2>1. ASSUME NEW i \in Invites, Accepted(i), invite[i].org = o, invite[i].email = u PROVE FALSE
    <3>1. member[o][u] = invite[i].role /\ invite[i].role \in Guests
      BY <2>1 DEF InvitesOK, Sent, Accepted
    <3> QED
      BY <1>2, <1>6, <3>1
  <2> QED
    BY <2>1
<1>8. /\ \A i \in Invites : /\ Sent(i)' <=> Sent(i)
                            /\ Waiting(i)' => Waiting(i)
                            /\ i # n => (Accepted(i)' <=> Accepted(i))
      /\ Accepted(n)' /\ Sent(n) /\ ~Accepted(n)
  BY <1>2, <1>4 DEF Sent, Waiting, Accepted
<1>9. Kept
  BY <1>3, <1>8 DEF Kept, Created, Exists, Begun
<1>10. CallsOK' /\ call' \in [Handlers -> CallRow]
  BY <1>3, <1>9, CallsAfter
<1>11. ShapeOK'
  BY <1>3, <1>4, <1>5, <1>10 DEF ShapeOK
<1>12. TokensOK' /\ SessionsOK' /\ MfaOK' /\ PortfolioOK' /\ ProgressOK'
  BY <1>3, <1>9, OthersStand DEF Activations, Made
<1>13. OrgsOK'
  <2>1. Exists(o)
    BY <1>2, <1>8 DEF InvitesOK
  <2>2. \A p \in Orgs : Exists(p)' <=> Exists(p)
    BY <1>3 DEF Exists
  <2>3. ASSUME NEW p \in Orgs, ~Exists(p)', NEW v \in Users PROVE member'[p][v] = NoValue
    BY <1>5, <2>1, <2>2, <2>3 DEF OrgsOK
  <2> QED
    BY <1>3, <2>2, <2>3 DEF OrgsOK, At
<1>14. InvitesOK'
  <2>1. InviteRecords' = InviteRecords
    BY <1>3 DEF InviteRecords
  <2>2. \A i, j \in Invites : Rivals(i, j)' <=> Rivals(i, j)
    BY <1>4 DEF Rivals
  <2>3. ASSUME NEW i \in Invites, Sent(i)'
        PROVE  /\ invite'[i].org \in Orgs /\ Exists(invite[i].org)'
               /\ invite'[i].email \in Users /\ invite'[i].role \in Guests
               /\ \E d \in InviteRecords' : d.made = i
    BY <1>3, <1>4, <1>8, <2>1, <2>3 DEF InvitesOK, Exists
  <2>4. \A d \in InviteRecords' : d.made \in Invites /\ invite'[d.made].status # "none"
    BY <1>8, <2>1 DEF InvitesOK, Sent
  <2>5. \A i, j \in Invites : Waiting(i)' /\ Waiting(j)' /\ Rivals(i, j)' => i = j
    BY <1>8, <2>2 DEF InvitesOK
  <2>6. ASSUME NEW i \in Invites, Accepted(i)'
        PROVE  i \in mailbox' /\ member'[invite'[i].org][invite'[i].email] = invite'[i].role
    <3>1. CASE i = n
      BY <1>2, <1>4, <1>5, <3>1
    <3>2. CASE i # n
      <4>1. Accepted(i) /\ Sent(i)
        BY <1>8, <2>6, <3>2 DEF Accepted, Sent
      <4>2. /\ i \in mailbox /\ member[invite[i].org][invite[i].email] = invite[i].role
            /\ invite[i].org \in Orgs /\ invite[i].email \in Users
        BY <4>1 DEF InvitesOK
      <4>3. invite[i].org # o \/ invite[i].email # u
        BY <1>7, <4>1
      <4> QED
        BY <1>4, <1>5, <4>2, <4>3
    <3> QED
      BY <3>1, <3>2
  <2>7. ASSUME NEW i \in Invites, NEW j \in Invites, Accepted(i)', Accepted(j)', Rivals(i, j)'
        PROVE  i = j
    <3>1. Rivals(i, j)
      BY <2>2, <2>7
    <3>2. CASE i # n /\ j # n
      BY <1>8, <2>7, <3>1, <3>2 DEF InvitesOK
    <3>3. CASE i = n /\ j # n
      BY <1>2, <1>7, <1>8, <2>7, <3>1, <3>3 DEF Rivals
    <3>4. CASE i # n /\ j = n
      BY <1>2, <1>7, <1>8, <2>7, <3>1, <3>4 DEF Rivals
    <3> QED
      BY <3>2, <3>3, <3>4
  <2>8. ASSUME NEW p \in Orgs, NEW v \in Users, member'[p][v] \in Guests
        PROVE  \E i \in Invites : Accepted(i)' /\ invite'[i].org = p /\ invite'[i].email = v
    <3>1. CASE p = o /\ v = u
      BY <1>2, <1>4, <1>8, <3>1
    <3>2. CASE p # o \/ v # u
      <4>1. PICK i \in Invites : Accepted(i) /\ invite[i].org = p /\ invite[i].email = v
        BY <1>5, <2>8, <3>2 DEF InvitesOK
      <4> QED
        BY <1>4, <1>8, <4>1
    <3> QED
      BY <3>1, <3>2
  <2>9. \A c, d \in InviteRecords' : c.made = d.made => c = d
    BY <2>1 DEF InvitesOK
  <2> QED
    BY <2>3, <2>4, <2>5, <2>6, <2>7, <2>8, <2>9 DEF InvitesOK, Sent
<1> QED
  BY <1>10, <1>11, <1>12, <1>13, <1>14

(* An invitation may expire. *)
LEMMA InviteExpires ==
  ASSUME WorkspaceInv, NEW n \in Invites, ExpireInvite(n),
         UNCHANGED <<accountVars, mfaVars, portfolioVars>>
  PROVE  WorkspaceInv'
<1> USE DEF WorkspaceInv, accountVars, mfaVars, portfolioVars
<1>1. /\ invite[n].status = "pending" /\ UNCHANGED <<org, member, record, call>>
      /\ invite' \in [Invites -> InviteRow]
      /\ invite'[n].status = "expired"
      /\ \A i \in Invites : /\ invite'[i].org = invite[i].org /\ invite'[i].email = invite[i].email
                            /\ invite'[i].role = invite[i].role
                            /\ i # n => invite'[i].status = invite[i].status
  BY DEF ExpireInvite, ShapeOK, InviteRow
<1>2. \A i \in Invites : /\ Sent(i)' <=> Sent(i)
                         /\ Waiting(i)' <=> Waiting(i)
                         /\ Accepted(i)' <=> Accepted(i)
  BY <1>1 DEF Sent, Waiting, Accepted
<1>3. \A i, j \in Invites : Rivals(i, j)' <=> Rivals(i, j)
  BY <1>1 DEF Rivals
<1>4. Kept
  BY <1>1, <1>2 DEF Kept, Created, Exists, Begun
<1>5. CallsOK' /\ ShapeOK'
  BY <1>1, <1>4, CallsStand DEF ShapeOK
<1>6. TokensOK' /\ SessionsOK' /\ MfaOK' /\ PortfolioOK' /\ ProgressOK'
  BY <1>1, <1>4, OthersStand DEF Activations, Made
<1>7. OrgsOK'
  BY <1>1, OrgsStand
<1>8. InvitesOK'
  <2>1. InviteRecords' = InviteRecords
    BY <1>1 DEF InviteRecords
  <2>2. ASSUME NEW i \in Invites, Sent(i)'
        PROVE  /\ invite'[i].org \in Orgs /\ Exists(invite[i].org)'
               /\ invite'[i].email \in Users /\ invite'[i].role \in Guests
               /\ \E d \in InviteRecords' : d.made = i
    BY <1>1, <1>2, <2>1, <2>2 DEF InvitesOK, Exists
  <2>3. \A d \in InviteRecords' : d.made \in Invites /\ invite'[d.made].status # "none"
    BY <1>2, <2>1 DEF InvitesOK, Sent
  <2>4. ASSUME NEW i \in Invites, Accepted(i)'
        PROVE  i \in mailbox' /\ member'[invite'[i].org][invite'[i].email] = invite'[i].role
    BY <1>1, <1>2, <2>4 DEF InvitesOK
  <2>5. ASSUME NEW o \in Orgs, NEW u \in Users, member'[o][u] \in Guests
        PROVE  \E i \in Invites : Accepted(i)' /\ invite'[i].org = o /\ invite'[i].email = u
    <3>1. PICK i \in Invites : Accepted(i) /\ invite[i].org = o /\ invite[i].email = u
      BY <1>1, <2>5 DEF InvitesOK
    <3> QED
      BY <1>1, <1>2, <3>1
  <2>6. \A i, j \in Invites : /\ Waiting(i)' /\ Waiting(j)' /\ Rivals(i, j)' => i = j
                              /\ Accepted(i)' /\ Accepted(j)' /\ Rivals(i, j)' => i = j
    BY <1>2, <1>3 DEF InvitesOK
  <2>7. \A c, d \in InviteRecords' : c.made = d.made => c = d
    BY <2>1 DEF InvitesOK
  <2> QED
    BY <2>2, <2>3, <2>4, <2>5, <2>6, <2>7 DEF InvitesOK, Sent
<1> QED
  BY <1>5, <1>6, <1>7, <1>8

-----------------------------------------------------------------------------
(* Enrolments.  The tables of accounts, invitations and units are left alone. *)
LEMMA RestStands ==
  ASSUME WorkspaceInv, Kept,
         UNCHANGED <<account, challenge, mailbox, member, invite, record, portfolioVars>>
  PROVE  TokensOK' /\ InvitesOK' /\ PortfolioOK'
<1> USE DEF WorkspaceInv, portfolioVars
<1>1. TokensOK'
  BY TokensStand
<1>2. InvitesOK'
  BY InvitesStand DEF InviteRecords
<1>3. PortfolioOK'
  BY PortfolioStands DEF Made
<1> QED
  BY <1>1, <1>2, <1>3

(* A new enrolment, and what it does to the others. *)
EnrollmentAdded(n, u, o) ==
  /\ n \in Enrollments /\ ~Begun(n)
  /\ enrollment' \in [Enrollments -> EnrollmentRow]
  /\ enrollment'[n].user = u /\ enrollment'[n].org = o /\ enrollment'[n].status = "pending"
  /\ \A e \in Enrollments : e # n =>
       \/ enrollment'[e] = enrollment[e]
       \/ /\ enrollment[e].status = "pending" /\ enrollment'[e].status = "revoked"
          /\ enrollment'[e].user = enrollment[e].user /\ enrollment'[e].org = enrollment[e].org

(* A new enrolment takes a free row; of the others it may only revoke open ones. *)
LEMMA EnrollmentAdds ==
  ASSUME ShapeOK, NEW h \in Handlers, NEW u \in Users, NEW o \in Orgs, NEW revoked,
         u = Actor(call[h].req), o = call[h].req.org,
         revoked \subseteq PendingOf(u, o), Enrolled(h, revoked)
  PROVE  \E n : EnrollmentAdded(n, u, o)
<1> DEFINE free == {e \in Enrollments : enrollment[e] = NoEnrollment}
           row == [user |-> u, org |-> o, status |-> "pending", expired |-> FALSE, attempts |-> 0]
<1>1. PICK n : n = New(free)
  OBVIOUS
<1>2. n \in Enrollments /\ enrollment[n] = NoEnrollment
  <2>1. n \in free
    BY <1>1, NewIsOne DEF Enrolled
  <2> QED
    BY <2>1
<1>3. row \in EnrollmentRow /\ row.user = u /\ row.org = o /\ row.status = "pending"
  BY MfaAssumption DEF EnrollmentRow
<1>4. enrollment' = [e \in Enrollments |-> IF e = n THEN row
                                           ELSE IF e \in revoked THEN [enrollment[e] EXCEPT !.status = "revoked"]
                                           ELSE enrollment[e]]
  BY <1>1 DEF Enrolled
<1> HIDE DEF row, free
<1>5. ASSUME NEW e \in Enrollments
      PROVE  LET r == [enrollment[e] EXCEPT !.status = "revoked"] IN
             /\ r \in EnrollmentRow /\ r.status = "revoked"
             /\ r.user = enrollment[e].user /\ r.org = enrollment[e].org
  BY DEF ShapeOK, EnrollmentRow
<1>6. enrollment' \in [Enrollments -> EnrollmentRow]
  BY <1>3, <1>4, <1>5 DEF ShapeOK
<1>7. enrollment'[n] = row
  BY <1>2, <1>4
<1>8. ASSUME NEW e \in Enrollments, e # n
      PROVE  \/ enrollment'[e] = enrollment[e]
             \/ /\ enrollment[e].status = "pending" /\ enrollment'[e].status = "revoked"
                /\ enrollment'[e].user = enrollment[e].user /\ enrollment'[e].org = enrollment[e].org
  <2>1. CASE e \in revoked
    <3>1. enrollment'[e] = [enrollment[e] EXCEPT !.status = "revoked"]
      BY <1>4, <1>8, <2>1
    <3>2. enrollment[e].status = "pending"
      BY <2>1 DEF PendingOf
    <3> QED
      BY <1>5, <3>1, <3>2
  <2>2. CASE e \notin revoked
    BY <1>4, <1>8, <2>2
  <2> QED
    BY <2>1, <2>2
<1>9. ~Begun(n)
  BY <1>2, Blanks DEF Begun
<1> QED
  BY <1>2, <1>3, <1>6, <1>7, <1>8, <1>9 DEF EnrollmentAdded

(* A new enrolment has no factor; a revoked one had none. *)
LEMMA EnrollmentStands ==
  ASSUME WorkspaceInv, NEW n, NEW u \in Users, NEW o \in Orgs, EnrollmentAdded(n, u, o),
         UNCHANGED <<session, factor>>, Exists(o), \A p \in Orgs : Exists(p) => Exists(p)'
  PROVE  /\ MfaOK' /\ \A p \in Orgs : Proven(p)' = Proven(p)
         /\ \A e \in Enrollments : Begun(e) =>
              Begun(e)' /\ enrollment'[e].user = enrollment[e].user
                /\ enrollment'[e].org = enrollment[e].org
         /\ \A e \in Enrollments : factor'[e].acknowledged =>
              factor[e].acknowledged /\ enrollment'[e].org = enrollment[e].org
<1> USE DEF WorkspaceInv
<1>1. /\ n \in Enrollments /\ ~Begun(n) /\ Begun(n)'
      /\ enrollment'[n].user = u /\ enrollment'[n].org = o /\ enrollment'[n].status = "pending"
  BY DEF EnrollmentAdded, Begun
<1>2. \A e \in Enrollments : e # n =>
        /\ enrollment'[e].user = enrollment[e].user /\ enrollment'[e].org = enrollment[e].org
        /\ enrollment'[e].status = "consumed" <=> enrollment[e].status = "consumed"
        /\ Begun(e)' <=> Begun(e)
        /\ enrollment[e].status # "pending" => enrollment'[e] = enrollment[e]
  BY DEF EnrollmentAdded, Begun
<1>3. factor[n].status = "none" /\ ~factor[n].acknowledged /\ enrollment[n].status # "consumed"
  BY <1>1 DEF MfaOK, Begun
<1>4. \A p \in Orgs : Proven(p)' = Proven(p)
  BY <1>1, <1>2, <1>3 DEF Proven
<1>5. \A e \in Enrollments : Begun(e) =>
        Begun(e)' /\ enrollment'[e].user = enrollment[e].user /\ enrollment'[e].org = enrollment[e].org
  BY <1>1, <1>2
<1>6. \A e \in Enrollments : factor'[e].acknowledged =>
        factor[e].acknowledged /\ enrollment'[e].org = enrollment[e].org
  BY <1>2, <1>3
<1>7. MfaOK'
  <2>1. ASSUME NEW e \in Enrollments, ~Begun(e)' PROVE enrollment'[e] = NoEnrollment
    <3>1. e # n /\ ~Begun(e)
      BY <1>1, <1>2, <2>1
    <3> QED
      BY <1>2, <3>1 DEF MfaOK, Begun
  <2>2. ASSUME NEW e \in Enrollments, Begun(e)'
        PROVE  /\ enrollment'[e].user \in Users
               /\ enrollment'[e].org \in Orgs /\ Exists(enrollment[e].org)'
    <3>1. CASE e = n
      BY <1>1, <3>1
    <3>2. CASE e # n
      BY <1>2, <2>2, <3>2 DEF MfaOK
    <3> QED
      BY <3>1, <3>2
  <2>3. \A e \in Enrollments : enrollment'[e].status = "consumed" <=> factor'[e].status # "none"
    BY <1>1, <1>2, <1>3 DEF MfaOK
  <2>4. ASSUME NEW v \in Users, NEW d \in ActiveFactors(v)', NEW e \in ActiveFactors(v)' PROVE d = e
    <3>1. d \in ActiveFactors(v) /\ e \in ActiveFactors(v)
      BY <1>2, <1>3 DEF ActiveFactors
    <3> QED
      BY <3>1 DEF MfaOK
  <2>5. ASSUME NEW e \in Enrollments, enrollment'[e].status = "consumed"
        PROVE  /\ enrollment'[e].attempts < AttemptLimit
               /\ \E s \in Sessions : session'[s].origin = <<"confirm", e>>
    <3>1. e # n /\ enrollment[e].status = "consumed" /\ enrollment'[e] = enrollment[e]
      BY <1>1, <1>2, <2>5
    <3> QED
      BY <3>1 DEF MfaOK
  <2>6. ASSUME NEW s \in Sessions, OpenedBy("confirm", s)' PROVE Confirms(s)'
    <3>1. Confirms(s)
      BY <2>6 DEF MfaOK, OpenedBy
    <3> QED
      BY <1>1, <1>2, <1>3, <3>1 DEF Confirms
  <2>7. \A e \in Enrollments : factor'[e].status = "none" => ~factor'[e].acknowledged
    BY DEF MfaOK
  <2> QED
    BY <2>1, <2>2, <2>3, <2>4, <2>5, <2>6, <2>7 DEF MfaOK
<1> QED
  BY <1>4, <1>5, <1>6, <1>7

-----------------------------------------------------------------------------
(* A stage between the first and the last is entered by the state alone. *)
Entered(o, state) ==
  /\ org' \in [Orgs -> {NoOrg} \cup OrgRow]
  /\ org'[o].state = state /\ org'[o].status = org[o].status
  /\ \A p \in Orgs : p # o => org'[p] = org[p]
  /\ \A p \in Orgs : Exists(p)' <=> Exists(p)
Between == States \ {"ORGANIZATION_CREATED", "ACTIVE"}

(* A stage is entered from the one before it. *)
LEMMA Enters ==
  ASSUME ShapeOK, OrgsOK, NEW o \in Orgs, Exists(o), org[o].state \in Between,
         NEW state \in Between, Enter(o, state), UNCHANGED member
  PROVE  Entered(o, state) /\ OrgsOK'
<1> DEFINE row == [org[o] EXCEPT !.state = state]
<1>1. org[o] \in OrgRow /\ Agrees(org[o])
  BY RowsAgree
<1>2. /\ row \in OrgRow /\ row.state = state /\ row.status = org[o].status
      /\ row.slug = org[o].slug /\ row.version = org[o].version
  BY <1>1 DEF OrgRow, Between
<1>3. org' = [org EXCEPT ![o] = row]
  BY DEF Enter
<1> HIDE DEF row
<1>4. Agrees(row)
  BY <1>1, <1>2 DEF Agrees, Between
<1> QED
  BY <1>2, <1>3, <1>4, OrgMoves DEF Entered

(* The first enrolment of an organization keeps the invariant. *)
LEMMA FirstEnrollmentCommits ==
  ASSUME WorkspaceInv, NEW h \in Handlers, CommitFirstEnrollment(h),
         UNCHANGED <<account, challenge, mailbox, member, invite, record, portfolioVars>>
  PROVE  WorkspaceInv'
<1> USE DEF WorkspaceInv, portfolioVars
<1>1. PICK u, o, revoked : /\ u = Actor(call[h].req) /\ o = call[h].req.org
                           /\ revoked = PendingOf(Actor(call[h].req), call[h].req.org)
  OBVIOUS
<1>2. o \in Orgs /\ Exists(o) /\ u \in Users
  <2>1. /\ o \in Orgs /\ Exists(o)
        /\ call[h].req.by \in Sessions /\ session[call[h].req.by].status # "none"
    BY <1>1, Served, RequestShape DEF CommitFirstEnrollment, Known, OfOrganization
  <2> QED
    BY <1>1, <2>1 DEF SessionsOK, ShapeOK, SessionRow, Actor
<1>3. /\ org[o].state = "WORKSPACE_CONFIGURED" /\ Enter(o, "MFA_REQUIRED")
      /\ Enrolled(h, revoked)
  BY <1>1 DEF CommitFirstEnrollment, At
<1>4. Done(h) /\ UNCHANGED <<session, factor>>
  BY <1>3 DEF Enrolled
<1>5. Entered(o, "MFA_REQUIRED") /\ OrgsOK'
  BY <1>2, <1>3, Enters DEF Between, States
<1>6. PICK n : EnrollmentAdded(n, u, o)
  BY <1>1, <1>2, <1>3, EnrollmentAdds
<1>7. /\ MfaOK' /\ \A p \in Orgs : Proven(p)' = Proven(p)
      /\ \A e \in Enrollments : Begun(e) =>
           Begun(e)' /\ enrollment'[e].user = enrollment[e].user
             /\ enrollment'[e].org = enrollment[e].org
      /\ \A e \in Enrollments : factor'[e].acknowledged =>
           factor[e].acknowledged /\ enrollment'[e].org = enrollment[e].org
  BY <1>2, <1>4, <1>5, <1>6, EnrollmentStands DEF Entered
<1>8. Kept
  BY <1>4, <1>5, <1>7 DEF Kept, Created, Sent, Entered
<1>9. CallsOK' /\ call' \in [Handlers -> CallRow]
  BY <1>4, <1>8, CallsAfter
<1>10. ShapeOK'
  BY <1>4, <1>5, <1>6, <1>9 DEF ShapeOK, Entered, EnrollmentAdded
<1>11. TokensOK' /\ InvitesOK' /\ PortfolioOK'
  BY <1>8, RestStands
<1>12. SessionsOK'
  BY <1>4, SessionsStand
<1>13. ProgressOK'
  <2>1. \A p \in Orgs : SameProgress(p)
    BY <1>2, <1>3, <1>5 DEF SameProgress, Entered
  <2> QED
    BY <1>7, <2>1, ProgressStands DEF Activations
<1> QED
  BY <1>5, <1>7, <1>9, <1>10, <1>11, <1>12, <1>13

(* A further enrolment keeps the invariant. *)
LEMMA NextEnrollmentCommits ==
  ASSUME WorkspaceInv, NEW h \in Handlers, CommitNextEnrollment(h),
         UNCHANGED <<account, challenge, mailbox, member, invite, record, portfolioVars>>
  PROVE  WorkspaceInv'
<1> USE DEF WorkspaceInv, portfolioVars
<1>1. PICK u, o : u = Actor(call[h].req) /\ o = call[h].req.org
  OBVIOUS
<1>2. o \in Orgs /\ Exists(o) /\ u \in Users
  <2>1. /\ o \in Orgs /\ Exists(o)
        /\ call[h].req.by \in Sessions /\ session[call[h].req.by].status # "none"
    BY <1>1, Served, RequestShape DEF CommitNextEnrollment, Known, OfOrganization
  <2> QED
    BY <1>1, <2>1 DEF SessionsOK, ShapeOK, SessionRow, Actor
<1>3. UNCHANGED org /\ \E read : Enrolled(h, read \cap PendingOf(u, o))
  BY <1>1 DEF CommitNextEnrollment
<1>4. PICK revoked : revoked \subseteq PendingOf(u, o) /\ Enrolled(h, revoked)
  BY <1>3
<1>5. Done(h) /\ UNCHANGED <<session, factor>>
  BY <1>4 DEF Enrolled
<1>6. PICK n : EnrollmentAdded(n, u, o)
  BY <1>1, <1>2, <1>4, EnrollmentAdds
<1>7. /\ MfaOK' /\ \A p \in Orgs : Proven(p)' = Proven(p)
      /\ \A e \in Enrollments : Begun(e) =>
           Begun(e)' /\ enrollment'[e].user = enrollment[e].user
             /\ enrollment'[e].org = enrollment[e].org
      /\ \A e \in Enrollments : factor'[e].acknowledged =>
           factor[e].acknowledged /\ enrollment'[e].org = enrollment[e].org
  BY <1>2, <1>3, <1>5, <1>6, EnrollmentStands DEF Exists
<1>8. Kept
  BY <1>3, <1>5, <1>7 DEF Kept, Created, Sent, Exists
<1>9. CallsOK' /\ call' \in [Handlers -> CallRow]
  BY <1>5, <1>8, CallsAfter
<1>10. ShapeOK'
  BY <1>3, <1>5, <1>6, <1>9 DEF ShapeOK, EnrollmentAdded
<1>11. TokensOK' /\ InvitesOK' /\ PortfolioOK'
  BY <1>8, RestStands
<1>12. SessionsOK' /\ OrgsOK'
  BY <1>3, <1>5, SessionsStand, OrgsStand
<1>13. ProgressOK'
  BY <1>3, <1>7, ProgressStands DEF Activations, SameProgress
<1> QED
  BY <1>7, <1>9, <1>10, <1>11, <1>12, <1>13

(* An enrolment that is still pending counts a code, or grows old. *)
Touched(n) ==
  /\ n \in Enrollments /\ enrollment[n].status = "pending"
  /\ enrollment' \in [Enrollments -> EnrollmentRow]
  /\ enrollment'[n].status = "pending"
  /\ enrollment'[n].user = enrollment[n].user /\ enrollment'[n].org = enrollment[n].org
  /\ \A e \in Enrollments : e # n => enrollment'[e] = enrollment[e]

(* A step on one enrolment that does not consume it leaves the rest standing. *)
LEMMA TouchedStands ==
  ASSUME WorkspaceInv, NEW n, Touched(n),
         UNCHANGED <<account, challenge, mailbox, member, invite, record, portfolioVars>>,
         UNCHANGED <<org, session, factor>>,
         Kept => CallsOK' /\ call' \in [Handlers -> CallRow]
  PROVE  WorkspaceInv'
<1> USE DEF WorkspaceInv, portfolioVars
<1>1. /\ n \in Enrollments /\ enrollment[n].status = "pending" /\ enrollment'[n].status = "pending"
      /\ enrollment' \in [Enrollments -> EnrollmentRow]
      /\ \A e \in Enrollments : e # n => enrollment'[e] = enrollment[e]
      /\ \A e \in Enrollments : /\ enrollment'[e].user = enrollment[e].user
                                /\ enrollment'[e].org = enrollment[e].org
                                /\ enrollment'[e].status = enrollment[e].status
  BY DEF Touched
<1>2. Kept
  BY <1>1 DEF Kept, Created, Sent, Exists, Begun
<1>3. ShapeOK' /\ CallsOK'
  BY <1>1, <1>2 DEF ShapeOK
<1>4. TokensOK' /\ InvitesOK' /\ PortfolioOK'
  BY <1>2, RestStands
<1>5. SessionsOK' /\ OrgsOK'
  BY SessionsStand, OrgsStand
<1>6. \A u \in Users : ActiveFactors(u)' = ActiveFactors(u)
  BY <1>1 DEF ActiveFactors
<1>7. \A p \in Orgs : Proven(p)' = Proven(p)
  BY <1>1 DEF Proven
<1>8. MfaOK'
  <2>1. ASSUME NEW s \in Sessions, OpenedBy("confirm", s)' PROVE Confirms(s)'
    <3>1. Confirms(s)
      BY <2>1 DEF MfaOK, OpenedBy
    <3> QED
      BY <1>1, <3>1 DEF Confirms
  <2>2. ASSUME NEW e \in Enrollments, ~Begun(e)' PROVE enrollment'[e] = NoEnrollment
    BY <1>1, <2>2 DEF MfaOK, Begun
  <2>3. ASSUME NEW e \in Enrollments, Begun(e)'
        PROVE  /\ enrollment'[e].user \in Users
               /\ enrollment'[e].org \in Orgs /\ Exists(enrollment[e].org)'
    BY <1>1, <2>3 DEF MfaOK, Begun, Exists
  <2>4. ASSUME NEW e \in Enrollments, enrollment'[e].status = "consumed"
        PROVE  /\ enrollment'[e].attempts < AttemptLimit
               /\ \E s \in Sessions : session'[s].origin = <<"confirm", e>>
    BY <1>1, <2>4 DEF MfaOK
  <2>5. \A e \in Enrollments : enrollment'[e].status = "consumed" <=> factor'[e].status # "none"
    BY <1>1 DEF MfaOK
  <2>6. \A u \in Users : \A d, e \in ActiveFactors(u)' : d = e
    BY <1>6 DEF MfaOK
  <2>7. \A e \in Enrollments : factor'[e].status = "none" => ~factor'[e].acknowledged
    BY DEF MfaOK
  <2> QED
    BY <2>1, <2>2, <2>3, <2>4, <2>5, <2>6, <2>7 DEF MfaOK
<1>9. ProgressOK'
  BY <1>1, <1>7, ProgressStands DEF Activations, SameProgress
<1> QED
  BY <1>3, <1>4, <1>5, <1>8, <1>9

(* A wrong code keeps the invariant: the limit is in the update's condition. *)
LEMMA MissCommits ==
  ASSUME WorkspaceInv, NEW h \in Handlers, CommitMiss(h),
         UNCHANGED <<account, challenge, mailbox, member, invite, record, portfolioVars>>
  PROVE  WorkspaceInv'
<1> USE DEF WorkspaceInv
<1>1. PICK n : n = call[h].req.enrollment
  OBVIOUS
<1>2. n \in Enrollments
  BY <1>1, Served, RequestShape DEF CommitMiss, OfEnrollment
<1>3. /\ enrollment[n].status = "pending" /\ enrollment[n].attempts < AttemptLimit
      /\ enrollment' = [enrollment EXCEPT ![n].attempts = enrollment[n].attempts + 1]
      /\ Done(h) /\ UNCHANGED <<org, session, factor>>
  BY <1>1 DEF CommitMiss
<1>4. Touched(n)
  <2> DEFINE row == [enrollment[n] EXCEPT !.attempts = enrollment[n].attempts + 1]
  <2>1. enrollment[n] \in EnrollmentRow
    BY <1>2 DEF ShapeOK
  <2>2. enrollment[n].attempts + 1 \in 0..AttemptLimit
    BY <1>3, <2>1, MfaAssumption DEF EnrollmentRow
  <2>3. /\ row \in EnrollmentRow /\ row.status = enrollment[n].status
        /\ row.user = enrollment[n].user /\ row.org = enrollment[n].org
    BY <2>1, <2>2 DEF EnrollmentRow
  <2>4. enrollment' = [enrollment EXCEPT ![n] = row]
    BY <1>3
  <2> HIDE DEF row
  <2> QED
    BY <1>2, <1>3, <2>3, <2>4 DEF Touched, ShapeOK
<1> QED
  BY <1>3, <1>4, CallsAfter, TouchedStands

(* An enrolment may expire. *)
LEMMA EnrollmentExpires ==
  ASSUME WorkspaceInv, NEW n \in Enrollments, ExpireEnrollment(n),
         UNCHANGED <<account, challenge, mailbox, member, invite, record, portfolioVars>>
  PROVE  WorkspaceInv'
<1> USE DEF WorkspaceInv
<1>1. /\ enrollment[n].status = "pending"
      /\ enrollment' = [enrollment EXCEPT ![n].expired = TRUE]
      /\ UNCHANGED <<org, session, factor, call>>
  BY DEF ExpireEnrollment, Usable
<1>2. Touched(n)
  BY <1>1 DEF Touched, ShapeOK, EnrollmentRow
<1> QED
  BY <1>1, <1>2, CallsStand, TouchedStands DEF ShapeOK

(* The session that confirms is revoked, and a new one is opened in its place. *)
Rotated(n, b, u, e) ==
  /\ session' \in [Sessions -> SessionRow]
  /\ session'[n].user = u /\ session'[n].status # "none" /\ session'[n].origin = <<"confirm", e>>
  /\ session'[n].origin[1] = "confirm" /\ session'[n].origin[2] = e /\ session'[n].parent = b
  /\ session'[b].status = "revoked"
  /\ \A t \in Sessions : t # n =>
       /\ session'[t].user = session[t].user /\ session'[t].origin = session[t].origin
       /\ session'[t].parent = session[t].parent
       /\ t # b => session'[t].status = session[t].status

(* A session is revoked. *)
RevokedIn(f, g, b) == g = [f EXCEPT ![b].status = "revoked"]

(* Revoking a session changes its status alone. *)
LEMMA Revokes ==
  ASSUME NEW f \in [Sessions -> SessionRow], NEW b \in Sessions, NEW g, RevokedIn(f, g, b)
  PROVE  /\ g \in [Sessions -> SessionRow] /\ g[b].status = "revoked"
         /\ \A t \in Sessions : /\ g[t].user = f[t].user /\ g[t].origin = f[t].origin
                                /\ g[t].parent = f[t].parent
                                /\ t # b => g[t] = f[t]
BY DEF SessionRow, RevokedIn

(* A confirmation opens one session in place of the one it came with. *)
LEMMA Rotates ==
  ASSUME ShapeOK, NEW n \in Unused, NEW b \in Sessions, session[b].status # "none", NEW u \in Users,
         NEW status \in {"fresh", "live"}, NEW e \in Enrollments,
         RevokedIn(Opened(n, u, status, "confirm", e, b), session', b)
  PROVE  Rotated(n, b, u, e)
<1>1. PICK opened : opened = Opened(n, u, status, "confirm", e, b)
  OBVIOUS
<1>2. n \in Sessions /\ n # b
  BY DEF Unused
<1>3. /\ opened \in [Sessions -> SessionRow]
      /\ opened[n].user = u /\ opened[n].status = status /\ opened[n].origin = <<"confirm", e>>
      /\ opened[n].origin[1] = "confirm" /\ opened[n].origin[2] = e /\ opened[n].parent = b
      /\ \A t \in Sessions : t # n => opened[t] = session[t]
  BY <1>1, Opens DEF Origins
<1>4. RevokedIn(opened, session', b)
  BY <1>1
<1>5. /\ session' \in [Sessions -> SessionRow] /\ session'[b].status = "revoked"
      /\ \A t \in Sessions : /\ session'[t].user = opened[t].user
                             /\ session'[t].origin = opened[t].origin
                             /\ session'[t].parent = opened[t].parent
                             /\ t # b => session'[t] = opened[t]
  <2>1. opened \in [Sessions -> SessionRow]
    BY <1>3
  <2> QED
    BY <1>4, <2>1, Revokes
<1>6. session'[n] = opened[n]
  BY <1>2, <1>5
<1>7. ASSUME NEW t \in Sessions, t # n
      PROVE  /\ session'[t].user = session[t].user /\ session'[t].origin = session[t].origin
             /\ session'[t].parent = session[t].parent
             /\ t # b => session'[t].status = session[t].status
  BY <1>3, <1>5, <1>7
<1>8. /\ session'[n].user = u /\ session'[n].status # "none" /\ session'[n].origin = <<"confirm", e>>
      /\ session'[n].origin[1] = "confirm" /\ session'[n].origin[2] = e /\ session'[n].parent = b
  BY <1>3, <1>6
<1> QED
  BY <1>5, <1>7, <1>8 DEF Rotated

(* The active factor of the user is replaced. *)
Replaced(u, e) ==
  /\ factor' \in [Enrollments -> FactorRow]
  /\ factor'[e].status = "ACTIVE" /\ ~factor'[e].acknowledged
  /\ \A x \in Enrollments : x # e =>
       /\ factor'[x].acknowledged <=> factor[x].acknowledged
       /\ IF x \in ActiveFactors(u) THEN factor'[x].status = "REVOKED"
          ELSE factor'[x].status = factor[x].status

(* A confirmation leaves its user one factor in force. *)
LEMMA Replaces ==
  ASSUME ShapeOK, NEW u, NEW e \in Enrollments,
         factor' = [x \in Enrollments |->
                      IF x = e THEN [NoFactor EXCEPT !.status = "ACTIVE"]
                      ELSE IF x \in ActiveFactors(u) THEN [factor[x] EXCEPT !.status = "REVOKED"]
                      ELSE factor[x]]
  PROVE  Replaced(u, e)
<1> DEFINE new == [NoFactor EXCEPT !.status = "ACTIVE"]
           old(x) == [factor[x] EXCEPT !.status = "REVOKED"]
<1>1. new \in FactorRow /\ new.status = "ACTIVE" /\ ~new.acknowledged
  BY DEF NoFactor, FactorRow
<1>2. ASSUME NEW x \in Enrollments
      PROVE  /\ factor[x] \in FactorRow /\ old(x) \in FactorRow /\ old(x).status = "REVOKED"
             /\ old(x).acknowledged <=> factor[x].acknowledged
  BY DEF ShapeOK, FactorRow
<1>3. factor' = [x \in Enrollments |-> IF x = e THEN new
                                       ELSE IF x \in ActiveFactors(u) THEN old(x) ELSE factor[x]]
  OBVIOUS
<1> HIDE DEF new, old
<1>4. factor' \in [Enrollments -> FactorRow] /\ factor'[e] = new
  BY <1>1, <1>2, <1>3
<1>5. ASSUME NEW x \in Enrollments, x # e
      PROVE  factor'[x] = IF x \in ActiveFactors(u) THEN old(x) ELSE factor[x]
  BY <1>3, <1>5
<1> QED
  BY <1>1, <1>2, <1>4, <1>5 DEF Replaced

(* A confirmation keeps the invariant, in all its writes together. *)
LEMMA ConfirmationCommits ==
  ASSUME WorkspaceInv, NEW h \in Handlers, CommitConfirmation(h),
         UNCHANGED <<account, challenge, mailbox, member, invite, record, portfolioVars>>
  PROVE  WorkspaceInv'
<1> USE DEF WorkspaceInv, portfolioVars
<1>1. PICK q, u, e, b, n, status :
        /\ q = call[h].req /\ u = Actor(call[h].req) /\ e = call[h].req.enrollment
        /\ b = call[h].req.by /\ n = New(Unused) /\ status = call[h].seen
  OBVIOUS
<1>2. /\ e \in Enrollments /\ b \in Sessions /\ session[b].status # "none" /\ session[b].user = u
      /\ u \in Users /\ enrollment[e].user = u /\ status \in {"fresh", "live"}
      /\ n \in Unused /\ n \in Sessions /\ session[n].status = "none" /\ n # b
  <2>1. /\ e \in Enrollments /\ b \in Sessions /\ session[b].status # "none"
        /\ enrollment[e].user = u /\ status \in {"fresh", "live"} /\ session[b].user = u
    BY <1>1, Served, RequestShape DEF CommitConfirmation, Known, OfEnrollment, Actor
  <2>2. u \in Users
    BY <2>1 DEF SessionsOK, ShapeOK, SessionRow
  <2>3. n \in Unused
    BY <1>1, NewIsOne DEF CommitConfirmation
  <2> QED
    BY <2>1, <2>2, <2>3 DEF Unused
<1>3. /\ enrollment[e].status = "pending" /\ enrollment[e].attempts < AttemptLimit
      /\ enrollment' = [enrollment EXCEPT ![e].status = "consumed"]
      /\ factor' = [x \in Enrollments |->
                      IF x = e THEN [NoFactor EXCEPT !.status = "ACTIVE"]
                      ELSE IF x \in ActiveFactors(u) THEN [factor[x] EXCEPT !.status = "REVOKED"]
                      ELSE factor[x]]
      /\ RevokedIn(Opened(n, u, status, "confirm", e, b), session', b)
      /\ Done(h) /\ UNCHANGED org
  BY <1>1 DEF CommitConfirmation, RevokedIn
<1>4. /\ enrollment' \in [Enrollments -> EnrollmentRow] /\ enrollment'[e].status = "consumed"
      /\ enrollment'[e].user = u /\ enrollment'[e].org = enrollment[e].org
      /\ enrollment'[e].attempts < AttemptLimit
      /\ \A x \in Enrollments : x # e => enrollment'[x] = enrollment[x]
  BY <1>2, <1>3 DEF ShapeOK, EnrollmentRow
<1>5. Rotated(n, b, u, e)
  BY <1>2, <1>3, Rotates
<1>6. Replaced(u, e)
  BY <1>2, <1>3, Replaces
<1>7. factor[e].status = "none" /\ ~factor[e].acknowledged /\ Begun(e)
  BY <1>2, <1>3 DEF MfaOK, Begun
<1>8. Done(h) /\ UNCHANGED org
  BY <1>3
<1>9. /\ enrollment[e].status = "pending" /\ enrollment[e].user = u
  BY <1>2, <1>3
<1>10. \A x \in Enrollments : /\ factor'[x].acknowledged <=> factor[x].acknowledged
                              /\ enrollment'[x].org = enrollment[x].org
                              /\ enrollment'[x].user = enrollment[x].user
  BY <1>4, <1>6, <1>7, <1>9 DEF Replaced
<1>11. Kept
  <2>1. \A s \in Sessions : session[s].status # "none" =>
          /\ session'[s].status # "none" /\ session'[s].user = session[s].user
          /\ session'[s].origin = session[s].origin /\ session'[s].parent = session[s].parent
          /\ session[s].status = "revoked" => session'[s].status = "revoked"
    BY <1>2, <1>5 DEF Rotated
  <2>2. \A x \in Enrollments : factor[x].status # "none" => factor'[x].status # "none"
    BY <1>6, <1>7 DEF Replaced
  <2>3. \A x \in Enrollments : Begun(x) => Begun(x)'
    BY <1>4 DEF Begun
  <2> QED
    BY <1>8, <1>10, <2>1, <2>2, <2>3 DEF Kept, Created, Sent, Exists
<1>12. CallsOK' /\ call' \in [Handlers -> CallRow]
  BY <1>8, <1>11, CallsAfter
<1>13. ShapeOK'
  BY <1>4, <1>5, <1>6, <1>8, <1>12 DEF ShapeOK, Rotated, Replaced
<1>14. TokensOK' /\ InvitesOK' /\ PortfolioOK'
  BY <1>11, RestStands
<1>15. OrgsOK'
  BY <1>8, OrgsStand
<1>16. SessionsOK'
  <2>1. ASSUME NEW s \in Sessions, OpenedBy("verify", s)' \/ OpenedBy("login", s)'
        PROVE  Vouched(s)'
    <3>1. s # n
      BY <1>5, <2>1 DEF Rotated, OpenedBy
    <3>2. session'[s].origin = session[s].origin /\ session'[s].user = session[s].user
      BY <1>5, <3>1 DEF Rotated
    <3>3. Vouched(s)
      BY <2>1, <3>2 DEF SessionsOK, OpenedBy
    <3> QED
      BY <3>2, <3>3 DEF Vouched, OpenedBy, Created
  <2>2. ASSUME NEW s \in Sessions
        PROVE  /\ session'[s].status = "none" <=> OpenedBy("none", s)'
               /\ session'[s].status = "none" <=> session'[s].user = NoValue
    <3>1. CASE s = n
      BY <1>2, <1>5, <3>1, OrganizationsAssumption DEF Rotated, OpenedBy
    <3>2. CASE s # n
      <4>1. /\ session'[s].origin = session[s].origin /\ session'[s].user = session[s].user
            /\ session'[s].status = "none" <=> session[s].status = "none"
        BY <1>2, <1>5, <3>2 DEF Rotated
      <4> QED
        BY <4>1 DEF SessionsOK, OpenedBy
    <3> QED
      BY <3>1, <3>2
  <2>3. ASSUME NEW t \in Sessions PROVE session[t].origin # <<"confirm", e>>
    <3>1. SUFFICES ASSUME session[t].origin = <<"confirm", e>> PROVE FALSE
      OBVIOUS
    <3>2. OpenedBy("confirm", t) /\ session[t].origin[2] = e
      BY <3>1 DEF OpenedBy
    <3>3. Confirms(t)
      BY <3>2 DEF MfaOK
    <3> QED
      BY <1>9, <3>2, <3>3 DEF Confirms
  <2>4. ASSUME NEW s \in Sessions, NEW t \in Sessions, session'[s].origin = session'[t].origin,
               OpenedBy("verify", s)' \/ OpenedBy("confirm", s)'
        PROVE  s = t
    <3>1. CASE s # n /\ t # n
      BY <1>5, <2>4, <3>1 DEF Rotated, SessionsOK, OpenedBy
    <3>2. CASE s = n /\ t # n
      BY <1>5, <2>3, <2>4, <3>2 DEF Rotated
    <3>3. CASE s # n /\ t = n
      BY <1>5, <2>3, <2>4, <3>3 DEF Rotated
    <3> QED
      BY <3>1, <3>2, <3>3
  <2>5. ASSUME NEW r \in Registrations, challenge'[r].status = "consumed"
        PROVE  \E s \in Sessions : session'[s].origin = <<"verify", r>>
    <3>1. PICK s \in Sessions : session[s].origin = <<"verify", r>>
      BY <2>5 DEF SessionsOK
    <3>2. session[s].status # "none"
      BY <3>1 DEF SessionsOK, OpenedBy
    <3> QED
      BY <1>2, <1>5, <3>1, <3>2 DEF Rotated
  <2> QED
    BY <2>1, <2>2, <2>4, <2>5 DEF SessionsOK
<1>17. MfaOK'
  <2>1. ASSUME NEW x \in Enrollments, ~Begun(x)' PROVE enrollment'[x] = NoEnrollment
    BY <1>4, <2>1 DEF MfaOK, Begun
  <2>2. ASSUME NEW x \in Enrollments, Begun(x)'
        PROVE  /\ enrollment'[x].user \in Users
               /\ enrollment'[x].org \in Orgs /\ Exists(enrollment[x].org)'
    <3>1. Begun(x)
      BY <1>4, <1>7, <2>2 DEF Begun
    <3> QED
      BY <1>8, <1>10, <3>1 DEF MfaOK, Exists
  <2>3. \A x \in Enrollments : enrollment'[x].status = "consumed" <=> factor'[x].status # "none"
    <3>1. ASSUME NEW x \in Enrollments, x # e
          PROVE  enrollment'[x].status = "consumed" <=> factor'[x].status # "none"
      BY <1>4, <1>6, <3>1 DEF MfaOK, Replaced, ActiveFactors
    <3> QED
      BY <1>4, <1>6, <3>1 DEF Replaced
  <2>4. \A x \in Enrollments : factor'[x].status = "none" => ~factor'[x].acknowledged
    BY <1>6, <1>10 DEF MfaOK, Replaced
  <2>5. ASSUME NEW v \in Users, NEW d \in ActiveFactors(v)', NEW x \in ActiveFactors(v)' PROVE d = x
    <3>1. /\ d \in Enrollments /\ enrollment[d].user = v /\ factor'[d].status = "ACTIVE"
          /\ x \in Enrollments /\ enrollment[x].user = v /\ factor'[x].status = "ACTIVE"
      BY <1>10 DEF ActiveFactors
    <3>2. ASSUME NEW y \in Enrollments, y # e, enrollment[y].user = v, factor'[y].status = "ACTIVE"
          PROVE  v # u /\ y \in ActiveFactors(v)
      BY <1>6, <3>2 DEF Replaced, ActiveFactors
    <3>3. CASE d # e /\ x # e
      BY <3>1, <3>2, <3>3 DEF MfaOK
    <3> QED
      BY <1>9, <3>1, <3>2, <3>3
  <2>6. ASSUME NEW x \in Enrollments, enrollment'[x].status = "consumed"
        PROVE  /\ enrollment'[x].attempts < AttemptLimit
               /\ \E s \in Sessions : session'[s].origin = <<"confirm", x>>
    <3>1. CASE x = e
      BY <1>2, <1>4, <1>5, <3>1 DEF Rotated
    <3>2. CASE x # e
      <4>1. enrollment'[x] = enrollment[x]
        BY <1>4, <3>2
      <4>2. enrollment'[x].attempts < AttemptLimit
        BY <2>6, <4>1 DEF MfaOK
      <4>3. PICK s \in Sessions : session[s].origin = <<"confirm", x>>
        BY <2>6, <4>1 DEF MfaOK
      <4>4. session[s].status # "none"
        BY <4>3 DEF SessionsOK, OpenedBy
      <4>5. session'[s].origin = <<"confirm", x>>
        BY <1>2, <1>5, <4>3, <4>4 DEF Rotated
      <4> QED
        BY <4>2, <4>5
    <3> QED
      BY <3>1, <3>2
  <2>7. ASSUME NEW s \in Sessions, OpenedBy("confirm", s)' PROVE Confirms(s)'
    <3>1. CASE s = n
      <4>1. /\ session'[s].origin[2] = e /\ session'[s].parent = b /\ session'[s].user = u
            /\ session'[b].user = u /\ session'[b].status = "revoked"
        BY <1>2, <1>5, <3>1 DEF Rotated
      <4> QED
        BY <1>2, <1>4, <4>1 DEF Confirms
    <3>2. CASE s # n
      <4>1. /\ session'[s].origin = session[s].origin /\ session'[s].user = session[s].user
            /\ session'[s].parent = session[s].parent
        BY <1>5, <3>2 DEF Rotated
      <4>2. Confirms(s)
        BY <2>7, <4>1 DEF MfaOK, OpenedBy
      <4>3. PICK x, p : x = session[s].origin[2] /\ p = session[s].parent
        OBVIOUS
      <4>4. /\ x \in Enrollments /\ enrollment[x].status = "consumed"
            /\ session[s].user = enrollment[x].user
            /\ p \in Sessions /\ session[p].user = session[s].user /\ session[p].status = "revoked"
        BY <4>2, <4>3 DEF Confirms
      <4>5. /\ session'[p].user = session[p].user /\ session'[p].status = "revoked"
            /\ enrollment'[x] = enrollment[x]
        BY <1>4, <1>9, <1>11, <4>4 DEF Kept
      <4> QED
        BY <4>1, <4>3, <4>4, <4>5 DEF Confirms
    <3> QED
      BY <3>1, <3>2
  <2> QED
    BY <2>1, <2>2, <2>3, <2>4, <2>5, <2>6, <2>7 DEF MfaOK
<1>18. ProgressOK'
  <2>1. \A o \in Orgs : Proven(o)' = Proven(o)
    BY <1>10 DEF Proven
  <2> QED
    BY <1>8, <1>10, <2>1, ProgressStands DEF Activations, SameProgress
<1> QED
  BY <1>12, <1>13, <1>14, <1>15, <1>16, <1>17, <1>18

(* An acknowledgement keeps the invariant. *)
LEMMA AcknowledgementCommits ==
  ASSUME WorkspaceInv, NEW h \in Handlers, CommitAcknowledgement(h),
         UNCHANGED <<account, challenge, mailbox, member, invite, record, portfolioVars>>
  PROVE  WorkspaceInv'
<1> USE DEF WorkspaceInv, portfolioVars
<1>1. PICK e, o : e = call[h].req.enrollment /\ o = enrollment[call[h].req.enrollment].org
  OBVIOUS
<1>2. /\ e \in Enrollments /\ Begun(e) /\ factor[e].status # "none" /\ o = enrollment[e].org
      /\ o \in Orgs /\ Exists(o)
  <2>1. e \in Enrollments /\ Begun(e) /\ factor[e].status # "none"
    BY <1>1, Served, RequestShape DEF CommitAcknowledgement, Known, OfEnrollment
  <2> QED
    BY <1>1, <2>1 DEF MfaOK
<1>3. /\ org[o].state = "MFA_REQUIRED" /\ Enter(o, "PORTFOLIO_REQUIRED")
      /\ factor' = [factor EXCEPT ![e].acknowledged = TRUE]
      /\ Done(h) /\ UNCHANGED <<session, enrollment>>
  BY <1>1 DEF CommitAcknowledgement, At
<1>4. Entered(o, "PORTFOLIO_REQUIRED") /\ OrgsOK'
  BY <1>2, <1>3, Enters DEF Between, States
<1>5. /\ factor' \in [Enrollments -> FactorRow] /\ factor'[e].acknowledged
      /\ \A x \in Enrollments : /\ factor'[x].status = factor[x].status
                                /\ x # e => (factor'[x].acknowledged <=> factor[x].acknowledged)
  BY <1>2, <1>3 DEF ShapeOK, FactorRow
<1>6. Done(h) /\ UNCHANGED <<session, enrollment>>
  BY <1>3
<1>7. Kept
  BY <1>4, <1>5, <1>6 DEF Kept, Created, Sent, Begun, Entered
<1>8. CallsOK' /\ call' \in [Handlers -> CallRow]
  BY <1>6, <1>7, CallsAfter
<1>9. ShapeOK'
  BY <1>4, <1>5, <1>6, <1>8 DEF ShapeOK, Entered
<1>10. TokensOK' /\ InvitesOK' /\ PortfolioOK'
  BY <1>7, RestStands
<1>11. SessionsOK'
  BY <1>6, SessionsStand
<1>12. MfaOK'
  <2>1. \A u \in Users : ActiveFactors(u)' = ActiveFactors(u)
    BY <1>5, <1>6 DEF ActiveFactors
  <2>2. \A s \in Sessions : OpenedBy("confirm", s)' => Confirms(s)'
    BY <1>6 DEF MfaOK, OpenedBy, Confirms
  <2>3. \A x \in Enrollments : factor'[x].status = "none" => ~factor'[x].acknowledged
    BY <1>2, <1>5 DEF MfaOK
  <2>4. \A x \in Enrollments : Begun(x)' =>
          /\ enrollment'[x].user \in Users
          /\ enrollment'[x].org \in Orgs /\ Exists(enrollment[x].org)'
    BY <1>6, <1>7 DEF MfaOK, Kept, Begun
  <2>5. \A x \in Enrollments : enrollment'[x].status = "consumed" <=> factor'[x].status # "none"
    BY <1>5, <1>6 DEF MfaOK
  <2>6. \A x \in Enrollments : ~Begun(x)' => enrollment'[x] = NoEnrollment
    BY <1>6 DEF MfaOK, Begun
  <2>7. \A x \in Enrollments : enrollment'[x].status = "consumed" =>
          /\ enrollment'[x].attempts < AttemptLimit
          /\ \E s \in Sessions : session'[s].origin = <<"confirm", x>>
    BY <1>6 DEF MfaOK
  <2>8. \A u \in Users : \A d, x \in ActiveFactors(u)' : d = x
    BY <2>1 DEF MfaOK
  <2> QED
    BY <2>2, <2>3, <2>4, <2>5, <2>6, <2>7, <2>8 DEF MfaOK
<1>13. ProgressOK'
  <2>1. \A x \in Enrollments : factor[x].acknowledged => enrollment[x].org # o
    BY <1>3 DEF ProgressOK
  <2>2. \A p \in Orgs : p # o => Proven(p)' = Proven(p)
    BY <1>2, <1>5, <1>6 DEF Proven
  <2>3. Proven(o)' = {e}
    BY <1>2, <1>5, <1>6, <2>1 DEF Proven
  <2>4. \A p \in Orgs : org'[p].status = org[p].status
    BY <1>4 DEF Entered
  <2>5. \A p \in Orgs : p \in property' <=> org'[p].state \in {"READY_FOR_REVIEW", "ACTIVE"}
    BY <1>3, <1>4 DEF Entered, ProgressOK
  <2>6. ASSUME NEW x \in Enrollments, factor'[x].acknowledged
        PROVE  org'[enrollment'[x].org].state \in {"PORTFOLIO_REQUIRED", "READY_FOR_REVIEW", "ACTIVE"}
    <3>1. CASE x = e
      BY <1>2, <1>4, <1>6, <3>1 DEF Entered
    <3>2. CASE x # e
      <4>1. factor[x].acknowledged /\ enrollment[x].org # o /\ enrollment[x].org \in Orgs
        BY <1>5, <2>1, <2>6, <3>2 DEF MfaOK, Begun
      <4> QED
        BY <1>4, <1>6, <4>1 DEF Entered, ProgressOK
    <3> QED
      BY <3>1, <3>2
  <2>7. \A p \in Orgs : \A d, x \in Proven(p)' : d = x
    BY <2>2, <2>3 DEF ProgressOK
  <2>8. \A p \in Orgs : org'[p].state \in {"PORTFOLIO_REQUIRED", "READY_FOR_REVIEW", "ACTIVE"} =>
          Proven(p)' # {}
    BY <1>4, <2>2, <2>3 DEF ProgressOK, Entered
  <2>9. Activations' = Activations
    BY DEF Activations
  <2>10. /\ \A d \in Activations' : d.req.org \in Orgs /\ org'[d.req.org].status = "ACTIVE"
         /\ \A c, d \in Activations' : c.req.org = d.req.org => c = d
         /\ \A p \in Orgs : org'[p].status = "ACTIVE" => \E d \in Activations' : d.req.org = p
    BY <2>4, <2>9 DEF ProgressOK
  <2> QED
    BY <2>5, <2>6, <2>7, <2>8, <2>10 DEF ProgressOK
<1> QED
  BY <1>4, <1>8, <1>9, <1>10, <1>11, <1>12, <1>13

-----------------------------------------------------------------------------
(* Units join those of a property with a record of their own. *)
LEMMA UnitsJoin ==
  ASSUME ShapeOK, PortfolioOK, NEW o \in Orgs, NEW rows \in SUBSET Row, NEW e,
         IsFiniteSet(rows), DistinctCodes(rows), CodesOf(rows) \cap CodesOf(unit[o]) = {},
         \A row \in rows : row.building \in building[o] \cup {NoValue},
         e.made = rows, Made(o)' = Made(o) \cup {e},
         \A p \in Orgs : p # o => Made(p)' = Made(p),
         unit' = [unit EXCEPT ![o] = unit[o] \cup rows], UNCHANGED building,
         property' = property \cup {o},
         o \in property \/ (e.req.op = "foundation" /\ rows # {})
  PROVE  PortfolioOK' /\ unit' \in [Orgs -> SUBSET Row]
<1>1. /\ unit' \in [Orgs -> SUBSET Row] /\ unit'[o] = unit[o] \cup rows
      /\ \A p \in Orgs : p # o => unit'[p] = unit[p]
  BY DEF ShapeOK
<1>2. ASSUME NEW p \in Orgs, p # o
      PROVE  /\ \A d \in Made(p)' : d.made \subseteq unit'[p]
             /\ \A row \in unit'[p] : \E d \in Made(p)' : row \in d.made
             /\ \A c, d \in Made(p)' : c # d => CodesOf(c.made) \cap CodesOf(d.made) = {}
             /\ IsFiniteSet(unit'[p]) /\ DistinctCodes(unit'[p])
             /\ \A row \in unit'[p] : row.building \in building'[p] \cup {NoValue}
             /\ p \in property' <=> \E d \in Made(p)' : d.req.op = "foundation"
             /\ p \notin property' => Made(p)' = {}
             /\ p \in property' => unit'[p] # {}
  <2>1. /\ Made(p)' = Made(p) /\ unit'[p] = unit[p] /\ building' = building
        /\ p \in property' <=> p \in property
    BY <1>1, <1>2
  <2>2. /\ \A d \in Made(p)' : d.made \subseteq unit'[p]
        /\ \A row \in unit'[p] : \E d \in Made(p)' : row \in d.made
        /\ \A c, d \in Made(p)' : c # d => CodesOf(c.made) \cap CodesOf(d.made) = {}
    BY ONLY <2>1, PortfolioOK, p \in Orgs DEF PortfolioOK
  <2>3. /\ IsFiniteSet(unit'[p]) /\ DistinctCodes(unit'[p])
        /\ \A row \in unit'[p] : row.building \in building'[p] \cup {NoValue}
    BY ONLY <2>1, PortfolioOK, p \in Orgs DEF PortfolioOK
  <2>4. /\ p \in property' <=> \E d \in Made(p)' : d.req.op = "foundation"
        /\ p \notin property' => Made(p)' = {}
        /\ p \in property' => unit'[p] # {}
    BY ONLY <2>1, PortfolioOK, p \in Orgs DEF PortfolioOK
  <2> QED
    BY <2>2, <2>3, <2>4
<1>3. \A d \in Made(o)' : d.made \subseteq unit'[o]
  BY <1>1 DEF PortfolioOK
<1>4. \A row \in unit'[o] : \E d \in Made(o)' : row \in d.made
  BY <1>1 DEF PortfolioOK
<1>5. ASSUME NEW c \in Made(o)', NEW d \in Made(o)', c # d
      PROVE  CodesOf(c.made) \cap CodesOf(d.made) = {}
  <2>1. ASSUME NEW x \in Made(o) PROVE CodesOf(x.made) \subseteq CodesOf(unit[o])
    BY DEF PortfolioOK, CodesOf
  <2>2. CASE c \in Made(o) /\ d \in Made(o)
    BY <1>5, <2>2 DEF PortfolioOK
  <2>3. CASE c \in Made(o) /\ d = e
    BY <2>1, <2>3
  <2>4. CASE c = e /\ d \in Made(o)
    BY <2>1, <2>4
  <2> QED
    BY <1>5, <2>2, <2>3, <2>4
<1>6. IsFiniteSet(unit'[o])
  <2>1. IsFiniteSet(unit[o])
    BY DEF PortfolioOK
  <2> QED
    BY <1>1, <2>1, FS_Union
<1>7. DistinctCodes(unit'[o])
  <2>1. ASSUME NEW r \in unit[o], NEW s \in rows PROVE r.code # s.code
    BY DEF CodesOf
  <2>2. DistinctCodes(unit[o])
    BY DEF PortfolioOK
  <2> QED
    BY <1>1, <2>1, <2>2 DEF DistinctCodes
<1>8. \A row \in unit'[o] : row.building \in building'[o] \cup {NoValue}
  BY <1>1 DEF PortfolioOK
<1>9. \E d \in Made(o)' : d.req.op = "foundation"
  BY DEF PortfolioOK
<1>10. unit'[o] # {}
  BY <1>1 DEF PortfolioOK
<1>11. ASSUME NEW p \in Orgs
       PROVE  /\ \A d \in Made(p)' : d.made \subseteq unit'[p]
              /\ \A row \in unit'[p] : \E d \in Made(p)' : row \in d.made
              /\ \A c, d \in Made(p)' : c # d => CodesOf(c.made) \cap CodesOf(d.made) = {}
              /\ IsFiniteSet(unit'[p]) /\ DistinctCodes(unit'[p])
              /\ \A row \in unit'[p] : row.building \in building'[p] \cup {NoValue}
              /\ p \in property' <=> \E d \in Made(p)' : d.req.op = "foundation"
              /\ p \notin property' => Made(p)' = {}
              /\ p \in property' => unit'[p] # {}
  <2>1. CASE p = o
    BY <1>3, <1>4, <1>5, <1>6, <1>7, <1>8, <1>9, <1>10, <2>1
  <2>2. CASE p # o
    BY <1>2, <2>2
  <2> QED
    BY <2>1, <2>2
<1>12. PortfolioOK'
  BY <1>11 DEF PortfolioOK
<1> QED
  BY <1>1, <1>12

(* What the commits of a portfolio leave alone. *)
LEMMA OutsideStands ==
  ASSUME WorkspaceInv, Kept, UNCHANGED <<accountVars, member, invite, mfaVars>>,
         InviteRecords' = InviteRecords
  PROVE  TokensOK' /\ SessionsOK' /\ InvitesOK' /\ MfaOK'
<1> USE DEF WorkspaceInv, accountVars, mfaVars
<1>1. TokensOK' /\ SessionsOK'
  BY TokensStand, SessionsStand
<1>2. InvitesOK'
  BY InvitesStand
<1>3. MfaOK'
  BY MfaStands DEF SessionsOK, OpenedBy
<1> QED
  BY <1>1, <1>2, <1>3

(* A foundation keeps the invariant: the property and its unit come of one entry. *)
LEMMA FoundationCommits ==
  ASSUME WorkspaceInv, NEW h \in Handlers, CommitFoundation(h),
         UNCHANGED <<accountVars, member, invite, mfaVars>>
  PROVE  WorkspaceInv'
<1> USE DEF WorkspaceInv, accountVars, mfaVars
<1>1. PICK q, o, rows : /\ q = call[h].req /\ o = call[h].req.org
                        /\ rows = {[code |-> call[h].req.code, building |-> NoValue]}
  OBVIOUS
<1>2. /\ q \in Requests /\ q.op = "foundation" /\ o = q.org /\ o \in Orgs /\ Exists(o)
      /\ q.code \in Codes
  BY <1>1, Served, RequestShape DEF CommitFoundation, Known, OfOrganization
<1>3. /\ org[o].state = "PORTFOLIO_REQUIRED" /\ Enter(o, "READY_FOR_REVIEW")
      /\ property' = property \cup {o}
      /\ unit' = [unit EXCEPT ![o] = unit[o] \cup rows]
      /\ Record(q, rows) /\ Recorded(q) = {} /\ Done(h) /\ UNCHANGED building
  BY <1>1 DEF CommitFoundation, At
<1>4. Entered(o, "READY_FOR_REVIEW") /\ OrgsOK'
  BY <1>2, <1>3, Enters DEF Between, States
<1>5. PICK e : Entry(q, rows, e)
  BY <1>2, <1>3, RecordFiles DEF Filing
<1>6. /\ InviteRecords' = InviteRecords /\ Activations' = Activations
      /\ Made(o)' = Made(o) \cup {e} /\ \A p \in Orgs : p # o => Made(p)' = Made(p)
  BY <1>2, <1>5, EntryJoins DEF Makers
<1>7. e.made = rows /\ e.req.op = "foundation"
  BY <1>2, <1>5 DEF Entry
<1>8. /\ rows \in SUBSET Row /\ IsFiniteSet(rows) /\ DistinctCodes(rows) /\ rows # {}
      /\ \A row \in rows : row.building = NoValue
  <2>1. PICK row : row = [code |-> q.code, building |-> NoValue] /\ rows = {row}
    BY <1>1
  <2>2. row \in Row /\ row.building = NoValue
    BY <1>2, <2>1 DEF Row
  <2>3. IsFiniteSet(rows)
    BY <2>1, FS_Singleton
  <2> QED
    BY <2>1, <2>2, <2>3 DEF DistinctCodes
<1>9. unit[o] = {}
  <2>1. o \notin property
    BY <1>2, <1>3 DEF ProgressOK
  <2> QED
    BY <1>2, <2>1 DEF PortfolioOK
<1>10. PortfolioOK' /\ unit' \in [Orgs -> SUBSET Row]
  <2>1. CodesOf(rows) \cap CodesOf(unit[o]) = {}
    BY <1>9 DEF CodesOf
  <2> QED
    BY <1>2, <1>3, <1>6, <1>7, <1>8, <2>1, UnitsJoin
<1>11. Kept
  BY <1>3, <1>4 DEF Kept, Created, Sent, Begun, Entered
<1>12. CallsOK' /\ call' \in [Handlers -> CallRow]
  BY <1>3, <1>11, CallsAfter
<1>13. ShapeOK'
  BY <1>2, <1>3, <1>4, <1>10, <1>12 DEF ShapeOK, Entered
<1>14. TokensOK' /\ SessionsOK' /\ InvitesOK' /\ MfaOK'
  BY <1>6, <1>11, OutsideStands
<1>15. ProgressOK'
  <2>1. /\ org'[o].state = "READY_FOR_REVIEW" /\ \A p \in Orgs : p # o => org'[p] = org[p]
        /\ \A p \in Orgs : org'[p].status = org[p].status
    BY <1>4 DEF Entered
  <2>2. \A p \in Orgs : p \in property' <=> org'[p].state \in {"READY_FOR_REVIEW", "ACTIVE"}
    BY <1>2, <1>3, <2>1 DEF ProgressOK
  <2>3. \A p \in Orgs : Proven(p)' = Proven(p)
    BY DEF Proven
  <2>4. \A p \in Orgs : org'[p].state \in {"PORTFOLIO_REQUIRED", "READY_FOR_REVIEW", "ACTIVE"} <=>
                        org[p].state \in {"PORTFOLIO_REQUIRED", "READY_FOR_REVIEW", "ACTIVE"}
    BY <1>3, <2>1
  <2>5. ASSUME NEW x \in Enrollments, factor'[x].acknowledged
        PROVE  org'[enrollment'[x].org].state \in {"PORTFOLIO_REQUIRED", "READY_FOR_REVIEW", "ACTIVE"}
    <3>1. enrollment[x].org \in Orgs
      BY <2>5 DEF MfaOK, Begun
    <3> QED
      BY <2>4, <2>5, <3>1 DEF ProgressOK
  <2>6. /\ \A p \in Orgs : \A d, x \in Proven(p)' : d = x
        /\ \A p \in Orgs : org'[p].state \in {"PORTFOLIO_REQUIRED", "READY_FOR_REVIEW", "ACTIVE"} =>
             Proven(p)' # {}
    BY <2>3, <2>4 DEF ProgressOK
  <2>7. /\ \A d \in Activations' : d.req.org \in Orgs /\ org'[d.req.org].status = "ACTIVE"
        /\ \A c, d \in Activations' : c.req.org = d.req.org => c = d
        /\ \A p \in Orgs : org'[p].status = "ACTIVE" => \E d \in Activations' : d.req.org = p
    BY <1>6, <2>1 DEF ProgressOK
  <2> QED
    BY <2>2, <2>5, <2>6, <2>7 DEF ProgressOK
<1> QED
  BY <1>4, <1>10, <1>12, <1>13, <1>14, <1>15

(* A building keeps the invariant. *)
LEMMA BuildingCommits ==
  ASSUME WorkspaceInv, NEW h \in Handlers, CommitBuilding(h),
         UNCHANGED <<accountVars, member, invite, mfaVars>>
  PROVE  WorkspaceInv'
<1> USE DEF WorkspaceInv, accountVars, mfaVars
<1>1. PICK q, o : q = call[h].req /\ o = call[h].req.org
  OBVIOUS
<1>2. q \in Requests /\ q.op = "building" /\ o = q.org /\ o \in Orgs /\ q.name \in Names
  BY <1>1, Served, RequestShape DEF CommitBuilding, OfOrganization
<1>3. /\ building' = [building EXCEPT ![o] = building[o] \cup {q.name}]
      /\ Record(q, {}) /\ Recorded(q) = {} /\ Done(h) /\ UNCHANGED <<org, property, unit>>
  BY <1>1 DEF CommitBuilding
<1>4. PICK e : Entry(q, {}, e)
  BY <1>2, <1>3, RecordFiles DEF Filing
<1>5. /\ InviteRecords' = InviteRecords /\ Activations' = Activations
      /\ \A p \in Orgs : Made(p)' = Made(p)
  BY <1>2, <1>4, EntryJoins DEF Makers
<1>6. building' \in [Orgs -> SUBSET Names] /\ \A p \in Orgs : building[p] \subseteq building'[p]
  BY <1>2, <1>3 DEF ShapeOK
<1>7. Kept
  BY <1>3, <1>6 DEF Kept, Created, Sent, Begun, Exists
<1>8. CallsOK' /\ call' \in [Handlers -> CallRow]
  BY <1>3, <1>7, CallsAfter
<1>9. ShapeOK'
  BY <1>3, <1>6, <1>8 DEF ShapeOK
<1>10. TokensOK' /\ SessionsOK' /\ InvitesOK' /\ MfaOK'
  BY <1>5, <1>7, OutsideStands
<1>11. OrgsOK'
  BY <1>3, OrgsStand
<1>12. PortfolioOK'
  BY <1>3, <1>5, <1>6, PortfolioStands
<1>13. ProgressOK'
  BY <1>3, <1>5, ProgressStands DEF SameProgress, Proven
<1> QED
  BY <1>8, <1>9, <1>10, <1>11, <1>12, <1>13

(* A unit or an import keeps the invariant: its codes are free when it writes them. *)
LEMMA UnitsCommit ==
  ASSUME WorkspaceInv, NEW h \in Handlers, CommitUnits(h),
         UNCHANGED <<accountVars, member, invite, mfaVars>>
  PROVE  WorkspaceInv'
<1> USE DEF WorkspaceInv, accountVars, mfaVars
<1>1. PICK q, o, rows : q = call[h].req /\ o = call[h].req.org /\ rows = call[h].req.rows
  OBVIOUS
<1>2. q \in Requests /\ q.op \in {"unit", "import"} /\ Known(q, call[h].seen)
  BY <1>1, Served DEF CommitUnits
<1>3. /\ o = q.org /\ rows = q.rows /\ o \in Orgs /\ o \in property
      /\ rows \in SUBSET Row /\ IsFiniteSet(rows) /\ DistinctCodes(rows)
      /\ \A row \in rows : row.building \in building[o] \cup {NoValue}
  BY <1>1, <1>2, RequestShape, RowsShape DEF Known, OfOrganization
<1>4. /\ CodesOf(rows) \cap CodesOf(unit[o]) = {}
      /\ unit' = [unit EXCEPT ![o] = unit[o] \cup rows]
      /\ Record(q, rows) /\ Recorded(q) = {} /\ Done(h) /\ UNCHANGED <<org, property, building>>
  BY <1>1 DEF CommitUnits
<1>5. PICK e : Entry(q, rows, e)
  BY <1>2, <1>4, RecordFiles DEF Filing
<1>6. /\ InviteRecords' = InviteRecords /\ Activations' = Activations
      /\ Made(o)' = Made(o) \cup {e} /\ \A p \in Orgs : p # o => Made(p)' = Made(p)
  BY <1>2, <1>3, <1>5, EntryJoins DEF Makers
<1>7. e.made = rows /\ property' = property \cup {o}
  BY <1>3, <1>4, <1>5 DEF Entry
<1>8. PortfolioOK' /\ unit' \in [Orgs -> SUBSET Row]
  BY <1>3, <1>4, <1>6, <1>7, UnitsJoin
<1>9. Kept
  BY <1>4 DEF Kept, Created, Sent, Begun, Exists
<1>10. CallsOK' /\ call' \in [Handlers -> CallRow]
  BY <1>4, <1>9, CallsAfter
<1>11. ShapeOK'
  BY <1>4, <1>8, <1>10 DEF ShapeOK
<1>12. TokensOK' /\ SessionsOK' /\ InvitesOK' /\ MfaOK'
  BY <1>6, <1>9, OutsideStands
<1>13. OrgsOK'
  BY <1>4, OrgsStand
<1>14. ProgressOK'
  BY <1>4, <1>6, ProgressStands DEF SameProgress, Proven
<1> QED
  BY <1>8, <1>10, <1>11, <1>12, <1>13, <1>14

(* An activation keeps the invariant: it tests the stage again when it writes. *)
LEMMA ActivationCommits ==
  ASSUME WorkspaceInv, NEW h \in Handlers, CommitActivation(h),
         UNCHANGED <<accountVars, mfaVars, portfolioVars>>
  PROVE  WorkspaceInv'
<1> USE DEF WorkspaceInv, accountVars, mfaVars, portfolioVars
<1>1. PICK q, o : q = call[h].req /\ o = call[h].req.org
  OBVIOUS
<1>2. q \in Requests /\ q.op = "activate" /\ o = q.org /\ o \in Orgs /\ Exists(o)
  BY <1>1, Served, RequestShape DEF CommitActivation, Known, OfOrganization
<1> DEFINE row == [status |-> "ACTIVE", version |-> org[o].version + 1, slug |-> org[o].slug,
                   state |-> "ACTIVE"]
<1>3. /\ org[o].status = "ONBOARDING" /\ org[o].state = "READY_FOR_REVIEW"
      /\ org' = [org EXCEPT ![o] = row]
      /\ Record(q, o) /\ Recorded(q) = {} /\ Done(h) /\ UNCHANGED <<member, invite>>
  BY <1>1 DEF CommitActivation, At
<1>4. org[o] \in OrgRow /\ org[o].version = 2 /\ org[o].slug # NoValue
  BY <1>2, <1>3, RowsAgree DEF Agrees
<1>5. row.status = "ACTIVE" /\ row.state = "ACTIVE" /\ row.version = 3 /\ row.slug = org[o].slug
  BY <1>4
<1>6. row \in OrgRow
  BY <1>4 DEF OrgRow, States
<1> HIDE DEF row
<1>7. Agrees(row)
  BY <1>4, <1>5 DEF Agrees
<1>8. /\ org' \in [Orgs -> {NoOrg} \cup OrgRow] /\ org'[o] = row
      /\ \A p \in Orgs : p # o => org'[p] = org[p]
      /\ \A p \in Orgs : Exists(p)' <=> Exists(p)
      /\ OrgsOK'
  BY <1>2, <1>3, <1>6, <1>7, OrgMoves
<1>9. PICK e : Entry(q, o, e)
  BY <1>2, <1>3, RecordFiles DEF Filing
<1>10. /\ InviteRecords' = InviteRecords /\ Activations' = Activations \cup {e} /\ e.req.org = o
       /\ \A p \in Orgs : Made(p)' = Made(p)
  BY <1>2, <1>9, EntryJoins DEF Makers, Entry
<1>11. Kept
  BY <1>3, <1>8 DEF Kept, Created, Sent, Begun
<1>12. CallsOK' /\ call' \in [Handlers -> CallRow]
  BY <1>3, <1>11, CallsAfter
<1>13. ShapeOK'
  BY <1>3, <1>8, <1>12 DEF ShapeOK
<1>14. TokensOK' /\ SessionsOK' /\ InvitesOK' /\ MfaOK'
  BY <1>3, <1>10, <1>11, OutsideStands
<1>15. PortfolioOK'
  BY <1>10, PortfolioStands
<1>16. ProgressOK'
  <2>1. \A p \in Orgs : p \in property' <=> org'[p].state \in {"READY_FOR_REVIEW", "ACTIVE"}
    BY <1>2, <1>3, <1>5, <1>8 DEF ProgressOK
  <2>2. \A p \in Orgs : Proven(p)' = Proven(p)
    BY DEF Proven
  <2>3. \A p \in Orgs : org'[p].state \in {"PORTFOLIO_REQUIRED", "READY_FOR_REVIEW", "ACTIVE"} <=>
                        org[p].state \in {"PORTFOLIO_REQUIRED", "READY_FOR_REVIEW", "ACTIVE"}
    BY <1>3, <1>5, <1>8
  <2>4. ASSUME NEW x \in Enrollments, factor'[x].acknowledged
        PROVE  org'[enrollment'[x].org].state \in {"PORTFOLIO_REQUIRED", "READY_FOR_REVIEW", "ACTIVE"}
    <3>1. enrollment[x].org \in Orgs
      BY <2>4 DEF MfaOK, Begun
    <3> QED
      BY <2>3, <2>4, <3>1 DEF ProgressOK
  <2>5. /\ \A p \in Orgs : \A d, x \in Proven(p)' : d = x
        /\ \A p \in Orgs : org'[p].state \in {"PORTFOLIO_REQUIRED", "READY_FOR_REVIEW", "ACTIVE"} =>
             Proven(p)' # {}
    BY <2>2, <2>3 DEF ProgressOK
  <2>6. \A d \in Activations : d.req.org # o
    BY <1>3 DEF ProgressOK
  <2>7. \A d \in Activations' : d.req.org \in Orgs /\ org'[d.req.org].status = "ACTIVE"
    BY <1>2, <1>5, <1>8, <1>10 DEF ProgressOK
  <2>8. \A c, d \in Activations' : c.req.org = d.req.org => c = d
    BY <1>10, <2>6 DEF ProgressOK
  <2>9. \A p \in Orgs : org'[p].status = "ACTIVE" => \E d \in Activations' : d.req.org = p
    BY <1>8, <1>10 DEF ProgressOK
  <2> QED
    BY <2>1, <2>4, <2>5, <2>7, <2>8, <2>9 DEF ProgressOK
<1> QED
  BY <1>8, <1>12, <1>13, <1>14, <1>15, <1>16

-----------------------------------------------------------------------------
(* The invariant: it holds at first, and every step keeps it. *)
LEMMA WorkspaceInit ==
  ASSUME Init
  PROVE  WorkspaceInv
<1> USE DEF Init, AccountsInit, OrganizationsInit, MfaInit, PortfolioInit
<1>1. ShapeOK
  <2>1. call \in [Handlers -> CallRow]
    BY Blanks
  <2>2. enrollment \in [Enrollments -> EnrollmentRow] /\ factor \in [Enrollments -> FactorRow]
    BY Blanks
  <2>3. account \in [Users -> AccountRow] /\ challenge \in [Registrations -> ChallengeRow]
    BY DEF AccountRow, ChallengeRow
  <2>4. session \in [Sessions -> SessionRow]
    BY DEF SessionRow, Origins
  <2>5. invite \in [Invites -> InviteRow]
    BY DEF InviteRow
  <2>6. /\ org \in [Orgs -> {NoOrg} \cup OrgRow]
        /\ member \in [Orgs -> [Users -> Guests \cup {"OWNER", NoValue}]]
    OBVIOUS
  <2>7. property \subseteq Orgs /\ building \in [Orgs -> SUBSET Names] /\ unit \in [Orgs -> SUBSET Row]
    OBVIOUS
  <2> QED
    BY <2>1, <2>2, <2>3, <2>4, <2>5, <2>6, <2>7 DEF ShapeOK
<1>2. /\ \A r \in Registrations : challenge[r].status = "none"
      /\ \A u \in Users : account[u].status = "NONE"
      /\ \A s \in Sessions : /\ session[s].status = "none" /\ session[s].user = NoValue
                             /\ session[s].origin[1] = "none"
      /\ \A i \in Invites : invite[i].status = "none"
  OBVIOUS
<1>3. /\ \A e \in Enrollments : enrollment[e] = NoEnrollment /\ factor[e] = NoFactor
      /\ \A o \in Orgs : org[o] = NoOrg /\ \A u \in Users : member[o][u] = NoValue
      /\ \A o \in Orgs : unit[o] = {} /\ building[o] = {}
      /\ property = {} /\ record = {}
      /\ \A h \in Handlers : call[h].stage = "idle"
  BY DEF Idle
<1> HIDE DEF Init, AccountsInit, OrganizationsInit, MfaInit, PortfolioInit
<1>4. TokensOK
  BY <1>2 DEF TokensOK, Created, Pending
<1>5. SessionsOK
  BY <1>2 DEF SessionsOK, OpenedBy
<1>6. OrgsOK
  BY <1>3, Blanks DEF OrgsOK, Exists
<1>7. InvitesOK
  BY <1>2, <1>3, OrganizationsAssumption
  DEF InvitesOK, Sent, Waiting, Accepted, InviteRecords
<1>8. MfaOK
  BY <1>2, <1>3, Blanks DEF MfaOK, Begun, ActiveFactors, OpenedBy
<1>9. PortfolioOK
  BY <1>3, FS_EmptySet DEF PortfolioOK, Made, DistinctCodes
<1>10. ProgressOK
  <2>1. \A o \in Orgs : Proven(o) = {}
    BY <1>3, Blanks DEF Proven
  <2>2. Activations = {}
    BY <1>3 DEF Activations
  <2> QED
    BY <1>3, <2>1, <2>2, Blanks DEF ProgressOK
<1>11. CallsOK
  BY <1>3 DEF CallsOK
<1> QED
  BY <1>1, <1>4, <1>5, <1>6, <1>7, <1>8, <1>9, <1>10, <1>11 DEF WorkspaceInv

(* Every commit keeps the invariant. *)
LEMMA CommitsKeep ==
  ASSUME WorkspaceInv, NEW h \in Handlers, Commit(h)
  PROVE  WorkspaceInv'
<1>1. CASE CommitAccount(h) /\ UNCHANGED workspaceVars
  BY <1>1, RegistrationCommits, VerificationCommits, LoginCommits, LogoutCommits DEF CommitAccount
<1>2. CASE CommitOrganization(h) /\ UNCHANGED <<accountVars, mfaVars, portfolioVars>>
  BY <1>2, CreationCommits, ConfigurationCommits, InvitationCommits, AcceptanceCommits
  DEF CommitOrganization
<1>3. CASE /\ CommitMfa(h)
           /\ UNCHANGED <<account, challenge, mailbox, member, invite, record, portfolioVars>>
  BY <1>3, FirstEnrollmentCommits, NextEnrollmentCommits, MissCommits, ConfirmationCommits,
     AcknowledgementCommits DEF CommitMfa
<1>4. CASE CommitPortfolio(h) /\ UNCHANGED <<accountVars, member, invite, mfaVars>>
  BY <1>4, FoundationCommits, BuildingCommits, UnitsCommit DEF CommitPortfolio
<1>5. CASE CommitActivation(h) /\ UNCHANGED <<accountVars, mfaVars, portfolioVars>>
  BY <1>5, ActivationCommits
<1> QED
  BY <1>1, <1>2, <1>3, <1>4, <1>5 DEF Commit, workspaceVars

(* The passage of time keeps the invariant. *)
LEMMA TimeKeeps ==
  ASSUME WorkspaceInv, Elapse
  PROVE  WorkspaceInv'
<1>1. CASE TimePasses /\ UNCHANGED workspaceVars
  BY <1>1, ChallengeExpires, SessionAges DEF TimePasses
<1>2. CASE /\ \E i \in Invites : ExpireInvite(i)
           /\ UNCHANGED <<accountVars, mfaVars, portfolioVars>>
  BY <1>2, InviteExpires
<1>3. CASE /\ \E e \in Enrollments : ExpireEnrollment(e)
           /\ UNCHANGED <<account, challenge, mailbox, member, invite, record, portfolioVars>>
  BY <1>3, EnrollmentExpires
<1> QED
  BY <1>1, <1>2, <1>3 DEF Elapse, workspaceVars

(* Every step keeps the invariant. *)
LEMMA WorkspaceStep ==
  ASSUME WorkspaceInv, [Next]_vars
  PROVE  WorkspaceInv'
<1>1. CASE Next
  <2>1. ASSUME NEW h \in Handlers, Serves(h) PROVE WorkspaceInv'
    BY <2>1, QuietSteps, CommitsKeep, MailArrives DEF Serves
  <2> QED
    BY <1>1, <2>1, TimeKeeps DEF Next
<1>2. CASE UNCHANGED vars
  <2> USE <1>2 DEF vars, accountVars, organizationVars, mfaVars, portfolioVars, WorkspaceInv
  <2>1. Kept
    BY DEF Kept, Created, Exists, Sent, Begun
  <2>2. CallsOK'
    BY <2>1, CallsStand
  <2>3. TokensOK' /\ SessionsOK'
    BY TokensStand, SessionsStand
  <2>4. OrgsOK' /\ InvitesOK' /\ MfaOK' /\ PortfolioOK' /\ ProgressOK'
    <3>1. \A s \in Sessions : session[s].status = "none" => session'[s].origin[1] # "confirm"
      BY DEF SessionsOK, OpenedBy
    <3> QED
      BY <2>1, <3>1, WorkspaceStands DEF workspaceVars
  <2>5. ShapeOK'
    BY DEF ShapeOK
  <2> QED
    BY <2>2, <2>3, <2>4, <2>5
<1> QED
  BY <1>1, <1>2

(* The way from a registration to an active organization is sound: accounts, sessions,*)
(* organizations, invitations, enrolments, portfolios and the requests in service     *)
(* agree in every reachable state, for any number of each.                            *)
THEOREM WorkspaceIsSound == Spec => []WorkspaceInv
<1>1. Init => WorkspaceInv
  BY WorkspaceInit
<1>2. WorkspaceInv /\ [Next]_vars => WorkspaceInv'
  BY WorkspaceStep
<1> QED
  BY <1>1, <1>2, PTL DEF Spec

-----------------------------------------------------------------------------
(* What the invariant says of the stages, and of sets with one element at most. *)
LEMMA Few ==
  ASSUME NEW S, \A x, y \in S : x = y
  PROVE  /\ Cardinality(S) <= 1
         /\ S # {} => Cardinality(S) = 1
         /\ S = {} => Cardinality(S) = 0
<1>1. CASE S = {}
  BY <1>1, FS_EmptySet
<1>2. CASE S # {}
  <2>1. PICK x : S = {x}
    BY <1>2
  <2> QED
    BY <2>1, FS_Singleton
<1> QED
  BY <1>1, <1>2

(* The names of the stages, in their order. *)
LEMMA StageNames ==
  /\ Len(Stages) = 6 /\ Stages[1] = "ORGANIZATION_CREATED" /\ Stages[2] = "WORKSPACE_CONFIGURED"
  /\ Stages[3] = "MFA_REQUIRED" /\ Stages[4] = "PORTFOLIO_REQUIRED"
  /\ Stages[5] = "READY_FOR_REVIEW" /\ Stages[6] = "ACTIVE"
BY DEF Stages

(* The place of every stage. *)
LEMMA StageTable ==
  ASSUME ShapeOK, NEW o \in Orgs
  PROVE  /\ Stage(o) \in 0..6
         /\ Stage(o) = 0 <=> ~Exists(o)
         /\ Exists(o) => /\ Stage(o) = 1 <=> org[o].state = "ORGANIZATION_CREATED"
                         /\ Stage(o) = 2 <=> org[o].state = "WORKSPACE_CONFIGURED"
                         /\ Stage(o) = 3 <=> org[o].state = "MFA_REQUIRED"
                         /\ Stage(o) = 4 <=> org[o].state = "PORTFOLIO_REQUIRED"
                         /\ Stage(o) = 5 <=> org[o].state = "READY_FOR_REVIEW"
                         /\ Stage(o) = 6 <=> org[o].state = "ACTIVE"
<1>1. CASE ~Exists(o)
  BY <1>1 DEF Stage, Exists
<1>2. CASE Exists(o)
  <2>1. org[o].state \in States
    BY <1>2, Blanks DEF ShapeOK, Exists, OrgRow
  <2>2. \E i \in 1..6 : Stages[i] = org[o].state
    BY <2>1, StageNames DEF States
  <2>3. Stage(o) \in 1..6 /\ Stages[Stage(o)] = org[o].state
    BY <1>2, <2>2, StageNames DEF Stage, Exists
  <2>4. PICK k \in 1..6 : k = Stage(o)
    BY <2>3
  <2>5. Stages[k] = org[o].state
    BY <2>3, <2>4
  <2>6. k = 1 \/ k = 2 \/ k = 3 \/ k = 4 \/ k = 5 \/ k = 6
    OBVIOUS
  <2> QED
    BY <1>2, <2>4, <2>5, <2>6, StageNames
<1> QED
  BY <1>1, <1>2

(* The whole progress of an organization can be read off its stage. *)
LEMMA StageTells ==
  ASSUME WorkspaceInv, NEW o \in Orgs
  PROVE  /\ Stage(o) \in 0..6
         /\ Proven(o) # {} <=> Stage(o) >= 4
         /\ o \in property <=> Stage(o) >= 5
         /\ org[o].status = "ACTIVE" <=> Stage(o) = 6
         /\ org[o].slug # NoValue <=> Stage(o) >= 2
<1> USE DEF WorkspaceInv
<1>1. CASE ~Exists(o)
  <2>1. Stage(o) = 0
    BY <1>1, StageTable
  <2>2. org[o] = NoOrg
    BY <1>1 DEF ShapeOK, Exists, OrgRow
  <2>3. Proven(o) = {}
    BY <1>1 DEF Proven, MfaOK, Begun
  <2>4. o \notin property
    BY <2>2, Blanks DEF ProgressOK
  <2> QED
    BY <2>1, <2>2, <2>3, <2>4, Blanks
<1>2. CASE Exists(o)
  <2>1. /\ Stage(o) \in 1..6
        /\ Stage(o) = 1 <=> org[o].state = "ORGANIZATION_CREATED"
        /\ Stage(o) = 4 <=> org[o].state = "PORTFOLIO_REQUIRED"
        /\ Stage(o) = 5 <=> org[o].state = "READY_FOR_REVIEW"
        /\ Stage(o) = 6 <=> org[o].state = "ACTIVE"
    BY <1>2, StageTable
  <2>2. org[o].status = "ACTIVE" <=> org[o].state = "ACTIVE"
    BY <1>2 DEF OrgsOK, At
  <2>3. org[o].slug = NoValue <=> org[o].state = "ORGANIZATION_CREATED"
    BY <1>2 DEF OrgsOK, At
  <2>4. Proven(o) # {} <=> org[o].state \in {"PORTFOLIO_REQUIRED", "READY_FOR_REVIEW", "ACTIVE"}
    BY DEF ProgressOK, Proven
  <2>5. o \in property <=> org[o].state \in {"READY_FOR_REVIEW", "ACTIVE"}
    BY DEF ProgressOK
  <2> QED
    BY <2>1, <2>2, <2>3, <2>4, <2>5
<1> QED
  BY <1>1, <1>2

-----------------------------------------------------------------------------
(* Every variable has the values the schema and the handlers give it, and the   *)
(* wrong codes of an enrolment stay within their limit, however they are raced. *)
THEOREM WorkspaceTypeCorrect == Spec => []WorkspaceTypeOK
<1>1. ASSUME WorkspaceInv PROVE WorkspaceTypeOK
  <2> USE <1>1 DEF WorkspaceInv
  <2>1. AccountsTypeOK
    <3>1. /\ account \in [Users -> [status : {"NONE", "PENDING", "ACTIVE"},
                                    password : Registrations \cup {NoValue}]]
          /\ challenge \in [Registrations ->
               [user : Users \cup {NoValue},
                status : {"none", "pending", "revoked", "consumed", "expired"}]]
      BY DEF ShapeOK, AccountRow, ChallengeRow
    <3>2. ASSUME NEW s \in Sessions
          PROVE  /\ session[s].status \in {"none", "fresh", "live", "revoked", "expired"}
                 /\ session[s].user \in Users \cup {NoValue}
                 /\ session[s].status = "none" <=> session[s].user = NoValue
                 /\ session[s].parent \in Sessions \cup {NoValue}
      BY DEF ShapeOK, SessionRow, SessionsOK
    <3>3. \A h \in Handlers : call[h].stage \in {"idle", "commit", "mail"}
      BY DEF ShapeOK, CallRow
    <3> QED
      BY <3>1, <3>2, <3>3 DEF AccountsTypeOK
  <2>2. OrganizationsTypeOK
    <3>1. States \subseteq {Stages[i] : i \in 1..Len(Stages)}
      BY StageNames DEF States
    <3>2. OrgRow \subseteq [status : {"ONBOARDING", "ACTIVE"}, version : 1..3,
                            slug : Slugs \cup {NoValue}, state : {Stages[i] : i \in 1..Len(Stages)}]
      BY <3>1 DEF OrgRow
    <3>3. org \in [Orgs -> {NoOrg} \cup
            [status : {"ONBOARDING", "ACTIVE"}, version : 1..3, slug : Slugs \cup {NoValue},
             state : {Stages[i] : i \in 1..Len(Stages)}]]
      BY <3>2 DEF ShapeOK
    <3>4. \A i \in Invites : invite[i].status \in {"none", "pending", "expired", "accepted", "revoked"}
      BY DEF ShapeOK, InviteRow
    <3> QED
      BY <3>3, <3>4 DEF OrganizationsTypeOK, ShapeOK
  <2>3. MfaTypeOK
    BY DEF MfaTypeOK, ShapeOK, EnrollmentRow, FactorRow
  <2>4. PortfolioTypeOK
    BY DEF PortfolioTypeOK, ShapeOK
  <2> QED
    BY <2>1, <2>2, <2>3, <2>4 DEF WorkspaceTypeOK
<1> QED
  BY <1>1, WorkspaceIsSound, PTL

(* An address has at most one live token; an account is active exactly when a      *)
(* delivered token of it was spent, each token opens one session and no more, and  *)
(* every login used a password that was mailed to the owner of the session.        *)
THEOREM TokensSpentOnce == Spec => []TokensAreSpentOnce
<1>1. ASSUME WorkspaceInv PROVE TokensAreSpentOnce
  <2> USE <1>1 DEF WorkspaceInv
  <2>1. ASSUME NEW u \in Users
        PROVE  /\ Cardinality(Pending(u)) <= 1
               /\ account[u].status = "ACTIVE" <=>
                    \E r \in mailbox \cap Registrations :
                      challenge[r] = [user |-> u, status |-> "consumed"]
    <3>1. Cardinality(Pending(u)) <= 1
      BY Few DEF TokensOK
    <3>2. ASSUME NEW r \in Registrations
          PROVE  challenge[r] = [user |-> u, status |-> "consumed"] <=>
                   challenge[r].user = u /\ challenge[r].status = "consumed"
      BY DEF ShapeOK, ChallengeRow
    <3>3. account[u].status = "ACTIVE" <=>
            \E r \in mailbox \cap Registrations : challenge[r].user = u /\ challenge[r].status = "consumed"
      BY DEF TokensOK
    <3> QED
      BY <3>1, <3>2, <3>3
  <2>2. ASSUME NEW r \in Registrations
        PROVE  Cardinality({s \in Sessions : session[s].origin = <<"verify", r>>})
                 = IF challenge[r].status = "consumed" THEN 1 ELSE 0
    <3>1. PICK S : S = {s \in Sessions : session[s].origin = <<"verify", r>>}
      OBVIOUS
    <3>2. ASSUME NEW s \in S PROVE OpenedBy("verify", s) /\ Vouched(s) /\ session[s].origin[2] = r
      BY <3>1 DEF SessionsOK, OpenedBy
    <3>3. \A s, t \in S : s = t
      BY <3>1, <3>2 DEF SessionsOK
    <3>4. S # {} <=> challenge[r].status = "consumed"
      BY <3>1, <3>2 DEF SessionsOK, Vouched
    <3> QED
      BY <3>1, <3>3, <3>4, Few
  <2>3. ASSUME NEW s \in Sessions, session[s].origin[1] \in {"verify", "login"}
        PROVE  LET r == session[s].origin[2] IN r \in mailbox /\ challenge[r].user = session[s].user
    BY <2>3 DEF SessionsOK, OpenedBy, Vouched
  <2> QED
    BY <2>1, <2>2, <2>3 DEF TokensAreSpentOnce
<1> QED
  BY <1>1, WorkspaceIsSound, PTL

(* A guest is a member by exactly one invitation, delivered to the guest and spent  *)
(* once; at most one invitation of an address is open; each came of one request.    *)
THEOREM InvitationsAdmit == Spec => []InvitationsAdmitOnce
<1>1. ASSUME WorkspaceInv PROVE InvitationsAdmitOnce
  <2> USE <1>1 DEF WorkspaceInv
  <2>1. ASSUME NEW o \in Orgs, NEW u \in Users
        PROVE  LET accepted == {i \in Invites : /\ invite[i].org = o /\ invite[i].email = u
                                                /\ invite[i].status = "accepted"}
               IN /\ Cardinality(Open(o, u)) <= 1
                  /\ Cardinality(accepted) = IF member[o][u] \in Guests THEN 1 ELSE 0
                  /\ \A i \in accepted : i \in mailbox /\ invite[i].role = member[o][u]
                  /\ \A i \in accepted \cup Open(o, u) :
                       Cardinality({e \in record : e.req.op = "invite" /\ e.made = i}) = 1
    <3> DEFINE accepted == {i \in Invites : /\ invite[i].org = o /\ invite[i].email = u
                                            /\ invite[i].status = "accepted"}
    <3>1. Cardinality(Open(o, u)) <= 1
      <4>1. \A i, j \in Open(o, u) : i = j
        BY DEF Open, InvitesOK, Waiting, Rivals
      <4> QED
        BY <4>1, Few
    <3>2. ASSUME NEW i \in accepted
          PROVE  i \in mailbox /\ invite[i].role = member[o][u] /\ invite[i].role \in Guests
      BY DEF InvitesOK, Accepted, Sent
    <3>3. Cardinality(accepted) = IF member[o][u] \in Guests THEN 1 ELSE 0
      <4>1. \A i, j \in accepted : i = j
        BY DEF InvitesOK, Accepted, Rivals
      <4>2. accepted # {} <=> member[o][u] \in Guests
        <5>1. member[o][u] \in Guests => accepted # {}
          BY DEF InvitesOK, Accepted
        <5> QED
          BY <3>2, <5>1
      <4> HIDE DEF accepted
      <4> QED
        BY <4>1, <4>2, Few
    <3>4. ASSUME NEW i \in accepted \cup Open(o, u)
          PROVE  Cardinality({e \in record : e.req.op = "invite" /\ e.made = i}) = 1
      <4>1. PICK S : S = {e \in record : e.req.op = "invite" /\ e.made = i}
        OBVIOUS
      <4>2. i \in Invites /\ Sent(i)
        BY DEF Open, Sent
      <4>3. S # {}
        BY <4>1, <4>2 DEF InvitesOK, InviteRecords
      <4>4. \A d, e \in S : d = e
        BY <4>1 DEF InvitesOK, InviteRecords
      <4> QED
        BY <4>1, <4>3, <4>4, Few
    <3> QED
      BY <3>1, <3>2, <3>3, <3>4
  <2> QED
    BY <2>1 DEF InvitationsAdmitOnce
<1> QED
  BY <1>1, WorkspaceIsSound, PTL

(* A confirmation is whole and happens once: an enrolment is consumed with attempts *)
(* left, exactly when it has its factor and opened one session in place of the one  *)
(* that confirmed it, and no user is left with two factors in force.                *)
THEOREM ConfirmationsWhole == Spec => []ConfirmationsAreWhole
<1>1. ASSUME WorkspaceInv PROVE ConfirmationsAreWhole
  <2> USE <1>1 DEF WorkspaceInv
  <2>1. \A u \in Users : Cardinality(ActiveFactors(u)) <= 1
    BY Few DEF MfaOK
  <2>2. ASSUME NEW e \in Enrollments
        PROVE  LET opened == {s \in Sessions : session[s].origin = <<"confirm", e>>} IN
               /\ enrollment[e].status = "consumed" <=> factor[e].status # "none"
               /\ Cardinality(opened) = IF enrollment[e].status = "consumed" THEN 1 ELSE 0
               /\ \A s \in opened : /\ enrollment[e].attempts < AttemptLimit
                                    /\ session[s].user = enrollment[e].user
                                    /\ session[session[s].parent].user = session[s].user
                                    /\ session[session[s].parent].status = "revoked"
    <3>1. PICK opened : opened = {s \in Sessions : session[s].origin = <<"confirm", e>>}
      OBVIOUS
    <3>2. ASSUME NEW s \in opened
          PROVE  /\ s \in Sessions /\ OpenedBy("confirm", s)
                 /\ session[s].origin[2] = e /\ Confirms(s)
      BY <3>1 DEF MfaOK, OpenedBy
    <3>3. \A s, t \in opened : s = t
      BY <3>1, <3>2 DEF SessionsOK
    <3>4. opened # {} <=> enrollment[e].status = "consumed"
      BY <3>1, <3>2 DEF MfaOK, Confirms
    <3>5. Cardinality(opened) = IF enrollment[e].status = "consumed" THEN 1 ELSE 0
      BY <3>3, <3>4, Few
    <3>6. ASSUME NEW s \in opened
          PROVE  /\ enrollment[e].attempts < AttemptLimit
                 /\ session[s].user = enrollment[e].user
                 /\ session[session[s].parent].user = session[s].user
                 /\ session[session[s].parent].status = "revoked"
      BY <3>2 DEF MfaOK, Confirms
    <3>7. enrollment[e].status = "consumed" <=> factor[e].status # "none"
      BY DEF MfaOK
    <3> QED
      BY <3>1, <3>5, <3>6, <3>7
  <2> QED
    BY <2>1, <2>2 DEF ConfirmationsAreWhole
<1> QED
  BY <1>1, WorkspaceIsSound, PTL

(* As many codes as rows, where no code is used twice. *)
LEMMA CodesCount ==
  ASSUME NEW rows, IsFiniteSet(rows), DistinctCodes(rows)
  PROVE  Cardinality(CodesOf(rows)) = Cardinality(rows)
<1> DEFINE f == [row \in rows |-> row.code]
<1>1. f \in Surjection(rows, CodesOf(rows))
  BY DEF Surjection, CodesOf
<1>2. f \in Injection(rows, CodesOf(rows))
  BY DEF Injection, IsInjective, CodesOf, DistinctCodes
<1> HIDE DEF f
<1> QED
  BY <1>1, <1>2, FS_Surjection

(* The units of a property are exactly those of the requests on record: each came   *)
(* of one request, an import is in whole or not at all, no code is used twice, and  *)
(* a unit stands in a building of the property, however the requests are raced.     *)
THEOREM UnitsFollow == Spec => []UnitsFollowRecords
<1>1. ASSUME WorkspaceInv PROVE UnitsFollowRecords
  <2> USE <1>1 DEF WorkspaceInv
  <2>1. ASSUME NEW o \in Orgs
        PROVE  /\ unit[o] = UNION {e.made : e \in Made(o)}
               /\ \A d, e \in Made(o) : d # e => CodesOf(d.made) \cap CodesOf(e.made) = {}
               /\ Cardinality(CodesOf(unit[o])) = Cardinality(unit[o])
               /\ \A row \in unit[o] : row.building \in building[o] \cup {NoValue}
               /\ o \in property <=> \E e \in Made(o) : e.req.op = "foundation"
    <3>1. unit[o] = UNION {e.made : e \in Made(o)}
      <4>1. \A row \in unit[o] : \E e \in Made(o) : row \in e.made
        BY DEF PortfolioOK
      <4>2. \A e \in Made(o) : e.made \subseteq unit[o]
        BY DEF PortfolioOK
      <4> QED
        BY <4>1, <4>2
    <3>2. Cardinality(CodesOf(unit[o])) = Cardinality(unit[o])
      BY CodesCount DEF PortfolioOK
    <3>3. /\ \A d, e \in Made(o) : d # e => CodesOf(d.made) \cap CodesOf(e.made) = {}
          /\ \A row \in unit[o] : row.building \in building[o] \cup {NoValue}
          /\ o \in property <=> \E e \in Made(o) : e.req.op = "foundation"
      BY DEF PortfolioOK
    <3> QED
      BY <3>1, <3>2, <3>3
  <2> QED
    BY <2>1 DEF UnitsFollowRecords, Made, Makers
<1> QED
  BY <1>1, WorkspaceIsSound, PTL

(* Progress is earned: an organization past the enrolment has exactly one factor    *)
(* whose codes were acknowledged, one past the foundation its property and a unit,  *)
(* and it is active with one record of one activation.                              *)
THEOREM ProgressEarned == Spec => []ProgressIsEarned
<1>1. ASSUME WorkspaceInv PROVE ProgressIsEarned
  <2> USE <1>1 DEF WorkspaceInv
  <2>1. ASSUME NEW o \in Orgs
        PROVE  /\ Cardinality(Proven(o)) = IF Stage(o) >= 4 THEN 1 ELSE 0
               /\ Stage(o) >= 5 <=> o \in property /\ unit[o] # {}
               /\ Stage(o) >= 2 <=> org[o].slug # NoValue
               /\ LET activations == {e \in record : e.req.op = "activate" /\ e.req.org = o} IN
                  /\ Cardinality(activations) = IF org[o].status = "ACTIVE" THEN 1 ELSE 0
                  /\ org[o].status = "ACTIVE" <=> Stage(o) = 6
    <3>1. /\ Proven(o) # {} <=> Stage(o) >= 4
          /\ o \in property <=> Stage(o) >= 5
          /\ org[o].status = "ACTIVE" <=> Stage(o) = 6
          /\ org[o].slug # NoValue <=> Stage(o) >= 2
      BY StageTells
    <3>2. Cardinality(Proven(o)) = IF Stage(o) >= 4 THEN 1 ELSE 0
      <4>1. \A d, e \in Proven(o) : d = e
        BY DEF ProgressOK
      <4> QED
        BY <3>1, <4>1, Few
    <3>3. o \in property => unit[o] # {}
      BY DEF PortfolioOK
    <3>4. PICK activations : activations = {e \in record : e.req.op = "activate" /\ e.req.org = o}
      OBVIOUS
    <3>5. \A d, e \in activations : d = e
      BY <3>4 DEF ProgressOK, Activations
    <3>6. activations # {} <=> org[o].status = "ACTIVE"
      BY <3>4 DEF ProgressOK, Activations
    <3>7. Cardinality(activations) = IF org[o].status = "ACTIVE" THEN 1 ELSE 0
      BY <3>5, <3>6, Few
    <3> QED
      BY <3>1, <3>2, <3>3, <3>4, <3>7
  <2> QED
    BY <2>1 DEF ProgressIsEarned
<1> QED
  BY <1>1, WorkspaceIsSound, PTL

-----------------------------------------------------------------------------
(* The password of a verified account changes only by a registration that read the *)
(* account while it was still pending.                                              *)
LEMMA PasswordsChange ==
  ASSUME WorkspaceInv, [Next]_vars, NEW u \in Users, account[u].status = "ACTIVE",
         account'[u] # account[u]
  PROVE  \E h \in Handlers : /\ Serving(h, "register") /\ call[h].req.user = u
                             /\ call[h].seen = "PENDING"
<1> USE DEF WorkspaceInv
<1>1. account' # account
  OBVIOUS
<1>2. PICK h \in Handlers : CommitRegistration(h) \/ CommitVerification(h)
  BY <1>1 DEF Next, Serves, Begin, Commit, CommitAccount, CommitLogin, CommitLogout, Deliver,
              SendMail, Leave, Elapse, TimePasses, ExpireChallenge, AgeSession, vars, accountVars
<1>3. CASE CommitRegistration(h)
  <2>1. PICK v, n : v = call[h].req.user /\ n = New({r \in Registrations : challenge[r].status = "none"})
    OBVIOUS
  <2>2. /\ Serving(h, "register") /\ Known(call[h].req, call[h].seen) /\ call[h].req.op = "register"
    BY <1>3, Served DEF CommitRegistration
  <2>3. call[h].seen \in {"NONE", "PENDING"}
    BY <2>2 DEF Known
  <2>4. /\ call[h].seen = "NONE" => account[v].status = "NONE"
        /\ account' = [account EXCEPT ![v] =
                         [status |-> IF account[v].status = "NONE" THEN "PENDING"
                                     ELSE account[v].status,
                          password |-> n]]
    BY <1>3, <2>1 DEF CommitRegistration
  <2>5. u = v
    BY <2>4 DEF ShapeOK
  <2> QED
    BY <2>1, <2>2, <2>3, <2>4, <2>5
<1>4. CASE CommitVerification(h)
  <2>1. PICK v : v = challenge[call[h].req.token].user
    OBVIOUS
  <2>2. account' = [account EXCEPT ![v].status = "ACTIVE"]
    BY <1>4, <2>1 DEF CommitVerification
  <2>3. account'[u] = account[u]
    BY <2>2 DEF ShapeOK, AccountRow
  <2> QED
    BY <2>3
<1> QED
  BY <1>2, <1>3, <1>4

(* A verified account keeps its password: an active one is written only by a        *)
(* registration that read the account before it was verified.                       *)
THEOREM StaleRegistrationsAlone == Spec => OnlyStaleRegistrationsReplacePasswords
<1>1. WorkspaceInv /\ [Next]_vars =>
        [\A u \in Users : account[u].status = "ACTIVE" /\ account'[u] # account[u] =>
           \E h \in Handlers : /\ Serving(h, "register") /\ call[h].req.user = u
                               /\ call[h].seen = "PENDING"]_<<account, call>>
  BY PasswordsChange
<1> QED
  BY <1>1, WorkspaceIsSound, PTL DEF Spec, OnlyStaleRegistrationsReplacePasswords

-----------------------------------------------------------------------------
(* The onboarding implements its abstract path: of an organization only the stage    *)
(* moves, one at a time, and the invariant reads the rest off the stage.             *)
Moves(o, n) ==
  /\ Stage(o) = n - 1 /\ Stage(o)' = n
  /\ \A p \in Orgs : p # o => Stage(p)' = Stage(p)

(* One row is written, and it leads on. *)
Writes(o, row, n) ==
  org' = [org EXCEPT ![o] = row] /\ row.status # "NONE" /\ row.state = Stages[n]

(* What an EXCEPT on one organization does to its stage. *)
LEMMA RowMoves ==
  ASSUME ShapeOK, NEW o \in Orgs, NEW row, NEW n \in 1..6, Stage(o) = n - 1, Writes(o, row, n)
  PROVE  Moves(o, n)
<1> USE DEF Writes
<1>1. org'[o] = row /\ \A p \in Orgs : p # o => org'[p] = org[p]
  BY DEF ShapeOK
<1>2. \A p \in Orgs : p # o => Stage(p)' = Stage(p)
  BY <1>1 DEF Stage
<1>3. Stage(o)' = n
  <2>1. \A i, j \in 1..6 : Stages[i] = Stages[j] => i = j
    BY DEF Stages
  <2>2. Stage(o)' = CHOOSE i \in 1..6 : Stages[i] = Stages[n]
    BY <1>1, StageNames DEF Stage
  <2> QED
    BY <2>1, <2>2
<1> QED
  BY <1>2, <1>3 DEF Moves

(* Entering a stage moves one organization by one. *)
LEMMA EntersMove ==
  ASSUME WorkspaceInv, NEW o \in Orgs, Exists(o), NEW n \in 1..6, Stage(o) = n - 1,
         Enter(o, Stages[n])
  PROVE  Moves(o, n)
<1> DEFINE row == [org[o] EXCEPT !.state = Stages[n]]
<1>1. org[o] \in OrgRow
  BY RowsAgree DEF WorkspaceInv
<1>2. row.status = org[o].status /\ row.state = Stages[n]
  BY <1>1 DEF OrgRow
<1>3. Writes(o, row, n)
  BY <1>2 DEF Enter, Writes, Exists
<1> HIDE DEF row
<1> QED
  BY <1>3, RowMoves DEF WorkspaceInv

(* A step moves at most one organization by one stage, with what the stage requires. *)
LEMMA StagesMove ==
  ASSUME WorkspaceInv, [Next]_vars
  PROVE  UNCHANGED org \/ \E o \in Orgs, n \in 1..6 : Moves(o, n)
<1> USE DEF WorkspaceInv
<1>1. SUFFICES ASSUME org' # org
               PROVE  \E o \in Orgs, n \in 1..6 : Moves(o, n)
  OBVIOUS
<1>2. PICK h \in Handlers :
        \/ CommitCreation(h) \/ CommitConfiguration(h) \/ CommitFirstEnrollment(h)
        \/ CommitAcknowledgement(h) \/ CommitFoundation(h) \/ CommitActivation(h)
  <2>1. CASE \E h \in Handlers : Commit(h)
    BY <1>1, <2>1 DEF Commit, CommitOrganization, CommitInvitation, CommitAcceptance,
       CommitMfa, CommitNextEnrollment, CommitMiss, CommitConfirmation,
       CommitPortfolio, CommitBuilding, CommitUnits, organizationVars
  <2>2. CASE ~\E h \in Handlers : Commit(h)
    BY <1>1, <2>2 DEF Next, Serves, Begin, Deliver, Leave, Elapse, ExpireInvite, ExpireEnrollment,
       organizationVars, vars
  <2> QED
    BY <2>1, <2>2
<1>3. CASE CommitCreation(h)
  <2>1. PICK o : o = New({p \in Orgs : org[p] = NoOrg})
    OBVIOUS
  <2>2. o \in Orgs /\ org[o] = NoOrg
    <3>1. o \in {p \in Orgs : org[p] = NoOrg}
      BY <1>3, <2>1, NewIsOne DEF CommitCreation
    <3> QED
      BY <3>1
  <2>3. Stage(o) = 0
    BY <2>2, Blanks DEF Stage
  <2> DEFINE row == [status |-> "ONBOARDING", version |-> 1, slug |-> NoValue, state |-> Stages[1]]
  <2>4. Writes(o, row, 1)
    BY <1>3, <2>1 DEF CommitCreation, Writes
  <2> HIDE DEF row
  <2>5. Moves(o, 1)
    BY <2>2, <2>3, <2>4, RowMoves
  <2> QED
    BY <2>2, <2>5
<1>4. CASE CommitConfiguration(h)
  <2>1. PICK o : o = call[h].req.org
    OBVIOUS
  <2>2. o \in Orgs /\ Exists(o)
    BY <1>4, <2>1, Served, RequestShape DEF CommitConfiguration, Known, OfOrganization
  <2>3. Stage(o) = 1 /\ org[o].status = "ONBOARDING"
    BY <1>4, <2>1, <2>2, StageTable DEF CommitConfiguration, At
  <2> DEFINE row == [status |-> org[o].status, version |-> org[o].version + 1,
                     slug |-> call[h].req.slug, state |-> "WORKSPACE_CONFIGURED"]
  <2>4. Writes(o, row, 2)
    BY <1>4, <2>1, <2>3, StageNames DEF CommitConfiguration, Writes
  <2> HIDE DEF row
  <2>5. Moves(o, 2)
    BY <2>2, <2>3, <2>4, RowMoves
  <2> QED
    BY <2>2, <2>5
<1>5. CASE CommitFirstEnrollment(h)
  <2>1. PICK o : o = call[h].req.org
    OBVIOUS
  <2>2. o \in Orgs /\ Exists(o)
    BY <1>5, <2>1, Served, RequestShape DEF CommitFirstEnrollment, Known, OfOrganization
  <2>3. Stage(o) = 2 /\ Enter(o, Stages[3])
    BY <1>5, <2>1, <2>2, StageTable, StageNames DEF CommitFirstEnrollment, At
  <2>4. Moves(o, 3)
    BY <2>2, <2>3, EntersMove
  <2> QED
    BY <2>2, <2>4
<1>6. CASE CommitAcknowledgement(h)
  <2>1. PICK e, o : e = call[h].req.enrollment /\ o = enrollment[call[h].req.enrollment].org
    OBVIOUS
  <2>2. o \in Orgs /\ Exists(o)
    <3>1. e \in Enrollments /\ Begun(e)
      BY <1>6, <2>1, Served, RequestShape DEF CommitAcknowledgement, Known, OfEnrollment
    <3> QED
      BY <2>1, <3>1 DEF MfaOK
  <2>3. Stage(o) = 3 /\ Enter(o, Stages[4])
    BY <1>6, <2>1, <2>2, StageTable, StageNames DEF CommitAcknowledgement, At
  <2>4. Moves(o, 4)
    BY <2>2, <2>3, EntersMove
  <2> QED
    BY <2>2, <2>4
<1>7. CASE CommitFoundation(h)
  <2>1. PICK o : o = call[h].req.org
    OBVIOUS
  <2>2. o \in Orgs /\ Exists(o)
    BY <1>7, <2>1, Served, RequestShape DEF CommitFoundation, Known, OfOrganization
  <2>3. Stage(o) = 4 /\ Enter(o, Stages[5])
    BY <1>7, <2>1, <2>2, StageTable, StageNames DEF CommitFoundation, At
  <2>4. Moves(o, 5)
    BY <2>2, <2>3, EntersMove
  <2> QED
    BY <2>2, <2>4
<1>8. CASE CommitActivation(h)
  <2>1. PICK o : o = call[h].req.org
    OBVIOUS
  <2>2. o \in Orgs /\ Exists(o)
    BY <1>8, <2>1, Served, RequestShape DEF CommitActivation, Known, OfOrganization
  <2>3. Stage(o) = 5
    BY <1>8, <2>1, <2>2, StageTable DEF CommitActivation, At
  <2> DEFINE row == [status |-> "ACTIVE", version |-> org[o].version + 1, slug |-> org[o].slug,
                     state |-> "ACTIVE"]
  <2>4. Writes(o, row, 6)
    BY <1>8, <2>1, StageNames DEF CommitActivation, Writes
  <2> HIDE DEF row
  <2>5. Moves(o, 6)
    BY <2>2, <2>3, <2>4, RowMoves
  <2> QED
    BY <2>2, <2>5
<1> QED
  BY <1>2, <1>3, <1>4, <1>5, <1>6, <1>7, <1>8

(* The abstract variables. *)
StageOf == [o \in Orgs |-> Stage(o)]
ProvenOrgs == {o \in Orgs : Proven(o) # {}}
ActiveOrgs == {o \in Orgs : org[o].status = "ACTIVE"}

ReadOff ==
  /\ ProvenOrgs = {o \in Orgs : Stage(o) >= 4}
  /\ property = {o \in Orgs : Stage(o) >= 5}
  /\ ActiveOrgs = {o \in Orgs : Stage(o) = 6}

(* The stage of an organization can be read off its tables. *)
LEMMA AbstractState == WorkspaceInv => ReadOff
<1> SUFFICES ASSUME WorkspaceInv PROVE ReadOff
  OBVIOUS
<1>1. ProvenOrgs = {o \in Orgs : Stage(o) >= 4}
  BY StageTells DEF ProvenOrgs
<1>2. property = {o \in Orgs : Stage(o) >= 5}
  <2>1. property \subseteq Orgs
    BY DEF WorkspaceInv, ShapeOK
  <2> QED
    BY <2>1, StageTells
<1>3. ActiveOrgs = {o \in Orgs : Stage(o) = 6}
  BY StageTells DEF ActiveOrgs
<1> QED
  BY <1>1, <1>2, <1>3 DEF ReadOff

(* The same after a step. *)
LEMMA AbstractNext == WorkspaceInv' => ReadOff'
BY AbstractState, PTL

(* The refinement begins where the abstract path begins. *)
LEMMA PathInit ==
  ASSUME Init
  PROVE  Path!Init
<1>1. WorkspaceInv
  BY WorkspaceInit
<1>2. \A o \in Orgs : Stage(o) = 0
  BY Blanks DEF Init, OrganizationsInit, Stage
<1>3. ProvenOrgs = {} /\ property = {} /\ ActiveOrgs = {}
  BY <1>1, <1>2, AbstractState DEF ReadOff
<1> QED
  BY <1>2, <1>3 DEF Path!Init, ProvenOrgs, ActiveOrgs

(* Every step is a step of the abstract path or changes nothing of it. *)
LEMMA PathStep ==
  ASSUME WorkspaceInv, WorkspaceInv', [Next]_vars
  PROVE  [Path!Next]_Path!pathVars
<1>1. /\ ProvenOrgs = {o \in Orgs : Stage(o) >= 4}
      /\ property = {o \in Orgs : Stage(o) >= 5}
      /\ ActiveOrgs = {o \in Orgs : Stage(o) = 6}
  BY AbstractState DEF ReadOff
<1>2. /\ ProvenOrgs' = {o \in Orgs : Stage(o)' >= 4}
      /\ property' = {o \in Orgs : Stage(o)' >= 5}
      /\ ActiveOrgs' = {o \in Orgs : Stage(o)' = 6}
  BY AbstractNext DEF ReadOff
<1>3. CASE UNCHANGED org
  <2>1. \A o \in Orgs : Stage(o)' = Stage(o)
    BY <1>3 DEF Stage
  <2>2. StageOf' = StageOf /\ ProvenOrgs' = ProvenOrgs /\ property' = property /\ ActiveOrgs' = ActiveOrgs
    BY <1>1, <1>2, <2>1 DEF StageOf
  <2> QED
    BY <2>2 DEF Path!pathVars, StageOf, ProvenOrgs, ActiveOrgs
<1>4. CASE \E o \in Orgs, n \in 1..6 : Moves(o, n)
  <2>1. PICK o \in Orgs, n \in 1..6 : Moves(o, n)
    BY <1>4
  <2>2. /\ Stage(o) = n - 1 /\ Stage(o)' = n
        /\ \A p \in Orgs : p # o => Stage(p)' = Stage(p)
    BY <2>1 DEF Moves
  <2>3. \A p \in Orgs : Stage(p) \in 0..6
    BY StageTells
  <2>4. StageOf[o] = n - 1 /\ StageOf' = [StageOf EXCEPT ![o] = n]
    BY <2>2 DEF StageOf
  <2>5. o \notin ProvenOrgs \/ n # 4
    BY <1>1, <2>2
  <2>6. ProvenOrgs' = Path!Gain(ProvenOrgs, o, n, 4)
    BY <1>1, <1>2, <2>2, <2>3 DEF Path!Gain
  <2>7. property' = Path!Gain(property, o, n, 5)
    BY <1>1, <1>2, <2>2, <2>3 DEF Path!Gain
  <2>8. ActiveOrgs' = Path!Gain(ActiveOrgs, o, n, 6)
    BY <1>1, <1>2, <2>2, <2>3 DEF Path!Gain
  <2>9. Path!Enter(o, n)
    BY <2>4, <2>5, <2>6, <2>7, <2>8 DEF Path!Enter, StageOf, ProvenOrgs, ActiveOrgs
  <2> QED
    BY <2>9 DEF Path!Next
<1> QED
  BY <1>3, <1>4, StagesMove

(* The onboarding implements OnboardingPath: however its requests race, each step   *)
(* enters the next stage of one organization with what it requires, or changes      *)
(* nothing of the stages, the organizations proven, their properties and the active.*)
THEOREM ImplementsOnboardingPath == Spec => ImplementsPath
<1>1. Init => Path!Init
  BY PathInit
<1>2. WorkspaceInv /\ WorkspaceInv' /\ [Next]_vars => [Path!Next]_Path!pathVars
  BY PathStep
<1> QED
  BY <1>1, <1>2, WorkspaceIsSound, PTL DEF Spec, Path!Spec, ImplementsPath

=============================================================================
