----------------------------- MODULE Workspace -----------------------------
(***************************************************************************)
(* From a registration to an active organization: accounts, organizations, *)
(* multi-factor enrolment and the portfolio composed, with the readiness   *)
(* an activation requires.                                                 *)
(***************************************************************************)
EXTENDS MfaEnrollment, Portfolio

CONSTANTS Requests  \* the requests clients send

(* What a request carries once its body is validated: a member is invited as a guest, *)
(* a unit is created alone, an import is a finite file of rows.                       *)
Request ==
  [op : {"register"}, user : Users]
    \cup [op : {"verify"}, token : Registrations]
    \cup [op : {"login"}, user : Users, password : Registrations]
    \cup [op : {"logout"}, by : Sessions]
    \cup [op : {"create"}, by : Sessions, key : Keys]
    \cup [op : {"configure"}, by : Sessions, org : Orgs, slug : Slugs, version : Nat]
    \cup [op : {"invite"}, by : Sessions, org : Orgs, key : Keys, email : Users, role : Guests]
    \cup [op : {"accept"}, by : Sessions, token : Invites]
    \cup [op : {"enroll"}, by : Sessions, org : Orgs]
    \cup [op : {"confirm", "miss", "acknowledge"}, by : Sessions, enrollment : Enrollments]
    \cup [op : {"foundation"}, by : Sessions, org : Orgs, key : Keys, code : Codes]
    \cup [op : {"building"}, by : Sessions, org : Orgs, key : Keys, name : Names]
    \cup [op : {"unit"}, by : Sessions, org : Orgs, key : Keys, rows : {{row} : row \in Row}]
    \cup [op : {"import"}, by : Sessions, org : Orgs, key : Keys \cup {NoValue},
          mode : {"DRY_RUN", "COMMIT"}, rows : {rows \in SUBSET Row : IsFiniteSet(rows)}]
    \cup [op : {"activate"}, by : Sessions, org : Orgs, key : Keys, version : Nat]

ASSUME WorkspaceAssumption == \A q \in Requests : q \in Request

vars == <<accountVars, organizationVars, mfaVars, portfolioVars, call>>

-----------------------------------------------------------------------------
(* The requirements of an activation by u.  The terms are accepted with the  *)
(* registration; a new version of them is left out.                          *)
Ready(o, u) ==
  /\ account[u].status = "ACTIVE" /\ org[o].slug # NoValue
  /\ \E e \in ActiveFactors(u) : enrollment[e].org = o /\ factor[e].acknowledged
  /\ o \in property /\ unit[o] # {}

BeginActivation(h, q) ==
  /\ q.op = "activate" /\ Passes(q, {"OWNER"}) /\ Recorded(q) = {}
  /\ At(q.org, "READY_FOR_REVIEW") /\ q.version = Stage(q.org)
  /\ Ready(q.org, Actor(q))
  /\ Serve(h, q, NoValue)

FaultyCommitActivation(h) ==
  LET q == call[h].req IN
  /\ Serving(h, "activate") /\ Recorded(q) = {}
  /\ org' = [org EXCEPT ![q.org].status = "ACTIVE", ![q.org].state = "ACTIVE"]
  /\ Record(q, q.org)
  /\ Done(h)
  /\ UNCHANGED <<member, invite>>

(* Both conditional updates or neither. *)
CommitActivation(h) ==
  LET q == call[h].req IN
  /\ Serving(h, "activate") /\ Recorded(q) = {}
  /\ org[q.org].status = "ONBOARDING" /\ At(q.org, "READY_FOR_REVIEW")
  /\ org' = [org EXCEPT ![q.org] = [status |-> "ACTIVE", version |-> @.version + 1,
                                      slug |-> @.slug, state |-> "ACTIVE"]]
  /\ Record(q, q.org)
  /\ Done(h)
  /\ UNCHANGED <<member, invite>>

-----------------------------------------------------------------------------
Init == AccountsInit /\ OrganizationsInit /\ MfaInit /\ PortfolioInit

Begin(h, q) ==
  /\ \/ BeginAccount(h, q) \/ BeginOrganization(h, q) \/ BeginMfa(h, q)
     \/ BeginPortfolio(h, q) \/ BeginActivation(h, q)
  /\ UNCHANGED <<accountVars, organizationVars, mfaVars, portfolioVars>>

Commit(h) ==
  \/ CommitAccount(h) /\ UNCHANGED <<organizationVars, mfaVars, portfolioVars>>
  \/ CommitOrganization(h) /\ UNCHANGED <<accountVars, mfaVars, portfolioVars>>
  \/ /\ CommitMfa(h)
     /\ UNCHANGED <<account, challenge, mailbox, member, invite, record, portfolioVars>>
  \/ CommitPortfolio(h) /\ UNCHANGED <<accountVars, member, invite, mfaVars>>
  \/ CommitActivation(h) /\ UNCHANGED <<accountVars, mfaVars, portfolioVars>>

Deliver(h) == SendMail(h) /\ UNCHANGED <<organizationVars, mfaVars, portfolioVars>>

(* A request that fails a check, loses a race or dies with its process is rolled *)
(* back; after a commit it is the mail that is lost.                             *)
Leave(h) ==
  /\ call[h].stage # "idle"
  /\ Done(h)
  /\ UNCHANGED <<accountVars, organizationVars, mfaVars, portfolioVars>>

Elapse ==
  \/ TimePasses /\ UNCHANGED <<organizationVars, mfaVars, portfolioVars>>
  \/ /\ \E i \in Invites : ExpireInvite(i)
     /\ UNCHANGED <<accountVars, mfaVars, portfolioVars>>
  \/ /\ \E e \in Enrollments : ExpireEnrollment(e)
     /\ UNCHANGED <<account, challenge, mailbox, member, invite, record, portfolioVars>>

Serves(h) == (\E q \in Requests : Begin(h, q)) \/ Commit(h) \/ Deliver(h) \/ Leave(h)
Next == (\E h \in Handlers : Serves(h)) \/ Elapse

Spec == Init /\ [][Next]_vars

-----------------------------------------------------------------------------
(* Every variable has the values the schema and the handlers give it, and the  *)
(* wrong codes of an enrolment stay within their limit, however they are raced. *)
WorkspaceTypeOK == AccountsTypeOK /\ OrganizationsTypeOK /\ MfaTypeOK /\ PortfolioTypeOK

Proven(o) == {e \in Enrollments : enrollment[e].org = o /\ factor[e].acknowledged}

(* Progress is earned: an organization past the enrolment has exactly one factor    *)
(* whose codes were acknowledged, one past the foundation its property and a unit,  *)
(* and it is active with one record of one activation; two commands for one stage   *)
(* never both count.                                                                *)
ProgressIsEarned ==
  \A o \in Orgs :
    /\ Cardinality(Proven(o)) = IF Stage(o) >= 4 THEN 1 ELSE 0
    /\ Stage(o) >= 5 <=> o \in property /\ unit[o] # {}
    /\ Stage(o) >= 2 <=> org[o].slug # NoValue
    /\ LET activations == {e \in record : e.req.op = "activate" /\ e.req.org = o} IN
       /\ Cardinality(activations) = IF org[o].status = "ACTIVE" THEN 1 ELSE 0
       /\ org[o].status = "ACTIVE" <=> Stage(o) = 6

(* The onboarding implements its abstract path. *)
Path == INSTANCE OnboardingPath WITH
  stage <- [o \in Orgs |-> Stage(o)], proven <- {o \in Orgs : Proven(o) # {}},
  housed <- property, active <- {o \in Orgs : org[o].status = "ACTIVE"}
ImplementsPath == Path!Spec

(* Whoever created an organization and keeps asking gets it active, unless the      *)
(* acknowledged factor was replaced (by a confirmation that raced the               *)
(* acknowledgement, or one for another organization) or an identifier has run out.  *)
Displaced(o) == \E e \in Proven(o) : factor[e].status # "ACTIVE"
Exhausted(o) ==
  /\ Stage(o) <= 3
  /\ \/ Unused = {}
     \/ \A e \in Enrollments : /\ enrollment[e].status # "none"
                               /\ enrollment[e].org = o => ~Usable(e) /\ factor[e].status # "ACTIVE"
OnboardingProceeds ==
  \A o \in Orgs :
    At(o, "ORGANIZATION_CREATED") ~> At(o, "ACTIVE") \/ Displaced(o) \/ Exhausted(o)

=============================================================================
