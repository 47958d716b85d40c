--------------------------- MODULE MfaEnrollment ---------------------------
(***************************************************************************)
(* Enrolment of an owner in multi-factor authentication: an enrolment is   *)
(* begun, confirmed with a code of the authenticator (which creates the    *)
(* factor and rotates the session), and its recovery codes acknowledged.   *)
(* None of the three is behind the guard of the workspace.                 *)
(***************************************************************************)
EXTENDS Organizations

CONSTANTS
  Enrollments,  \* identifiers of enrolments; a factor has that of its enrolment
  AttemptLimit  \* wrong codes an enrolment survives, 5 in the code

ASSUME MfaAssumption == AttemptLimit \in Nat \ {0}

VARIABLES
  enrollment,  \* mfa_enrollments: [user, org, status, expired, attempts]
  factor       \* mfa_factors: [status, acknowledged]

mfaVars == <<enrollment, factor>>

NoEnrollment ==
  [user |-> NoValue, org |-> NoValue, status |-> "none", expired |-> FALSE, attempts |-> 0]
NoFactor == [status |-> "none", acknowledged |-> FALSE]

PendingOf(u, o) ==
  {e \in Enrollments : /\ enrollment[e].user = u /\ enrollment[e].org = o
                       /\ enrollment[e].status = "pending"}
ActiveFactors(u) ==
  {e \in Enrollments : enrollment[e].user = u /\ factor[e].status = "ACTIVE"}
Usable(e) ==
  /\ enrollment[e].status = "pending" /\ ~enrollment[e].expired
  /\ enrollment[e].attempts < AttemptLimit

-----------------------------------------------------------------------------
(* Authentication must be recent; the state decides what the commit does. *)
BeginEnrollment(h, q) ==
  /\ q.op = "enroll" /\ Signed(q) /\ session[q.by].status = "fresh"
  /\ member[q.org][Actor(q)] = "OWNER"
  /\ org[q.org].state \in {"WORKSPACE_CONFIGURED", "MFA_REQUIRED"}
  /\ Serve(h, q, [state |-> org[q.org].state, pending |-> PendingOf(Actor(q), q.org)])

(* The older enrolments are revoked.  No index makes the enrolment unique: one that *)
(* another transaction is adding at the time is not seen, unless the transition of  *)
(* the progress makes one of the two wait and fail.                                 *)
Enrolled(h, revoked) ==
  LET q == call[h].req
      free == {e \in Enrollments : enrollment[e] = NoEnrollment}
  IN /\ free # {}
     /\ enrollment' = [e \in Enrollments |->
          IF e = New(free) THEN [user |-> Actor(q), org |-> q.org, status |-> "pending",
                                 expired |-> FALSE, attempts |-> 0]
          ELSE IF e \in revoked THEN [enrollment[e] EXCEPT !.status = "revoked"]
          ELSE enrollment[e]]
     /\ Done(h)
     /\ UNCHANGED <<session, factor>>

CommitFirstEnrollment(h) ==
  LET q == call[h].req IN
  /\ Serving(h, "enroll") /\ call[h].seen.state = "WORKSPACE_CONFIGURED"
  /\ At(q.org, "WORKSPACE_CONFIGURED")
  /\ Enter(q.org, "MFA_REQUIRED")
  /\ Enrolled(h, PendingOf(Actor(q), q.org))

CommitNextEnrollment(h) ==
  LET q == call[h].req
      now == PendingOf(Actor(q), q.org)
  IN /\ Serving(h, "enroll") /\ call[h].seen.state = "MFA_REQUIRED"
     /\ \E read \in {call[h].seen.pending, now} : Enrolled(h, read \cap now)
     /\ UNCHANGED org

(* A confirmation checks the enrolment, then the code, and for a right code the *)
(* enrolment again and the state; only the last reading matters then.           *)
BeginConfirmation(h, q) ==
  /\ q.op \in {"confirm", "miss"} /\ Signed(q)
  /\ enrollment[q.enrollment].user = Actor(q) /\ Usable(q.enrollment)
  /\ q.op = "confirm" =>
       LET o == enrollment[q.enrollment].org IN
       member[o][Actor(q)] = "OWNER" /\ At(o, "MFA_REQUIRED")
  /\ Serve(h, q, session[q.by].status)

FaultyCommitMiss(h) ==
  LET e == call[h].req.enrollment IN
  /\ Serving(h, "miss")
  /\ enrollment[e].status = "pending"
  /\ enrollment' = [enrollment EXCEPT ![e].attempts = @ + 1]
  /\ Done(h)
  /\ UNCHANGED <<org, session, factor>>

(* A wrong code is counted, up to the limit. *)
CommitMiss(h) ==
  LET e == call[h].req.enrollment IN
  /\ Serving(h, "miss")
  /\ enrollment[e].status = "pending" /\ enrollment[e].attempts < AttemptLimit
  /\ enrollment' = [enrollment EXCEPT ![e].attempts = @ + 1]
  /\ Done(h)
  /\ UNCHANGED <<org, session, factor>>

FaultyCommitConfirmation(h) ==
  LET q == call[h].req
      e == q.enrollment
  IN /\ Serving(h, "confirm") /\ Unused # {}
     /\ enrollment[e].attempts < AttemptLimit
     /\ enrollment' = [enrollment EXCEPT ![e].status = "consumed"]
     /\ factor' = [x \in Enrollments |->
                     IF x = e THEN [NoFactor EXCEPT !.status = "ACTIVE"]
                     ELSE IF x \in ActiveFactors(Actor(q)) THEN [factor[x] EXCEPT !.status = "REVOKED"]
                     ELSE factor[x]]
     /\ session' = [Opened(New(Unused), Actor(q), call[h].seen, "confirm", e, q.by)
                      EXCEPT ![q.by].status = "revoked"]
     /\ Done(h)
     /\ UNCHANGED org

(* The enrolment is consumed if nobody did; the state is not looked at again.  The *)
(* user's active factor, of whichever organization, is replaced, and the session   *)
(* is replaced by one with the same age.                                           *)
CommitConfirmation(h) ==
  LET q == call[h].req
      e == q.enrollment
  IN /\ Serving(h, "confirm") /\ Unused # {}
     /\ enrollment[e].status = "pending" /\ enrollment[e].attempts < AttemptLimit
     /\ enrollment' = [enrollment EXCEPT ![e].status = "consumed"]
     /\ factor' = [x \in Enrollments |->
                     IF x = e THEN [NoFactor EXCEPT !.status = "ACTIVE"]
                     ELSE IF x \in ActiveFactors(Actor(q)) THEN [factor[x] EXCEPT !.status = "REVOKED"]
                     ELSE factor[x]]
     /\ session' = [Opened(New(Unused), Actor(q), call[h].seen, "confirm", e, q.by)
                      EXCEPT ![q.by].status = "revoked"]
     /\ Done(h)
     /\ UNCHANGED org

BeginAcknowledgement(h, q) ==
  /\ q.op = "acknowledge" /\ Signed(q)
  /\ enrollment[q.enrollment].user = Actor(q)
  /\ factor[q.enrollment] = [status |-> "ACTIVE", acknowledged |-> FALSE]
  /\ member[enrollment[q.enrollment].org][Actor(q)] = "OWNER"
  /\ Serve(h, q, NoValue)

FaultyCommitAcknowledgement(h) ==
  LET e == call[h].req.enrollment IN
  /\ Serving(h, "acknowledge")
  /\ Enter(enrollment[e].org, "PORTFOLIO_REQUIRED")
  /\ factor' = [factor EXCEPT ![e].acknowledged = TRUE]
  /\ Done(h)
  /\ UNCHANGED <<session, enrollment>>

(* The progress is the lock: the factor itself may have been replaced since. *)
CommitAcknowledgement(h) ==
  LET e == call[h].req.enrollment IN
  /\ Serving(h, "acknowledge")
  /\ At(enrollment[e].org, "MFA_REQUIRED")
  /\ Enter(enrollment[e].org, "PORTFOLIO_REQUIRED")
  /\ factor' = [factor EXCEPT ![e].acknowledged = TRUE]
  /\ Done(h)
  /\ UNCHANGED <<session, enrollment>>

(* The ten minutes of an enrolment pass; its consumption does not look at them. *)
ExpireEnrollment(e) ==
  /\ Usable(e)
  /\ enrollment' = [enrollment EXCEPT ![e].expired = TRUE]
  /\ UNCHANGED <<org, session, factor, call>>

-----------------------------------------------------------------------------
MfaInit == /\ enrollment = [e \in Enrollments |-> NoEnrollment]
           /\ factor = [e \in Enrollments |-> NoFactor]

BeginMfa(h, q) ==
  BeginEnrollment(h, q) \/ BeginConfirmation(h, q) \/ BeginAcknowledgement(h, q)
CommitMfa(h) ==
  \/ CommitFirstEnrollment(h) \/ CommitNextEnrollment(h) \/ CommitMiss(h)
  \/ CommitConfirmation(h) \/ CommitAcknowledgement(h)

-----------------------------------------------------------------------------
(* Every variable has the values the schema and the handlers give it, and the      *)
(* wrong codes of an enrolment stay within their limit, however they are raced.    *)
MfaTypeOK ==
  /\ enrollment \in [Enrollments ->
       [user : Users \cup {NoValue}, org : Orgs \cup {NoValue},
        status : {"none", "pending", "revoked", "consumed"},
        expired : BOOLEAN, attempts : 0..AttemptLimit]]
  /\ factor \in [Enrollments -> [status : {"none", "ACTIVE", "REVOKED"}, acknowledged : BOOLEAN]]

(* A confirmation is whole and happens once: an enrolment is consumed with attempts *)
(* left, exactly when it has its factor and opened one session, the session that    *)
(* confirmed it was replaced, and no user is left with two factors in force.        *)
ConfirmationsAreWhole ==
  /\ \A u \in Users : Cardinality(ActiveFactors(u)) <= 1
  /\ \A e \in Enrollments :
       LET opened == {s \in Sessions : session[s].origin = <<"confirm", e>>} IN
       /\ enrollment[e].status = "consumed" <=> factor[e].status # "none"
       /\ Cardinality(opened) = IF enrollment[e].status = "consumed" THEN 1 ELSE 0
       /\ \A s \in opened : /\ enrollment[e].attempts < AttemptLimit
                            /\ session[s].user = enrollment[e].user
                            /\ session[session[s].parent].user = session[s].user
                            /\ session[session[s].parent].status = "revoked"

=============================================================================
