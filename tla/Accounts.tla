------------------------------ MODULE Accounts ------------------------------
(***************************************************************************)
(* Accounts and sessions: registration by mail, verification, login and    *)
(* logout.  A registration mails a temporary password together with its    *)
(* token, so one identifier stands for both.                               *)
(*                                                                         *)
(* A request is served in two steps: its reads, which pass the guards, and *)
(* its writes, whose conditional updates and unique indexes meet whatever  *)
(* happened in between.  A session is fresh for the ten minutes in which   *)
(* its owner counts as recently authenticated.                             *)
(***************************************************************************)
EXTENDS Integers, Sequences, FiniteSets

CONSTANTS
  Users,          \* e-mail addresses
  Registrations,  \* tokens of registrations, with their temporary passwords
  Sessions,       \* identifiers of sessions
  Handlers,       \* requests the API may be serving at the same time
  NoValue

VARIABLES
  account,    \* users and password_credentials: [status, password]
  challenge,  \* email_verification_challenges: [user, status]
  session,    \* user_sessions: [user, status, origin, parent]
  mailbox,    \* tokens that were delivered
  call        \* requests in service

accountVars == <<account, challenge, session, mailbox>>

Idle == [stage |-> "idle", req |-> NoValue, seen |-> NoValue]
Pending(u) == {r \in Registrations : challenge[r].user = u /\ challenge[r].status = "pending"}

(* What the session guard admits: neither revoked nor expired, and its user active. *)
Live == {s \in Sessions : /\ session[s].status \in {"fresh", "live"}
                          /\ account[session[s].user].status = "ACTIVE"}

Serve(h, q, seen) ==
  /\ call[h].stage = "idle"
  /\ call' = [call EXCEPT ![h] = [stage |-> "commit", req |-> q, seen |-> seen]]
Serving(h, op) == call[h].stage = "commit" /\ call[h].req.op = op
Done(h) == call' = [call EXCEPT ![h] = Idle]
Mail(h, token) ==
  call' = [call EXCEPT ![h] = [stage |-> "mail", req |-> NoValue, seen |-> token]]

(* A session is opened in a row of its own; a rotation names the one it replaces. *)
Opened(s, u, status, via, of, parent) ==
  [session EXCEPT ![s] = [user |-> u, status |-> status, origin |-> <<via, of>>,
                          parent |-> parent]]
Unused == {s \in Sessions : session[s].status = "none"}

(* New identifiers are random: it does not matter which unused one is taken. *)
New(S) == CHOOSE x \in S : TRUE

-----------------------------------------------------------------------------
(* An active account is not touched, and the answer does not tell. *)
BeginRegistration(h, q) ==
  /\ q.op = "register"
  /\ account[q.user].status # "ACTIVE"
  /\ Serve(h, q, account[q.user].status)

(* Whoever read no account creates it, and the unique e-mail stops the second;    *)
(* whoever read a pending one replaces its password without looking again.        *)
CommitRegistration(h) ==
  LET u == call[h].req.user
      free == {r \in Registrations : challenge[r].status = "none"}
  IN /\ Serving(h, "register") /\ free # {}
     /\ call[h].seen = "NONE" => account[u].status = "NONE"
     /\ account' = [account EXCEPT ![u] =
                      [status |-> IF @.status = "NONE" THEN "PENDING" ELSE @.status,
                       password |-> New(free)]]
     /\ challenge' = [r \in Registrations |->
                        IF r = New(free) THEN [user |-> u, status |-> "pending"]
                        ELSE IF r \in Pending(u) THEN [user |-> u, status |-> "revoked"]
                        ELSE challenge[r]]
     /\ Mail(h, New(free))
     /\ UNCHANGED <<session, mailbox>>

(* Sent after the commit and not awaited: it may be lost. *)
SendMail(h) ==
  /\ call[h].stage = "mail"
  /\ mailbox' = mailbox \cup {call[h].seen}
  /\ Done(h)
  /\ UNCHANGED <<account, challenge, session>>

BeginVerification(h, q) ==
  /\ q.op = "verify" /\ q.token \in mailbox
  /\ challenge[q.token].status = "pending"
  /\ Serve(h, q, NoValue)

FaultyCommitVerification(h) ==
  LET r == call[h].req.token IN
  /\ Serving(h, "verify")
  /\ challenge' = [challenge EXCEPT ![r].status = "consumed"]
  /\ account' = [account EXCEPT ![challenge[r].user].status = "ACTIVE"]
  /\ Unused # {}
  /\ session' = Opened(New(Unused), challenge[r].user, "fresh", "verify", r, NoValue)
  /\ Done(h)
  /\ UNCHANGED mailbox

CommitVerification(h) ==
  LET r == call[h].req.token IN
  /\ Serving(h, "verify")
  /\ challenge[r].status = "pending"
  /\ challenge' = [challenge EXCEPT ![r].status = "consumed"]
  /\ account' = [account EXCEPT ![challenge[r].user].status = "ACTIVE"]
  /\ Unused # {}
  /\ session' = Opened(New(Unused), challenge[r].user, "fresh", "verify", r, NoValue)
  /\ Done(h)
  /\ UNCHANGED mailbox

(* The password is compared before the status; the transaction that opens *)
(* the session looks at neither again.                                    *)
BeginLogin(h, q) ==
  /\ q.op = "login" /\ q.password \in mailbox
  /\ account[q.user] = [status |-> "ACTIVE", password |-> q.password]
  /\ Serve(h, q, NoValue)

CommitLogin(h) ==
  LET q == call[h].req IN
  /\ Serving(h, "login")
  /\ Unused # {}
  /\ session' = Opened(New(Unused), q.user, "fresh", "login", q.password, NoValue)
  /\ Done(h)
  /\ UNCHANGED <<account, challenge, mailbox>>

BeginLogout(h, q) ==
  /\ q.op = "logout" /\ q.by \in Live
  /\ Serve(h, q, NoValue)

CommitLogout(h) ==
  /\ Serving(h, "logout")
  /\ session' = [session EXCEPT ![call[h].req.by].status = "revoked"]
  /\ Done(h)
  /\ UNCHANGED <<account, challenge, mailbox>>

(* Time passes: half an hour for a challenge, ten minutes for a fresh session, *)
(* an hour for any session.                                                    *)
ExpireChallenge(r) ==
  /\ challenge[r].status = "pending"
  /\ challenge' = [challenge EXCEPT ![r].status = "expired"]
  /\ UNCHANGED <<account, session, mailbox, call>>
AgeSession(s) ==
  /\ session[s].status \in {"fresh", "live"}
  /\ session' = [session EXCEPT ![s].status = IF @ = "fresh" THEN "live" ELSE "expired"]
  /\ UNCHANGED <<account, challenge, mailbox, call>>

-----------------------------------------------------------------------------
AccountsInit ==
  /\ account = [u \in Users |-> [status |-> "NONE", password |-> NoValue]]
  /\ challenge = [r \in Registrations |-> [user |-> NoValue, status |-> "none"]]
  /\ session = [s \in Sessions |-> [user |-> NoValue, status |-> "none",
                                    origin |-> <<"none", NoValue>>, parent |-> NoValue]]
  /\ mailbox = {}
  /\ call = [h \in Handlers |-> Idle]

BeginAccount(h, q) ==
  BeginRegistration(h, q) \/ BeginVerification(h, q) \/ BeginLogin(h, q) \/ BeginLogout(h, q)
CommitAccount(h) ==
  CommitRegistration(h) \/ CommitVerification(h) \/ CommitLogin(h) \/ CommitLogout(h)
TimePasses == \/ \E r \in Registrations : ExpireChallenge(r)
              \/ \E s \in Sessions : AgeSession(s)

-----------------------------------------------------------------------------
(* Every variable has the values the schema and the handlers give it. *)
AccountsTypeOK ==
  /\ account \in [Users -> [status : {"NONE", "PENDING", "ACTIVE"},
                            password : Registrations \cup {NoValue}]]
  /\ challenge \in [Registrations ->
       [user : Users \cup {NoValue},
        status : {"none", "pending", "revoked", "consumed", "expired"}]]
  /\ \A s \in Sessions :
       /\ session[s].status \in {"none", "fresh", "live", "revoked", "expired"}
       /\ session[s].user \in Users \cup {NoValue}
       /\ session[s].status = "none" <=> session[s].user = NoValue
       /\ session[s].parent \in Sessions \cup {NoValue}
  /\ \A h \in Handlers : call[h].stage \in {"idle", "commit", "mail"}

(* An address has at most one live token; an account is active exactly when a      *)
(* delivered token of it was spent, each token opens one session and no more, and  *)
(* every login used a password that was mailed to the owner of the session.        *)
TokensAreSpentOnce ==
  /\ \A u \in Users : /\ Cardinality(Pending(u)) <= 1
                      /\ account[u].status = "ACTIVE" <=>
                           \E r \in mailbox \cap Registrations :
                             challenge[r] = [user |-> u, status |-> "consumed"]
  /\ \A r \in Registrations :
       Cardinality({s \in Sessions : session[s].origin = <<"verify", r>>})
         = IF challenge[r].status = "consumed" THEN 1 ELSE 0
  /\ \A s \in Sessions : session[s].origin[1] \in {"verify", "login"} =>
       LET r == session[s].origin[2] IN r \in mailbox /\ challenge[r].user = session[s].user

(* An address that was verified keeps the password it was verified with: the     *)
(* program has no way to change one.  A registration under way at the            *)
(* verification does: VVerifiedKeepsPassword shows how.                          *)
VerifiedKeepsPassword ==
  [][\A u \in Users : account[u].status = "ACTIVE" => account'[u].password = account[u].password
    ]_<<account, call>>

(* How far the lost update goes: the row of a verified account changes only by a   *)
(* registration that read the account while it was still pending.                   *)
OnlyStaleRegistrationsReplacePasswords ==
  [][\A u \in Users : account[u].status = "ACTIVE" /\ account'[u] # account[u] =>
       \E h \in Handlers : /\ Serving(h, "register") /\ call[h].req.user = u
                           /\ call[h].seen = "PENDING"]_<<account, call>>

=============================================================================
