---------------------------- MODULE MCWorkspace ----------------------------
(***************************************************************************)
(* A small instance of the way from a registration to a working portfolio. *)
(* A behaviour races the requests of one part of it; what must come before *)
(* is asked for one request at a time.                                     *)
(***************************************************************************)
EXTENDS Workspace, TLC

CONSTANTS u1, u2, k1, k2, w1, A1, a1, B1, n1

MCFold == [c \in Codes |-> IF c = A1 THEN a1 ELSE c]
At1(code) == [code |-> code, building |-> NoValue]
In1(code) == [code |-> code, building |-> n1]

Register(us) == [op : {"register"}, user : us]
Verify == [op : {"verify"}, token : Registrations]
Login(us) == [op : {"login"}, user : us, password : Registrations]
Logout == [op : {"logout"}, by : Sessions]
Create(keys) == [op : {"create"}, by : Sessions, key : keys]
Configure == [op : {"configure"}, by : Sessions, org : Orgs, slug : Slugs, version : {1}]
Enroll == [op : {"enroll"}, by : Sessions, org : Orgs]
Prove(ops) == [op : ops, by : Sessions, enrollment : Enrollments]
Found(keys) == [op : {"foundation"}, by : Sessions, org : Orgs, key : keys, code : {A1}]
Activate(keys) == [op : {"activate"}, by : Sessions, org : Orgs, key : keys, version : {5}]
Invite ==
  [op : {"invite"}, by : Sessions, org : Orgs, key : {k1}, email : {u2}, role : {"ACCOUNTANT"}]
    \cup [op : {"invite"}, by : Sessions, org : Orgs, key : {k2}, email : {u2},
          role : {"PROPERTY_MANAGER"}]
Accept == [op : {"accept"}, by : Sessions, token : Invites]
Build == [op : {"building"}, by : Sessions, org : Orgs, key : {k1}, name : Names]
AddUnit == [op : {"unit"}, by : Sessions, org : Orgs, key : {k1}, rows : {{In1(B1)}}]
Import(mode, keys) ==
  [op : {"import"}, by : Sessions, org : Orgs, key : keys, mode : mode,
   rows : {{At1(B1), At1(a1)}, {At1(A1), At1(a1)}, {In1(B1)}}]

Entry == Register({u1}) \cup Verify \cup Create({k1})
Enrolment == Configure \cup Enroll \cup Prove({"confirm", "acknowledge"})
Completion == Found({k1}) \cup Activate({k1})

(* Part by part: what is raced, and what is asked for one request at a time. *)
Raced ==
  [accounts |-> Register({u1}) \cup Verify \cup Login({u1}) \cup Logout,
   onboarding |-> Enrolment \cup Prove({"miss"}) \cup Found({k1, k2}) \cup Activate({k1, k2}),
   owner |-> Prove({"miss"}),
   team |-> Invite \cup Accept,
   portfolio |-> Build \cup AddUnit \cup Import({"COMMIT"}, {k1, k2})
                   \cup Import({"DRY_RUN"}, {NoValue})]
Before ==
  [accounts |-> {},
   onboarding |-> Entry,
   owner |-> Entry \cup Create({k2}) \cup Enrolment \cup Completion,
   team |-> Entry \cup Register({u2}) \cup Enrolment,
   portfolio |-> Entry \cup Enrolment \cup Completion]
Parts == DOMAIN Raced
MCRequests == UNION {Raced[p] \cup Before[p] : p \in Parts}

VARIABLE part
mcVars == <<vars, part>>

First == New(Handlers)
Free(h) == call[h].stage = "idle"

(* What an owner asks for next: a workspace name nobody has, and a new enrolment  *)
(* only while there is neither a usable one nor a factor whose codes wait to be   *)
(* acknowledged, as long as there are identifiers.                                *)
Useful(q) ==
  LET open(o) == {e \in Enrollments : enrollment[e].org = o
                                        /\ (Usable(e) \/ factor[e].status = "ACTIVE")}
  IN \/ q.op = "configure" /\ \A o \in Orgs : org[o].slug # q.slug
     \/ q.op = "enroll" /\ open(q.org) = {} /\ NoEnrollment \in {enrollment[e] : e \in Enrollments}
     \/ /\ q.op = "confirm" /\ Unused # {}
        /\ \A e \in open(enrollment[q.enrollment].org) : factor[e].status # "ACTIVE"
     \/ q.op \in {"acknowledge", "foundation", "activate"}
Needed(q) ==
  CASE q.op = "register" -> account[q.user].status = "NONE"
    [] q.op = "create" -> Actor(q) = u1
    [] q.op \in {"enroll", "confirm"} -> Useful(q)
    [] OTHER -> TRUE

(* In the owner's part one handler serves the owner, the other wrong codes. *)
MCBegin(h, q) ==
  /\ Free(h)
  /\ IF part = "owner"
     THEN IF h = First THEN q \in Before.owner /\ Needed(q) ELSE q \in Raced.owner
     ELSE /\ h = New({x \in Handlers : Free(x)})
          /\ \/ q \in Raced[part]
             \/ (\A x \in Handlers : Free(x)) /\ Needed(q)
  /\ Begin(h, q)
  /\ UNCHANGED part

MCInit == Init /\ part \in Parts
MCNext ==
  \/ \E h \in Handlers, q \in Raced[part] \cup Before[part] : MCBegin(h, q)
  \/ /\ UNCHANGED part
     /\ \/ \E h \in Handlers : Commit(h) \/ Deliver(h) \/ Leave(h)
        \/ /\ part \in {"accounts", "onboarding", "team"}
           /\ Elapse
           /\ part # "accounts" => UNCHANGED <<challenge, session>>
           /\ part # "onboarding" => UNCHANGED enrollment
           /\ UNCHANGED [s \in Sessions \ {New(Sessions)} |-> session[s]]
           /\ UNCHANGED [e \in Enrollments \ {New(Enrollments)} |-> enrollment[e]]

MCSpec == MCInit /\ [][MCNext]_mcVars

(* The owner keeps asking, is served, and is not refused by a crash each time. *)
OwnerAsks == \E q \in Before.owner : Useful(q) /\ MCBegin(First, q)
OwnerServed == (Commit(First) \/ Deliver(First) \/ Leave(First)) /\ UNCHANGED part
OwnerGets ==
  /\ call[First].stage = "commit"
  /\ call[First].req.op \notin {"register", "verify", "create"}
  /\ Commit(First) /\ UNCHANGED part
MCFairness ==
  /\ SF_mcVars(part = "owner" /\ OwnerAsks)
  /\ WF_mcVars(part = "owner" /\ OwnerServed)
  /\ SF_mcVars(part = "owner" /\ OwnerGets)
MCFairSpec == MCSpec /\ MCFairness

(* The owner, whose requests alone are fair, gets every organization created active. *)
OwnerProceeds == part = "owner" => OnboardingProceeds

=============================================================================
