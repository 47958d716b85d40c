---------------------------- MODULE Maintenance ----------------------------
(***************************************************************************)
(* Maintenance requests of the organization of LeaseLifecycle, whose       *)
(* tenants they may be opened for.  A transition compares the version the  *)
(* client names with the one it reads, and then updates the request by its *)
(* identifier alone.  What no step reads is left out: title, priority,     *)
(* vendor, schedule and the dates of the stages.                           *)
(***************************************************************************)
EXTENDS LeaseLifecycle

CONSTANTS
  Tickets,         \* identifiers of maintenance requests
  TicketRequests,  \* the requests clients send
  Desks,           \* requests the API may be serving at the same time
  MaxVersion       \* bound on the version of a maintenance request

Actions == {"triage", "assign", "complete", "verify", "close"}
TicketStatus == <<"SUBMITTED", "TRIAGED", "ASSIGNED", "COMPLETED", "VERIFIED", "CLOSED">>
Rank(s) == CHOOSE i \in 0..6 : IF i = 0 THEN s = "NONE" ELSE TicketStatus[i] = s

TicketRequest ==
  [op : {"createTicket"}, actor : Actors, key : Keys, tenant : Tenants \cup {NoValue}]
    \cup [op : Actions, actor : Actors, key : Keys, target : Tickets, version : 1..MaxVersion]

ASSUME MaintenanceAssumption ==
  /\ MaxVersion \in Nat \ {0}
  /\ \A q \in TicketRequests : q \in TicketRequest

VARIABLES
  ticket,        \* maintenance_requests: [status, version]
  ticketRecord,  \* idempotency_records of their scopes: [req, made]
  desk           \* requests in service

deskVars == <<ticket, ticketRecord, desk>>

NoTicket == [status |-> "NONE", version |-> 0]
FreeDesk == [stage |-> "idle", req |-> NoValue, seen |-> NoTicket]
TicketRow ==
  {NoTicket} \cup [status : {TicketStatus[i] : i \in 1..6}, version : 1..MaxVersion]

FaultyNextStatus(action, s) ==
  CASE action = "triage" /\ s = "SUBMITTED" -> "TRIAGED"
    [] action = "assign" /\ s \in {"TRIAGED", "ASSIGNED", "COMPLETED"} -> "ASSIGNED"
    [] action = "complete" /\ s \in {"TRIAGED", "ASSIGNED"} -> "COMPLETED"
    [] action = "verify" /\ s = "COMPLETED" -> "VERIFIED"
    [] action = "close" /\ s = "VERIFIED" -> "CLOSED"
    [] OTHER -> "NONE"

(* "NONE" is the refusal.  SCHEDULED and IN_PROGRESS are never reached. *)
NextStatus(action, s) ==
  CASE action = "triage" /\ s = "SUBMITTED" -> "TRIAGED"
    [] action = "assign" /\ s \in {"TRIAGED", "ASSIGNED"} -> "ASSIGNED"
    [] action = "complete" /\ s = "ASSIGNED" -> "COMPLETED"
    [] action = "verify" /\ s = "COMPLETED" -> "VERIFIED"
    [] action = "close" /\ s = "VERIFIED" -> "CLOSED"
    [] OTHER -> "NONE"

(* The versions of a request that snapshots have shown to clients so far. *)
Listed(t) == 1..ticket[t].version

(* The scope of a creation is the organization, that of a transition is the *)
(* action and the maintenance request.                                      *)
TicketRecorded(q) ==
  {e \in ticketRecord : /\ e.req.op = q.op /\ e.req.actor = q.actor /\ e.req.key = q.key
                        /\ q.op \in Actions => e.req.target = q.target}

(* Past the guard, the role check and the lookup of the key. *)
Welcome(q) ==
  /\ Role[q.actor] \in Managers \cup {"MAINTENANCE_MANAGER"}
  /\ TicketRecorded(q) = {}

-----------------------------------------------------------------------------
Attend(d, q, seen) ==
  /\ desk[d].stage = "idle"
  /\ desk' = [desk EXCEPT ![d] = [stage |-> "commit", req |-> q, seen |-> seen]]
  /\ UNCHANGED <<leasingVars, ticket, ticketRecord>>

(* Any failure, a unique violation included, is answered as "concurrent" *)
(* and rolled back.                                                      *)
Abandon(d) ==
  /\ desk[d].stage = "commit"
  /\ desk' = [desk EXCEPT ![d] = FreeDesk]
  /\ UNCHANGED <<leasingVars, ticket, ticketRecord>>

(* A request may be opened for a tenant only if the tenant is active. *)
BeginTicket(d, q) ==
  /\ q.op = "createTicket" /\ Welcome(q)
  /\ q.tenant # NoValue => tenant[q.tenant] = "ACTIVE"
  /\ Attend(d, q, NoTicket)

Store(d, t, row) ==
  LET q == desk[d].req IN
  /\ TicketRecorded(q) = {}
  /\ ticket' = [ticket EXCEPT ![t] = row]
  /\ ticketRecord' = ticketRecord \cup {[req |-> q, made |-> t]}
  /\ desk' = [desk EXCEPT ![d] = FreeDesk]
  /\ UNCHANGED leasingVars

CommitTicket(d) ==
  /\ desk[d].stage = "commit" /\ desk[d].req.op = "createTicket"
  /\ \E t \in Tickets :
       ticket[t] = NoTicket /\ Store(d, t, [status |-> "SUBMITTED", version |-> 1])

FaultyBeginTransition(d, q) ==
  /\ q.op \in Actions /\ Welcome(q)
  /\ q.version \in Listed(q.target)
  /\ ticket[q.target].version = q.version
  /\ Attend(d, q, ticket[q.target])

BeginTransition(d, q) ==
  /\ q.op \in Actions /\ Welcome(q)
  /\ q.version \in Listed(q.target)
  /\ ticket[q.target].version = q.version
  /\ NextStatus(q.op, ticket[q.target].status) # "NONE"
  /\ Attend(d, q, ticket[q.target])

FaultyCommitTransition(d) ==
  LET q == desk[d].req IN
  /\ desk[d].stage = "commit" /\ q.op \in Actions
  /\ ticket[q.target].version < MaxVersion
  /\ Store(d, q.target, [status |-> NextStatus(q.op, desk[d].seen.status),
                         version |-> desk[d].seen.version + 1])

(* The row is updated whatever its status and version have become. *)
CommitTransition(d) ==
  LET q == desk[d].req IN
  /\ desk[d].stage = "commit" /\ q.op \in Actions
  /\ ticket[q.target].version < MaxVersion
  /\ Store(d, q.target, [status |-> NextStatus(q.op, desk[d].seen.status),
                         version |-> ticket[q.target].version + 1])

-----------------------------------------------------------------------------
MaintenanceInit ==
  /\ Init
  /\ ticket = [t \in Tickets |-> NoTicket] /\ ticketRecord = {}
  /\ desk = [d \in Desks |-> FreeDesk]

MaintenanceStep ==
  \E d \in Desks :
    \/ \E q \in TicketRequests : BeginTicket(d, q) \/ BeginTransition(d, q)
    \/ CommitTicket(d) \/ CommitTransition(d) \/ Abandon(d)

MaintenanceNext == MaintenanceStep \/ (Next /\ UNCHANGED deskVars)

MaintenanceSpec == MaintenanceInit /\ [][MaintenanceNext]_<<leasingVars, deskVars>>

-----------------------------------------------------------------------------
(* Every variable has the values the schema and the handlers give it. *)
MaintenanceTypeOK ==
  /\ ticket \in [Tickets -> TicketRow]
  /\ ticketRecord \subseteq [req : TicketRequests, made : Tickets]
  /\ desk \in [Desks -> [stage : {"idle", "commit"}, req : TicketRequests \cup {NoValue},
                         seen : TicketRow]]

(* The life cycle of the documents: a closed request is read-only, so no     *)
(* write reopens it.  A transition that read the request before it was       *)
(* closed does: VClosedIsReadOnly shows how.                                 *)
ClosedIsReadOnly ==
  [][\A t \in Tickets : ticket[t].status = "CLOSED" => ticket'[t].status = "CLOSED"
    ]_<<leasingVars, deskVars>>

(* How far the lost update goes: a request goes back to an earlier stage     *)
(* only by the hand of a member whose transaction read it before another one *)
(* committed, so the version in the update's where clause would exclude it.  *)
OnlyStaleReadersRegress ==
  [][\A t \in Tickets :
       Rank(ticket'[t].status) < Rank(ticket[t].status) =>
         \E d \in Desks : /\ desk[d].stage = "commit" /\ desk'[d].stage = "idle"
                          /\ desk[d].req.op \in Actions /\ desk[d].req.target = t
                          /\ desk[d].seen.version < ticket[t].version
    ]_<<leasingVars, deskVars>>

(* Every stage was earned: even when transitions overtake one another, a     *)
(* request is at a stage only after each earlier stage was reached by a      *)
(* recorded transition.                                                      *)
StagesWereEarned ==
  \A t \in Tickets :
    LET done == {e.req.op : e \in {r \in ticketRecord : r.made = t}} IN
    \A i \in 2..6 :
      Rank(ticket[t].status) >= i =>
        <<"createTicket", "triage", "assign", "complete", "verify", "close">>[i] \in done

(* The version counts the transitions and the creation, each recorded under  *)
(* one key: what the race loses is a stage, never the count, so a client     *)
(* whose version still matches has seen the stage it builds on.              *)
VersionCountsTransitions ==
  /\ \A t \in Tickets : ticket[t].version = Cardinality({e \in ticketRecord : e.made = t})
  /\ \A d \in Desks :
       LET t == desk[d].req.target IN
       (desk[d].stage = "commit" /\ desk[d].req.op \in Actions
          /\ desk[d].seen.version = ticket[t].version) => desk[d].seen = ticket[t]

=============================================================================
