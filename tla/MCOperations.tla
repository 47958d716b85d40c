---------------------------- MODULE MCOperations ----------------------------
(***************************************************************************)
(* A small instance of leasing and maintenance.  The two share the tenants *)
(* only, which maintenance reads; a behaviour explores the leases or the   *)
(* maintenance requests, either one with the tenants' invitations.         *)
(***************************************************************************)
EXTENDS Maintenance, TLC

CONSTANTS owner, manager, accountant, janitor, k1

MCRole == [a \in Actors |->
             CASE a = owner -> "OWNER"
               [] a = manager -> "PROPERTY_MANAGER"
               [] a = accountant -> "ACCOUNTANT"
               [] OTHER -> "MAINTENANCE_MANAGER"]

Good == [days |-> 365, rent |-> 2, deposit |-> 6, dueDay |-> 28]
Short == [Good EXCEPT !.days = 29]

TenantRequests ==
  [op : {"createTenant"}, actor : {owner}, key : {k1}, target : Tenants, send : BOOLEAN]
    \cup [op : {"acceptInvitation"}, target : Tenants]
Ask(op, actors, versions) ==
  [op : {op}, actor : actors, key : {k1}, target : Leases, version : versions]
MCLeasingRequests ==
  TenantRequests
    \cup [op : {"createLease"}, actor : {owner, manager}, key : {k1}, unit : Units,
          tenant : Tenants, terms : {Good}]
    \cup [op : {"createLease"}, actor : {owner}, key : {k1}, unit : Units,
          tenant : Tenants, terms : {Short}]
    \cup Ask("validate", {owner, accountant}, {1})
    \cup Ask("activate", {manager}, {2})
    \cup Ask("renewal-marker", {owner, manager}, {3})
    \cup Ask("terminate", {owner}, {1, 3, 4})
    \cup [op : {"charge"}, actor : {accountant, janitor}, target : Leases]

Handling(action, actors, versions) ==
  [op : {action}, actor : actors, key : {k1}, target : Tickets, version : versions]
MCTicketRequests ==
  [op : {"createTicket"}, actor : {janitor, accountant}, key : {k1}, tenant : Tenants]
    \cup [op : {"createTicket"}, actor : {owner}, key : {k1}, tenant : {NoValue}]
    \cup Handling("triage", {janitor}, 1..2)
    \cup Handling("assign", {owner, janitor}, 2..3)
    \cup Handling("complete", {owner, janitor}, 2..5)
    \cup Handling("verify", {owner}, 4..5)
    \cup Handling("close", {owner}, 5..6)

VARIABLE focus

MCInit == MaintenanceInit /\ focus \in {"leasing", "maintenance"}
MCNext ==
  /\ UNCHANGED focus
  /\ \/ focus = "leasing" /\ Next /\ UNCHANGED deskVars
     \/ /\ focus = "maintenance"
        /\ \/ MaintenanceStep
           \/ /\ \A h \in Handlers : call[h].stage = "idle"  \* one request at a time
              /\ \E h \in Handlers, q \in TenantRequests : Begin(h, q)
              /\ UNCHANGED deskVars
           \/ (\E h \in Handlers : Continue(h)) /\ UNCHANGED deskVars
MCSpec == MCInit /\ [][MCNext]_<<leasingVars, deskVars, focus>>

Symmetry == Permutations(Handlers) \cup Permutations(Leases)
              \cup Permutations(Tickets) \cup Permutations(Desks)

=============================================================================
