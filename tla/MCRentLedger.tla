---------------------------- MODULE MCRentLedger ----------------------------
(***************************************************************************)
(* A small instance of RentLedger.  Every obligation belongs to a lease of *)
(* its own; a behaviour explores one of three workloads, as racing         *)
(* everything at once is beyond TLC.                                       *)
(***************************************************************************)
EXTENDS RentLedger, TLC

CONSTANTS owner, accountant, manager,  \* members, by their role
          o1, o2, o3,   \* two obligations of one tenant, one of another
          k0, k1, k2    \* the charges' key, and the keys of what is raced

MCRole ==
  [a \in Actors |->
     CASE a = owner -> "OWNER"
       [] a = accountant -> "ACCOUNTANT"
       [] a = manager -> "PROPERTY_MANAGER"]

MCLeaseOf == [o \in Obligations |-> o]
MCTenantOf == [o \in Obligations |-> IF o = o3 THEN "second" ELSE "first"]
MCRent == [o \in Obligations |-> IF o = o3 THEN 1 ELSE 2]

Just(o, n) == [x \in Obligations |-> IF x = o THEN n ELSE 0]
Both(x, y, n) == [Just(x, n) EXCEPT ![y] = n]

Creates(actors, targets) ==
  [op : {"create"}, actor : actors, key : {k0}, target : targets]
Pays(actors, keys, amounts) ==
  [op : {"pay"}, actor : actors, key : keys, amounts : amounts]
Refunds(actors, keys, amounts) ==
  [op : {"refund"}, actor : actors, key : keys, target : PaymentIds, amounts : amounts]
Resolves(actors, versions) ==
  [op : {"resolve"}, actor : actors, target : Items, expected : versions]

(* Payments of one or of both obligations of a tenant, racing and retried, and *)
(* attempts to pay them together with another tenant's.                        *)
JointRequests ==
  Creates({owner}, Obligations)
    \cup Pays({owner}, {k1, k2},
              {Just(o1, 2), Just(o2, 1), Both(o1, o2, 1), Both(o1, o3, 1)})

(* Payments and refunds of the same obligation. *)
RefundRequests ==
  LET amounts == {Just(o1, n) : n \in 1..2} IN
  Creates({owner}, {o1}) \cup Pays({owner}, {k1, k2}, amounts)
    \cup Refunds({owner}, {k1, k2}, amounts)

(* Every kind of request: an obligation is charged by two members, paid,  *)
(* refunded and reviewed by two; the manager may charge, but not refund.  *)
ReviewRequests ==
  Creates({owner, manager}, {o1}) \cup Pays({owner}, {k0}, {Just(o1, 1)})
    \cup Refunds({owner, manager}, {k0}, {Just(o1, 1)})
    \cup Resolves({owner}, {1}) \cup Resolves({accountant}, {1, 2})

Workload == [joint |-> JointRequests, refunds |-> RefundRequests, review |-> ReviewRequests]
MCRequests == UNION {Workload[w] : w \in DOMAIN Workload}

(* A review concerns the payments and items there are, once there is one. *)
Known == {p \in PaymentIds : payment[p] > 0} \cup {f \in RefundIds : refundOf[f] # NoValue}
Named(r) == r.op \in {"refund", "resolve"} => r.target \in Known \/ Known = {}

VARIABLE workload

MCInit == Init /\ workload \in DOMAIN Workload
MCNext ==
  /\ UNCHANGED workload
  /\ \E c \in Clients :
       \/ \E r \in Workload[workload] :
            (workload = "review" => Named(r)) /\ Begin(c, r)
       \/ Serve(c)
       \/ Abort(c)
MCSpec == MCInit /\ [][MCNext]_<<vars, workload>>

Symmetry == Permutations(Clients) \cup Permutations({k1, k2})
              \cup Permutations(PaymentIds) \cup Permutations(RefundIds)

=============================================================================
