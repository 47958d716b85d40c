----------------------------- MODULE Occupancy -----------------------------
(***************************************************************************)
(* What the leasing module promises about the units of one organization,   *)
(* without tenants, requests, versions or retries: a unit has one holder   *)
(* at a time, a lease holds its unit during one unbroken period, and rent  *)
(* is billed once, to a lease that holds its unit or has held it.          *)
(***************************************************************************)


CONSTANTS Units, Leases, NoOne

VARIABLES
  holder,  \* the lease that holds each unit
  gone,    \* leases that gave their unit back
  billed   \* leases billed for the period

occupancy == <<holder, gone, billed>>

Holding == {holder[u] : u \in Units} \ {NoOne}

Init == holder = [u \in Units |-> NoOne] /\ gone = {} /\ billed = {}

MoveIn(u, l) ==
  /\ holder[u] = NoOne /\ l \notin Holding \cup gone
  /\ holder' = [holder EXCEPT ![u] = l]
  /\ UNCHANGED <<gone, billed>>

MoveOut(u) ==
  /\ holder[u] # NoOne
  /\ holder' = [holder EXCEPT ![u] = NoOne]
  /\ gone' = gone \cup {holder[u]}
  /\ UNCHANGED billed

Bill(l) ==
  /\ l \in (Holding \cup gone) \ billed
  /\ billed' = billed \cup {l}
  /\ UNCHANGED <<holder, gone>>

Next == \/ \E u \in Units, l \in Leases : MoveIn(u, l)
        \/ \E u \in Units : MoveOut(u)
        \/ \E l \in Leases : Bill(l)

Spec == Init /\ [][Next]_occupancy

=============================================================================
