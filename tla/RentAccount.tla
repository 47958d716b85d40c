---------------------------- MODULE RentAccount ----------------------------
(***************************************************************************)
(* What the rent module promises about the obligations of one              *)
(* organization, without requests, versions, payments or retries: rent is  *)
(* charged once, money is received only for rent that is due and never     *)
(* beyond it, and no more is returned at a time than was received.  A step *)
(* may concern any set of obligations, as one payment may settle several.  *)
(* That all the returns together stay within what was received is not      *)
(* promised here: two refunds that race can exceed it (NoOverRefund).      *)
(***************************************************************************)
EXTENDS Integers

CONSTANTS Obligations, Rent

VARIABLES
  due,       \* rent charged
  received,  \* all that was ever received for the obligation
  returned   \* all that was ever refunded of it

account == <<due, received, returned>>

Nothing == [o \in Obligations |-> 0]
Within(low, high) == \A o \in Obligations : low[o] <= high[o]

Init == due = Nothing /\ received = Nothing /\ returned = Nothing

Charge ==
  /\ \E o \in Obligations : due[o] = 0 /\ due' = [due EXCEPT ![o] = Rent[o]]
  /\ UNCHANGED <<received, returned>>

Receive ==
  /\ received' \in [Obligations -> Nat]
  /\ Within(received, received') /\ Within(received', due)
  /\ UNCHANGED <<due, returned>>

Return ==
  /\ returned' \in [Obligations -> Nat]
  /\ Within(returned, returned')
  /\ \A o \in Obligations : returned'[o] - returned[o] <= received[o]
  /\ UNCHANGED <<due, received>>

Next == Charge \/ Receive \/ Return

Spec == Init /\ [][Next]_account

=============================================================================
