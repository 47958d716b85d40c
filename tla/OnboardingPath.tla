--------------------------- MODULE OnboardingPath ---------------------------
(***************************************************************************)
(* What the onboarding of organizations promises: an organization enters   *)
(* its stages one at a time and in their order, proves its second factor   *)
(* on the way into the fourth, gets its property on the way into the fifth *)
(* and is active in the sixth; nothing of it is ever taken back.           *)
(***************************************************************************)
EXTENDS Integers

CONSTANTS Orgs

VARIABLES
  stage,   \* stage of each organization, 0 for none
  proven,  \* organizations whose owner acknowledged the codes of a factor
  housed,  \* organizations with a property
  active   \* organizations that were activated

pathVars == <<stage, proven, housed, active>>

Init == /\ stage = [o \in Orgs |-> 0]
        /\ proven = {} /\ housed = {} /\ active = {}

(* What an organization gains when it enters stage n. *)
Gain(set, o, n, at) == IF n = at THEN set \cup {o} ELSE set

Enter(o, n) ==
  /\ stage[o] = n - 1
  /\ stage' = [stage EXCEPT ![o] = n]
  /\ o \notin proven \/ n # 4
  /\ proven' = Gain(proven, o, n, 4)
  /\ housed' = Gain(housed, o, n, 5)
  /\ active' = Gain(active, o, n, 6)

Next == \E o \in Orgs, n \in 1..6 : Enter(o, n)

Spec == Init /\ [][Next]_pathVars

=============================================================================
