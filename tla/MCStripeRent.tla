---------------------------- MODULE MCStripeRent ----------------------------
(***************************************************************************)
(* Small instances of StripeRent: one lease, whose obligations are paid    *)
(* online and at the desk.                                                 *)
(***************************************************************************)
EXTENDS StripeRent, TLC

CONSTANTS owner, RentAmount

MCRole == [a \in Actors |-> IF a = owner THEN "OWNER" ELSE "ACCOUNTANT"]
MCLeaseOf == [o \in Obligations |-> "lease"]
MCTenantOf == [o \in Obligations |-> "tenant"]
MCRent == [o \in Obligations |-> RentAmount]

Up(n) == {a \in [Obligations -> 0..n] : Included(a) # {}}

ChargeRequests == [op : {"create"}, actor : {owner}, key : Keys, target : Obligations]
DeskPayments == [op : {"pay"}, actor : {owner}, key : Keys, amounts : Up(RentAmount)]
DeskRefunds ==
  [op : {"refund"}, actor : {owner}, key : Keys, target : PaymentIds, amounts : Up(1)]

DeskRequests == ChargeRequests \cup DeskPayments
AllDeskRequests == DeskRequests \cup DeskRefunds
OnlineRequests == [actor : Actors, key : Keys, amounts : Up(RentAmount)]

EveryEvent == {EventType[t] : t \in DOMAIN EventType}
PaymentEvents == {"payment_intent.succeeded", "payment_intent.processing"}

Symmetry == Permutations(Clients) \cup Permutations(PaymentIds) \cup Permutations(RefundIds)
              \cup Permutations(Keys) \cup Permutations(Intents)
              \cup Permutations(Events) \cup Permutations(Handlers)

=============================================================================
