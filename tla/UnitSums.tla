------------------------------ MODULE UnitSums ------------------------------
(***************************************************************************)
(* Sums of money.  The program keeps amounts as integers of the minor      *)
(* currency unit and adds them with `reduce((sum, item) => sum + ..., 0)`. *)
(* Here a sum over a finite table of amounts is the number of its units:   *)
(* entry x of amount f[x] contributes the pairs <<x, 1>> .. <<x, f[x]>>.   *)
(* The definition needs no recursion, so the provers can reason about it.  *)
(***************************************************************************)
EXTENDS Integers, FiniteSets

(* The units of entry x, and those of the whole table. *)
UnitsAt(f, x) == {x} \X (1..f[x])
Units(f) == UNION {UnitsAt(f, x) : x \in DOMAIN f}

(* The sum of the amounts of f, a function into Nat with a finite domain. *)
UnitSum(f) == Cardinality(Units(f))

=============================================================================
