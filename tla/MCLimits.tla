------------------------------ MODULE MCLimits ------------------------------
(***************************************************************************)
(* A small instance of Limits.  No property of it tells addresses or       *)
(* requests apart, and none is a liveness property.                        *)
(***************************************************************************)
EXTENDS Limits, TLC

Symmetry == Permutations(Address) \cup Permutations(Request)
=============================================================================
