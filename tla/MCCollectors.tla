---------------------------- MODULE MCCollectors ----------------------------
(***************************************************************************)
(* Collectors on a small instance: two devices, or two fields, and two     *)
(* collections of one metric at once.                                      *)
(***************************************************************************)
EXTENDS Collectors, TLC

CONSTANTS c1, c2, k1, k2

MCSymmetry == Permutations(Counters) \cup Permutations(Collections)
=============================================================================
