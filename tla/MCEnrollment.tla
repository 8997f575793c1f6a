---------------------------- MODULE MCEnrollment ----------------------------
(***************************************************************************)
(* Enrollment on small instances: hosts that share a name, or name and     *)
(* address.                                                                *)
(***************************************************************************)
EXTENDS Enrollment, TLC

CONSTANTS web, copy, other, i1, i2, t1, t2, c1, c2

MCIdentities == {<<"web", 1>>, <<"web", 2>>}
MCName == [i \in MCIdentities |-> i[1]]
MCIdentityOf == [h \in Hosts |-> IF h = other THEN <<"web", 2>> ELSE <<"web", 1>>]

MCSymmetry == Permutations(Tokens) \cup Permutations(Calls) \cup Permutations(TargetIds)
=============================================================================
