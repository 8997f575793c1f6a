-------------------------- MODULE MCAlertLifecycle --------------------------
(***************************************************************************)
(* AlertLifecycle on small instances: values 0 (healthy), 1 (warning) and  *)
(* 2 (critical) under the policies below.                                  *)
(***************************************************************************)
EXTENDS AlertLifecycle, TLC

CONSTANTS cpu, disk, nic   \* cpu is host-wide, disk is measured on nic

MCInterfaceOf == [s \in Series |-> IF s = cpu THEN HostWide ELSE nic]

MCPolicy(n) == [condition |-> "gte", warning |-> 1, critical |-> 2, consecutiveBreaches |-> n]

MCStreakOfTwo == {MCPolicy(2)}

\* The second one alerts at once, on critical values only.
MCTwoPolicies ==
    {MCPolicy(2), [condition |-> "gt", warning |-> NoThreshold, critical |-> 1, consecutiveBreaches |-> 1]}

MCSymmetry == Permutations(Handlers) \cup Permutations(Users) \cup Permutations(AlertIds)
=============================================================================
