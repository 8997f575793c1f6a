------------------------- MODULE MCPolicyResolution -------------------------
(***************************************************************************)
(* PolicyResolution on small instances: one metric, two templates.  Either *)
(* patch is valid on the first policy, both together are not; the third    *)
(* policy is one that no request may store.                                *)
(***************************************************************************)
EXTENDS PolicyForms

CONSTANTS r1, r2, t1, t2, ops

MCPolicy(condition, warning, critical, interval, team) ==
    [condition |-> condition, warning |-> warning, critical |-> critical,
     interval |-> interval, team |-> team]

MCPolicies ==
    {MCPolicy("gt", 1, 3, 30, Null), MCPolicy("lt", 2, 1, 60, ops), MCPolicy("gt", 3, 1, 60, Null)}

\* Thresholds next to each other and an unset one; and equal or crossed ones for
\* every condition that orders them, which no request may store.
MCOverrides ==
    {MCPolicy("gte", 1, 2, 30, Null), MCPolicy("lt", 2, 1, 60, ops),
     MCPolicy("eq", 1, NoThreshold, 60, Null)}
    \cup {MCPolicy("gt", 1, 1, 60, Null), MCPolicy("gte", 2, 1, 60, Null),
          MCPolicy("lte", 1, 1, 60, Null), MCPolicy("lt", 1, 2, 60, Null)}

MCSuggestions == {[condition |-> Null, warning |-> NoThreshold, critical |-> 2, interval |-> 30]}

MCPatches == {[warning |-> 2], [critical |-> 2]}
=============================================================================
