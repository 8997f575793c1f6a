---------------------------- MODULE AlertLevels ----------------------------
(***************************************************************************)
(* How a measured value is judged: utils/alert-levels.ts.  A policy has a  *)
(* condition and two thresholds, either of which may be unset; a value is  *)
(* critical, warning or healthy under it.  Thresholds and values are       *)
(* integers here (the program's are doubles): only their order matters.    *)
(***************************************************************************)
EXTENDS Integers

CONSTANT NoThreshold       \* the null of an unset threshold

ASSUME NoThresholdAssumption == NoThreshold \notin Int

Conditions == {"gt", "gte", "lt", "lte", "eq"}

Levels == {"warning", "critical"}

NoLevel == "none"          \* the null of a healthy reading

Thresholds == Int \cup {NoThreshold}

Breaches(value, condition, threshold) ==
    \/ condition = "gt"  /\ value > threshold
    \/ condition = "gte" /\ value >= threshold
    \/ condition = "lt"  /\ value < threshold
    \/ condition = "lte" /\ value <= threshold
    \/ condition = "eq"  /\ value = threshold

\* A level trips when its threshold is set and the value breaches it.
Trips(value, condition, threshold) ==
    threshold # NoThreshold /\ Breaches(value, condition, threshold)

LevelOf(value, condition, warning, critical) ==
    IF Trips(value, condition, critical) THEN "critical"
    ELSE IF Trips(value, condition, warning) THEN "warning"
    ELSE NoLevel

\* Mutant: equal thresholds are let through.
MutantValidThresholds(condition, warning, critical) ==
    warning # NoThreshold /\ critical # NoThreshold =>
        /\ condition \in {"gt", "gte"} => warning <= critical
        /\ condition \in {"lt", "lte"} => warning >= critical

\* What assertValidThresholds lets through (it throws a 422 for the rest).
ValidThresholds(condition, warning, critical) ==
    warning # NoThreshold /\ critical # NoThreshold =>
        /\ condition \in {"gt", "gte"} => warning < critical
        /\ condition \in {"lt", "lte"} => warning > critical

\* The threshold an alert's message quotes for its level, 0 when it is unset.
QuotedThreshold(level, warning, critical) ==
    LET threshold == IF level = "critical" THEN critical ELSE warning
    IN  IF threshold = NoThreshold THEN 0 ELSE threshold
=============================================================================
