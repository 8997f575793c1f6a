--------------------------- MODULE MCMetricChecks ---------------------------
(***************************************************************************)
(* MetricChecks on small instances: a tick is the page's 90 s, the API     *)
(* forgets after two of them.                                              *)
(***************************************************************************)
EXTENDS MetricChecks
=============================================================================
