----------------------------- MODULE MCHostDown -----------------------------
(***************************************************************************)
(* HostDown on small instances: one tick is three minutes' worth of        *)
(* silence for web, db is silent after a longer window of its own.         *)
(***************************************************************************)
EXTENDS HostDown

CONSTANTS web, db

MCLongestInterval == [t \in Targets |-> IF t = db THEN 1 ELSE 0]
=============================================================================
