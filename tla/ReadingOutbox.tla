---------------------------- MODULE ReadingOutbox ----------------------------
(***************************************************************************)
(* What an agent promises about the readings it sends: a send offers the   *)
(* newest reading of every metric that has an unsettled one, one at a time *)
(* is on its way, and what a failed send leaves is offered again unless a  *)
(* newer reading has come.  So a metric's readings are settled, as far as  *)
(* the agent knows, in the order they were collected, none of them twice,  *)
(* and the newest is never left out; but one whose answer was lost is      *)
(* offered again, although the server may have stored it.  Nothing here    *)
(* says where readings wait, or when sends begin.                          *)
(***************************************************************************)
EXTENDS Naturals

CONSTANTS Metrics, NoMetric

VARIABLES
    newest,             \* how many readings of a metric were collected
    settled,            \* the last one the agent knows to be accepted or rejected
    offered,            \* the one the send in flight holds, 0 when none
    underway            \* the metric whose reading is on its way

outbox == <<newest, settled, offered, underway>>

Nothing == [m \in Metrics |-> 0]

Init ==
    /\ newest = Nothing /\ settled = Nothing /\ offered = Nothing
    /\ underway = NoMetric

Collected(m) ==
    /\ newest' = [newest EXCEPT ![m] = @ + 1]
    /\ UNCHANGED <<settled, offered, underway>>

\* No send is in flight, and one begins.
Offer ==
    /\ offered = Nothing
    /\ offered' = [m \in Metrics |-> IF newest[m] = settled[m] THEN 0 ELSE newest[m]]
    /\ UNCHANGED <<newest, settled, underway>>

Leave(m) ==
    /\ underway = NoMetric
    /\ offered[m] # 0
    /\ underway' = m
    /\ UNCHANGED <<newest, settled, offered>>

Settled(m) ==
    /\ underway = m
    /\ settled' = [settled EXCEPT ![m] = offered[m]]
    /\ offered' = [offered EXCEPT ![m] = 0]
    /\ underway' = NoMetric
    /\ UNCHANGED newest

\* The send fails, or its answer is lost, and with it goes whatever was not
\* settled yet.
Withdraw ==
    /\ underway # NoMetric
    /\ offered' = Nothing
    /\ underway' = NoMetric
    /\ UNCHANGED <<newest, settled>>

Next ==
    \/ \E m \in Metrics : Collected(m) \/ Leave(m) \/ Settled(m)
    \/ Offer \/ Withdraw

Spec == Init /\ [][Next]_outbox
=============================================================================
