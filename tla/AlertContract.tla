---------------------------- MODULE AlertContract ----------------------------
(***************************************************************************)
(* What the alert board promises its readers: an alert is opened once, in  *)
(* a series that has no open alert; it follows one reading at a time, each *)
(* of which began to be judged while it was open; resolved, it is never    *)
(* open again.  What a resolved alert shows may change once more, by the   *)
(* reading that was being judged when a user resolved it, and never after  *)
(* that.  Nothing here says which request does what, or when.              *)
(***************************************************************************)
EXTENDS Naturals

CONSTANTS Series, AlertIds, Levels, Values,
    Judges,                \* what judges readings
    NoAlert

VARIABLES
    board,                 \* what the board shows of each alert
    judging                \* the alert each judge is about to write, or NoAlert

shown == <<board, judging>>

Unopened == [status |-> "unopened"]
Row == [status : {"open", "resolved"}, series : Series, severity : Levels,
        value : Values, at : Nat]

OpenAlerts == {a \in AlertIds : board[a].status = "open"}

Init ==
    /\ board = [a \in AlertIds |-> Unopened]
    /\ judging = [j \in Judges |-> NoAlert]

\* The board's other rows stay as they are.
Rewrites(a) == board'[a] \in Row /\ board' = [board EXCEPT ![a] = board'[a]]

\* A breach opens an alert.
Raise(a, s) ==
    /\ board[a] = Unopened
    /\ \A b \in OpenAlerts : board[b].series # s
    /\ Rewrites(a)
    /\ board'[a].status = "open" /\ board'[a].series = s
    /\ UNCHANGED judging

\* A reading that finds an open alert is the only one to judge it.
Judge(j, a) ==
    /\ judging[j] = NoAlert
    /\ a \in OpenAlerts
    /\ \A k \in Judges : judging[k] # a
    /\ judging' = [judging EXCEPT ![j] = a]
    /\ UNCHANGED board

\* The alert takes the level, value and time of that reading; if a user has
\* resolved it meanwhile it stays resolved.
Follow(j) ==
    LET a == judging[j] IN
    /\ a # NoAlert
    /\ Rewrites(a)
    /\ board'[a].series = board[a].series
    /\ board'[a].status = board[a].status
    /\ judging' = [judging EXCEPT ![j] = NoAlert]

\* A healthy reading resolves it, at the severity it had.
Recover(j) ==
    LET a == judging[j] IN
    /\ a # NoAlert
    /\ Rewrites(a)
    /\ board'[a].series = board[a].series
    /\ board'[a].status = "resolved"
    /\ board'[a].severity = board[a].severity
    /\ judging' = [judging EXCEPT ![j] = NoAlert]

\* The reading is lost before it is applied.
GiveUp(j) ==
    /\ judging[j] # NoAlert
    /\ judging' = [judging EXCEPT ![j] = NoAlert]
    /\ UNCHANGED board

\* A user resolves open alerts; what they show besides stays.
Resolve(ids) ==
    /\ ids \subseteq OpenAlerts
    /\ board' = [a \in AlertIds |->
          IF a \in ids THEN [board[a] EXCEPT !.status = "resolved"] ELSE board[a]]
    /\ UNCHANGED judging

Next ==
    \/ \E a \in AlertIds, s \in Series : Raise(a, s)
    \/ \E j \in Judges, a \in AlertIds : Judge(j, a)
    \/ \E j \in Judges : Follow(j) \/ Recover(j) \/ GiveUp(j)
    \/ \E ids \in SUBSET AlertIds : Resolve(ids)

Spec == Init /\ [][Next]_shown
=============================================================================
