---------------------------- MODULE MetricChecks ----------------------------
(***************************************************************************)
(* "Check now" on one target: the requests the API keeps in memory         *)
(* (metric-checks.service.ts), the page that waits for their results       *)
(* (useMetricCheck.ts), and the requests and answers between the two.  The *)
(* agent may poll and send a reading at any time; what a check's reading   *)
(* shows is left out.                                                      *)
(***************************************************************************)
EXTENDS Naturals

CONSTANTS
    Metrics,
    Polls,              \* pollPending calls that may be in progress together
    CheckTimeout,       \* CHECK_TIMEOUT_MS, after which the API forgets a check
    PageTimeout,        \* TIMEOUT_MS, after which the page gives up
    NoCheck, NoEntry,
    MaxRestarts         \* bounds the restarts of the API

\* Ages are kept no further than they are compared.
Check == [age : 0..(CheckTimeout + 1), delivered : BOOLEAN, done : BOOLEAN]
Entry == [age : 0..(PageTimeout + 1), posted : BOOLEAN]

ASSUME ChecksAssumption ==
    /\ CheckTimeout \in Nat /\ PageTimeout \in Nat /\ PageTimeout < CheckTimeout
    /\ NoCheck \notin Check /\ NoEntry \notin Entry
    /\ MaxRestarts \in Nat

VARIABLES
    checks,             \* the API's requests, by metric
    page,               \* the page's `pending', by metric
    timer,              \* the page polls
    posts, polls,       \* the page's calls in progress, at most one post per metric
    restarts

vars == <<checks, page, timer, posts, polls, restarts>>

Idle == [state |-> "idle"]

Init ==
    /\ checks = [m \in Metrics |-> NoCheck]
    /\ page = [m \in Metrics |-> NoEntry]
    /\ timer = FALSE
    /\ posts = [m \in Metrics |-> "idle"]
    /\ polls = [p \in Polls |-> Idle]
    /\ restarts = 0

Older(n, limit) == IF n > limit THEN n ELSE n + 1

Tick ==
    /\ checks' = [m \in Metrics |-> IF checks[m] = NoCheck THEN NoCheck
                                    ELSE [checks[m] EXCEPT !.age = Older(@, CheckTimeout)]]
    /\ page' = [m \in Metrics |-> IF page[m] = NoEntry THEN NoEntry
                                  ELSE [page[m] EXCEPT !.age = Older(@, PageTimeout)]]
    /\ UNCHANGED <<timer, posts, polls, restarts>>

-----------------------------------------------------------------------------
(* The API. *)

Live(m) == checks[m] # NoCheck /\ checks[m].age <= CheckTimeout

\* Requests past their time are dropped whenever the others are looked at.
LiveChecks == [m \in Metrics |-> IF Live(m) THEN checks[m] ELSE NoCheck]

\* Mutant: a request for a metric that has one already changes nothing.
MutantRequestMetricCheck(m) ==
    checks' = [checks EXCEPT ![m] =
        IF @ = NoCheck THEN [age |-> 0, delivered |-> FALSE, done |-> FALSE] ELSE @]

\* addCheck, once the target is known to be up and to report the metric:
\* clicking again restarts the request.
RequestMetricCheck(m) ==
    checks' = [checks EXCEPT ![m] = [age |-> 0, delivered |-> FALSE, done |-> FALSE]]

\* Somebody else's page asks for the same, or a request of this page arrives
\* that the page has given up.
OtherPageAsks(m) ==
    /\ RequestMetricCheck(m)
    /\ UNCHANGED <<page, timer, posts, polls, restarts>>

\* pollAgent: the requests the agent has not been told of are handed out.
TakeUndelivered ==
    /\ checks' = [m \in Metrics |-> IF Live(m) THEN [checks[m] EXCEPT !.delivered = TRUE]
                                    ELSE NoCheck]
    /\ UNCHANGED <<page, timer, posts, polls, restarts>>

\* submitReading ends with completeCheck: only a delivered request without a
\* result is fulfilled.
SubmitReading(m) ==
    /\ checks[m] # NoCheck /\ checks[m].delivered /\ ~checks[m].done
    /\ checks' = [checks EXCEPT ![m].done = TRUE]
    /\ UNCHANGED <<page, timer, posts, polls, restarts>>

\* Requests live in the process's memory.
ApiRestart ==
    /\ restarts < MaxRestarts
    /\ restarts' = restarts + 1
    /\ checks' = [m \in Metrics |-> NoCheck]
    /\ UNCHANGED <<page, timer, posts, polls>>

-----------------------------------------------------------------------------
(* The page. *)

\* check(): the entry is there before the request is on its way.
Click(m) ==
    /\ page[m] = NoEntry
    /\ posts[m] = "idle"
    /\ posts' = [posts EXCEPT ![m] = "sent"]
    /\ page' = [page EXCEPT ![m] = [age |-> 0, posted |-> FALSE]]
    /\ UNCHANGED <<checks, timer, polls, restarts>>

PostArrives(m) ==
    /\ posts[m] = "sent"
    /\ RequestMetricCheck(m)
    /\ posts' = [posts EXCEPT ![m] = "added"]
    /\ UNCHANGED <<page, timer, polls, restarts>>

\* The answer: the page polls from now on.
PostReturns(m) ==
    /\ posts[m] = "added"
    /\ posts' = [posts EXCEPT ![m] = "idle"]
    /\ page' = [page EXCEPT ![m] = IF @ = NoEntry THEN NoEntry ELSE [@ EXCEPT !.posted = TRUE]]
    /\ timer' = TRUE
    /\ UNCHANGED <<checks, polls, restarts>>

\* The request was refused, or it or its answer was lost: the entry is dropped.
PostFails(m) ==
    /\ posts[m] # "idle"
    /\ posts' = [posts EXCEPT ![m] = "idle"]
    /\ page' = [page EXCEPT ![m] = NoEntry]
    /\ UNCHANGED <<checks, timer, polls, restarts>>

\* Mutant: entries past their time are not dropped.
MutantPollPending(p) ==
    LET empty == \A m \in Metrics : page[m] = NoEntry IN
    /\ timer
    /\ polls[p] = Idle
    /\ timer' = ~empty
    /\ \/ ~empty /\ polls' = [polls EXCEPT ![p] = [state |-> "fetching"]]
       \/ UNCHANGED polls
    /\ UNCHANGED <<checks, page, posts, restarts>>

\* pollPending: entries past their time are dropped first; the page then asks
\* for the target's checks, unless it is hidden.
PollPending(p) ==
    LET kept == [m \in Metrics |-> IF page[m] # NoEntry /\ page[m].age > PageTimeout
                                   THEN NoEntry ELSE page[m]]
        empty == \A m \in Metrics : kept[m] = NoEntry IN
    /\ timer
    /\ polls[p] = Idle
    /\ page' = kept
    /\ timer' = ~empty
    /\ \/ ~empty /\ polls' = [polls EXCEPT ![p] = [state |-> "fetching"]]
       \/ UNCHANGED polls
    /\ UNCHANGED <<checks, posts, restarts>>

\* listChecks answers.
ListChecks(p) ==
    /\ polls[p].state = "fetching"
    /\ checks' = LiveChecks
    /\ polls' = [polls EXCEPT ![p] = [state |-> "answered", list |->
          [m \in Metrics |-> IF ~Live(m) THEN "absent" ELSE IF checks[m].done THEN "done" ELSE "waiting"]]]
    /\ UNCHANGED <<page, timer, posts, restarts>>

\* Mutant: the timer stops as soon as the list shows a result.
MutantApplyList(p) ==
    LET ended == {m \in Metrics : polls[p].list[m] # "waiting"} IN
    /\ polls[p].state = "answered"
    /\ polls' = [polls EXCEPT ![p] = Idle]
    /\ page' = [m \in Metrics |-> IF m \in ended THEN NoEntry ELSE page[m]]
    /\ timer' = (timer /\ ~\E m \in Metrics : polls[p].list[m] = "done")
    /\ UNCHANGED <<checks, posts, restarts>>

\* Entries whose check has a result are shown, entries whose check is not
\* listed end like a time-out; without entries the timer stops.
ApplyList(p) ==
    LET ended == {m \in Metrics : polls[p].list[m] # "waiting"} IN
    /\ polls[p].state = "answered"
    /\ polls' = [polls EXCEPT ![p] = Idle]
    /\ page' = [m \in Metrics |-> IF m \in ended THEN NoEntry ELSE page[m]]
    /\ timer' = (timer /\ \E m \in Metrics : page'[m] # NoEntry)
    /\ UNCHANGED <<checks, posts, restarts>>

\* "A failed request is just retried on the next tick."
ListFails(p) ==
    /\ polls[p] # Idle
    /\ polls' = [polls EXCEPT ![p] = Idle]
    /\ timer' = (timer /\ \E m \in Metrics : page[m] # NoEntry)
    /\ UNCHANGED <<checks, page, posts, restarts>>

-----------------------------------------------------------------------------

PostStep(m) == PostArrives(m) \/ PostReturns(m) \/ PostFails(m)
PollStep(p) == ListChecks(p) \/ ApplyList(p) \/ ListFails(p)

Next ==
    \/ Tick \/ TakeUndelivered \/ ApiRestart
    \/ \E m \in Metrics :
          OtherPageAsks(m) \/ SubmitReading(m) \/ Click(m) \/ PostStep(m)
    \/ \E p \in Polls : PollPending(p) \/ PollStep(p)

Spec == Init /\ [][Next]_vars

\* Time passes, calls end, and a timer that is set fires; no agent, user or
\* answer of any kind is promised.
FairSpec ==
    /\ Spec
    /\ WF_vars(Tick)
    /\ \A m \in Metrics : WF_vars(PostStep(m))
    /\ \A p \in Polls : WF_vars(PollStep(p))
    /\ WF_vars(\E p \in Polls : PollPending(p))

-----------------------------------------------------------------------------
(* Properties. *)

\* Only a request the agent was told of has a result.
ChecksTyped ==
    /\ checks \in [Metrics -> Check \cup {NoCheck}]
    /\ \A m \in Metrics : checks[m] # NoCheck /\ checks[m].done => checks[m].delivered

PageTyped ==
    /\ page \in [Metrics -> Entry \cup {NoEntry}]
    /\ timer \in BOOLEAN
    /\ posts \in [Metrics -> {"idle", "sent", "added"}]

PollsTyped ==
    polls \in [Polls -> {Idle} \cup [state : {"fetching"}]
                        \cup [state : {"answered"}, list : [Metrics -> {"absent", "waiting", "done"}]]]

\* Type correctness of the API's map, the page's map and the calls in between.
TypeOK == ChecksTyped /\ PageTyped /\ PollsTyped /\ restarts \in 0..MaxRestarts

\* An entry whose request was answered is polled for, or it would be pending
\* for ever (check() starts the timer, pollPending stops it).
PolledWhilePending ==
    \A m \in Metrics : page[m] # NoEntry /\ page[m].posted => timer

\* The API still has every check that a page waits for, unless it restarted:
\* its time-out is measured from a later moment, is longer, and a repeated
\* request starts it again (CHECK_TIMEOUT_MS, TIMEOUT_MS, addCheck).
ListedWhileWaited ==
    \A m \in Metrics :
        page[m] # NoEntry /\ page[m].posted /\ page[m].age <= PageTimeout /\ restarts = 0
        => Live(m)

\* Every check a page waits for ends, by a result, a failure or a time-out,
\* whatever agent, API and other pages do (pollPending).
PageCheckEnds ==
    \A m \in Metrics : page[m] # NoEntry ~> page[m] = NoEntry
=============================================================================
