--------------------------- MODULE AgentScheduler ---------------------------
(***************************************************************************)
(* The agent's scheduler.rs: one loop that starts the due collectors, then *)
(* a send of what is pending, then looks after the metric list, on every   *)
(* tick; the collector, send and refresh tasks run beside it.  The server  *)
(* is seen only through its answers.                                       *)
(***************************************************************************)
EXTENDS Integers, FiniteSets

CONSTANTS
    Metrics,            \* the metrics this host has a collector for
    Never, NoMetric,
    Lists,              \* the metric lists the server may answer with
    RefreshTicks,       \* REFRESH, in ticks
    MaxLate,            \* bounds the ticks that are skipped in a row
    MaxReadings,        \* bounds the readings collected of each metric
    MaxTasks,           \* bounds the collectors of one metric at work together
    MaxFailures         \* bounds the requests that fail in a way that is retried

\* A list gives the assigned metrics their intervals, in ticks; registry.get
\* is what leaves the others out.
ASSUME SchedulerAssumption ==
    /\ Never \notin Int
    /\ NoMetric \notin Metrics
    /\ \A list \in Lists : /\ DOMAIN list \subseteq Metrics
                           /\ \A m \in DOMAIN list : list[m] \in Nat \ {0}
    /\ RefreshTicks \in Nat \ {0}
    /\ MaxLate \in Nat /\ MaxReadings \in [Metrics -> Nat] /\ MaxTasks \in Nat /\ MaxFailures \in Nat

VARIABLES
    phase,              \* the loop's next step
    scheduled,          \* the keys of self.metrics
    interval, elapsed,  \* a metric's interval and the time since last_run
    running,            \* its handle is of a collector still at work
    tasks,              \* collectors at work, those of dropped metrics included
    collected,          \* how many readings of a metric were put into pending
    pending,            \* the latest unsent reading per metric, 0 when none
    batch,              \* what send_batch holds, all 0 when no send is in flight
    posting,            \* the metric whose reading is on its way
    settled,            \* the last reading the agent knows to be accepted or rejected
    refreshing,         \* the poll in flight, or its result
    sinceRefresh,
    failures

schedule == <<scheduled, interval, elapsed, running>>
send == <<batch, posting, settled>>
refresh == <<refreshing, sinceRefresh>>
vars == <<phase, schedule, tasks, collected, pending, send, refresh, failures>>

NoRefresh == [state |-> "none"]

Refreshing == [state : {"none", "asked"}]
              \cup [state : {"answered"}, list : Lists, checks : SUBSET Metrics]

\* `initial' is one of the lists; nothing has run yet.
Init ==
    /\ phase = "collect"
    /\ \E list \in Lists :
          /\ scheduled = DOMAIN list
          /\ interval = [m \in Metrics |-> IF m \in DOMAIN list THEN list[m] ELSE 1]
    /\ elapsed = [m \in Metrics |-> Never]
    /\ running = [m \in Metrics |-> FALSE]
    /\ tasks = [m \in Metrics |-> 0]
    /\ collected = [m \in Metrics |-> 0]
    /\ pending = [m \in Metrics |-> 0]
    /\ batch = [m \in Metrics |-> 0]
    /\ posting = NoMetric
    /\ settled = [m \in Metrics |-> 0]
    /\ refreshing = NoRefresh
    /\ sinceRefresh = 0
    /\ failures = 0

-----------------------------------------------------------------------------
(* The loop. *)

\* Time is kept no further than it is compared.
AtMost(n, limit) == IF n < limit THEN n ELSE limit

\* The next tick: one after the last, or later when the loop missed some.
Tick ==
    /\ phase = "wait"
    /\ \E ticks \in 1..(1 + MaxLate) :
          /\ elapsed' = [m \in Metrics |-> IF elapsed[m] = Never THEN Never
                                           ELSE AtMost(elapsed[m] + ticks, interval[m])]
          /\ sinceRefresh' = AtMost(sinceRefresh + ticks, RefreshTicks)
    /\ phase' = "collect"
    /\ UNCHANGED <<scheduled, interval, running, tasks, collected, pending, send,
                   refreshing, failures>>

Due(m) == m \in scheduled /\ ~running[m] /\ (elapsed[m] = Never \/ elapsed[m] >= interval[m])

\* Mutant: a due metric that is still running is stamped as if it started.
MutantStartDueCollectors ==
    /\ phase = "collect"
    /\ elapsed' = [m \in Metrics |-> IF Due(m) \/ elapsed[m] = Never THEN 0 ELSE elapsed[m]]
    /\ running' = [m \in Metrics |-> running[m] \/ Due(m)]
    /\ tasks' = [m \in Metrics |-> IF Due(m) THEN tasks[m] + 1 ELSE tasks[m]]
    /\ phase' = "send"
    /\ UNCHANGED <<scheduled, interval, collected, pending, send, refresh, failures>>

\* Every due metric whose previous run has finished starts.
StartDueCollectors ==
    /\ phase = "collect"
    /\ elapsed' = [m \in Metrics |-> IF Due(m) THEN 0 ELSE elapsed[m]]
    /\ running' = [m \in Metrics |-> running[m] \/ Due(m)]
    /\ tasks' = [m \in Metrics |-> IF Due(m) THEN tasks[m] + 1 ELSE tasks[m]]
    /\ phase' = "send"
    /\ UNCHANGED <<scheduled, interval, collected, pending, send, refresh, failures>>

Sending == \E m \in Metrics : batch[m] # 0

\* Mutant: a send starts whether or not one is in flight.
MutantStartSend ==
    /\ phase = "send"
    /\ batch' = pending
    /\ pending' = [m \in Metrics |-> 0]
    /\ phase' = "refresh"
    /\ UNCHANGED <<schedule, tasks, collected, posting, settled, refresh, failures>>

\* Everything pending is taken, unless a send is still in flight.
StartSend ==
    /\ phase = "send"
    /\ IF Sending THEN UNCHANGED <<batch, pending>>
       ELSE /\ batch' = pending
            /\ pending' = [m \in Metrics |-> 0]
    /\ phase' = "refresh"
    /\ UNCHANGED <<schedule, tasks, collected, posting, settled, refresh, failures>>

\* apply_metric_list, then request_checks.  A metric that is no longer listed
\* loses its handle; the collector itself goes on.
ApplyPoll(list, checks) ==
    /\ scheduled' = DOMAIN list
    /\ interval' = [m \in Metrics |-> IF m \in DOMAIN list THEN list[m] ELSE 1]
    /\ elapsed' = [m \in Metrics |-> IF m \in scheduled \cap DOMAIN list /\ m \notin checks
                                     THEN elapsed[m] ELSE Never]
    /\ running' = [m \in Metrics |-> m \in DOMAIN list /\ running[m]]

\* A finished poll is applied; when none is in flight and REFRESH has passed
\* the next one starts.
RefreshMetricList ==
    /\ phase = "refresh"
    /\ IF refreshing.state = "answered"
       THEN /\ \A m \in scheduled \ DOMAIN refreshing.list : running[m] => tasks[m] < MaxTasks
            /\ ApplyPoll(refreshing.list, refreshing.checks)
       ELSE UNCHANGED schedule
    /\ IF refreshing.state # "asked" /\ sinceRefresh >= RefreshTicks
       THEN refreshing' = [state |-> "asked"] /\ sinceRefresh' = 0
       ELSE /\ refreshing' = IF refreshing.state = "asked" THEN refreshing ELSE NoRefresh
            /\ UNCHANGED sinceRefresh
    /\ phase' = "wait"
    /\ UNCHANGED <<tasks, collected, pending, send, failures>>

-----------------------------------------------------------------------------
(* The tasks. *)

\* A collector of m ends: the one its handle is of, or one left behind by a
\* list without m.
CollectorEnds(m) ==
    /\ \/ running[m] /\ running' = [running EXCEPT ![m] = FALSE]
       \/ tasks[m] > (IF running[m] THEN 1 ELSE 0) /\ UNCHANGED running
    /\ tasks' = [tasks EXCEPT ![m] = @ - 1]

\* It has a reading, which replaces the unsent one.  Readings are numbered in
\* the order they get here, just after they are stamped with recorded_at.
Collect(m) ==
    /\ CollectorEnds(m)
    /\ collected[m] < MaxReadings[m]
    /\ collected' = [collected EXCEPT ![m] = @ + 1]
    /\ pending' = [pending EXCEPT ![m] = collected'[m]]
    /\ UNCHANGED <<phase, scheduled, interval, elapsed, send, refresh, failures>>

\* It failed, or no device had a value yet.
CollectNothing(m) ==
    /\ CollectorEnds(m)
    /\ UNCHANGED <<phase, scheduled, interval, elapsed, collected, pending, send, refresh, failures>>

\* send_batch: the next reading of the batch, in the map's order.
Post(m) ==
    /\ posting = NoMetric
    /\ batch[m] # 0
    /\ posting' = m
    /\ UNCHANGED <<phase, schedule, tasks, collected, pending, batch, settled, refresh, failures>>

\* The server accepts the reading, or rejects it for good (4xx).
Settle(m) ==
    /\ posting = m
    /\ settled' = [settled EXCEPT ![m] = batch[m]]
    /\ batch' = [batch EXCEPT ![m] = 0]
    /\ posting' = NoMetric
    /\ UNCHANGED <<phase, schedule, tasks, collected, pending, refresh, failures>>

\* Mutant: what is put back replaces a newer reading.
MutantPutBack ==
    /\ posting # NoMetric
    /\ failures < MaxFailures
    /\ failures' = failures + 1
    /\ pending' = [m \in Metrics |-> IF batch[m] # 0 THEN batch[m] ELSE pending[m]]
    /\ batch' = [m \in Metrics |-> 0]
    /\ posting' = NoMetric
    /\ UNCHANGED <<phase, schedule, tasks, collected, settled, refresh>>

\* A failure that may clear up: the reading and the rest of the batch are put
\* back, except where a newer reading is pending.
PutBack ==
    /\ posting # NoMetric
    /\ failures < MaxFailures
    /\ failures' = failures + 1
    /\ pending' = [m \in Metrics |-> IF pending[m] # 0 THEN pending[m] ELSE batch[m]]
    /\ batch' = [m \in Metrics |-> 0]
    /\ posting' = NoMetric
    /\ UNCHANGED <<phase, schedule, tasks, collected, settled, refresh>>

\* The server's answer to the poll: a list, and which of its metrics to check.
PollAnswered ==
    /\ refreshing.state = "asked"
    /\ \E list \in Lists : \E checks \in SUBSET DOMAIN list :
          refreshing' = [state |-> "answered", list |-> list, checks |-> checks]
    /\ UNCHANGED <<phase, schedule, tasks, collected, pending, send, sinceRefresh, failures>>

\* The loop makes no difference between a failed poll and none.
PollFailed ==
    /\ refreshing.state = "asked"
    /\ failures < MaxFailures
    /\ failures' = failures + 1
    /\ refreshing' = NoRefresh
    /\ UNCHANGED <<phase, schedule, tasks, collected, pending, send, sinceRefresh>>

-----------------------------------------------------------------------------

LoopStep == Tick \/ StartDueCollectors \/ StartSend \/ RefreshMetricList

SendStep == (\E m \in Metrics : Post(m) \/ Settle(m)) \/ PutBack

Next ==
    \/ LoopStep
    \/ \E m \in Metrics : Collect(m) \/ CollectNothing(m)
    \/ SendStep
    \/ PollAnswered \/ PollFailed

Spec == Init /\ [][Next]_vars

-----------------------------------------------------------------------------
(* Properties. *)

\* A handle that is busy is of a collector at work.
ScheduleTyped ==
    /\ scheduled \in SUBSET Metrics
    /\ interval \in [Metrics -> Nat \ {0}]
    /\ elapsed \in [Metrics -> Nat \cup {Never}]
    /\ running \in [Metrics -> BOOLEAN]
    /\ tasks \in [Metrics -> Nat]
    /\ \A m \in Metrics : running[m] => m \in scheduled /\ tasks[m] > 0

\* What is on its way is part of the batch.
ReadingsTyped ==
    /\ collected \in [Metrics -> Nat]
    /\ pending \in [Metrics -> Nat]
    /\ batch \in [Metrics -> Nat]
    /\ settled \in [Metrics -> Nat]
    /\ posting \in Metrics \cup {NoMetric}
    /\ posting # NoMetric => batch[posting] # 0

RefreshTyped == refreshing \in Refreshing /\ sinceRefresh \in 0..RefreshTicks

\* Type correctness of the loop's and the tasks' shared state.
TypeOK ==
    /\ phase \in {"wait", "collect", "send", "refresh"}
    /\ ScheduleTyped /\ ReadingsTyped /\ RefreshTyped
    /\ failures \in 0..MaxFailures

\* "Only the latest unsent reading per metric is kept": the latest reading of a
\* metric is the pending one, the one being sent or the last one settled,
\* however sends fail and collectors finish meanwhile.
NewestIsKept ==
    \A m \in Metrics :
        collected[m] = IF pending[m] # 0 THEN pending[m]
                       ELSE IF batch[m] # 0 THEN batch[m]
                       ELSE settled[m]

Outbox == INSTANCE ReadingOutbox WITH newest <- collected, offered <- batch, underway <- posting

\* The loop, the collectors and the send task together keep what ReadingOutbox
\* promises: `pending', which they take from, put back to and write over, always
\* holds what the next send has to offer (start_send, send_batch).
ImplementsOutbox == Outbox!Spec

\* A metric that is due at once, new or requested, stays so until a collector
\* starts for it or it is dropped: a check that comes while a collector runs is
\* not answered by that run (request_checks, start_due_collectors).
CheckNotForgotten ==
    [][\A m \in scheduled : elapsed[m] = Never =>
          \/ elapsed'[m] = Never
          \/ m \notin scheduled'
          \/ tasks'[m] > tasks[m]]_vars
=============================================================================
