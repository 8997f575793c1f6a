----------------------------- MODULE AgentProofs -----------------------------
(***************************************************************************)
(* Theorems about the agent: its scheduler (AgentScheduler) and the        *)
(* sampler its collections share (Collectors), for every value of their    *)
(* constants.                                                              *)
(***************************************************************************)
EXTENDS AgentScheduler, Collectors, TLAPS

-----------------------------------------------------------------------------
(* The scheduler. *)

LEMMA AtMostType ==
    ASSUME NEW n \in Nat, NEW limit \in Nat
    PROVE  AtMost(n, limit) \in Nat /\ AtMost(n, limit) \in 0..limit
  BY DEF AtMost

LEMMA ListType ==
    ASSUME NEW list \in Lists
    PROVE  /\ DOMAIN list \subseteq Metrics
           /\ \A m \in DOMAIN list : list[m] \in Nat \ {0}
  BY SchedulerAssumption

LEMMA TypeInit == Init => TypeOK
<1> SUFFICES ASSUME Init PROVE TypeOK
  OBVIOUS
<1>1. PICK list \in Lists :
          /\ scheduled = DOMAIN list
          /\ interval = [m \in Metrics |-> IF m \in DOMAIN list THEN list[m] ELSE 1]
  BY DEF Init
<1>2. scheduled \in SUBSET Metrics /\ interval \in [Metrics -> Nat \ {0}]
  BY <1>1, ListType
<1>3. ScheduleTyped
  BY <1>2 DEF Init, ScheduleTyped
<1>4. ReadingsTyped
  BY DEF Init, ReadingsTyped
<1>5. RefreshTyped
  BY SchedulerAssumption DEF Init, RefreshTyped, Refreshing, NoRefresh
<1> QED
  BY <1>3, <1>4, <1>5, SchedulerAssumption DEF Init, TypeOK

-----------------------------------------------------------------------------
(* The parts of the state that a step leaves alone stay typed. *)

LEMMA ScheduleKept ==
    ASSUME ScheduleTyped, UNCHANGED <<schedule, tasks>>
    PROVE  ScheduleTyped'
  BY DEF ScheduleTyped, schedule

LEMMA ReadingsKept ==
    ASSUME ReadingsTyped, UNCHANGED <<collected, pending, send>>
    PROVE  ReadingsTyped'
  BY DEF ReadingsTyped, send

LEMMA RefreshKept ==
    ASSUME RefreshTyped, UNCHANGED refresh
    PROVE  RefreshTyped'
  BY DEF RefreshTyped, refresh

\* Applying a list keeps a handle only for the metrics it lists.
LEMMA ListApplied ==
    ASSUME ScheduleTyped, NEW list \in Lists, NEW checks, ApplyPoll(list, checks), UNCHANGED tasks
    PROVE  ScheduleTyped'
<1>1. scheduled' \in SUBSET Metrics /\ interval' \in [Metrics -> Nat \ {0}]
  BY ListType DEF ApplyPoll
<1>2. elapsed' \in [Metrics -> Nat \cup {Never}]
  BY DEF ApplyPoll, ScheduleTyped
<1>3. running' \in [Metrics -> BOOLEAN]
  BY ZenonT(20) DEF ApplyPoll
<1>4. \A m \in Metrics : running'[m] => m \in DOMAIN list /\ running[m]
  BY ZenonT(20) DEF ApplyPoll
<1> QED
  BY <1>1, <1>2, <1>3, <1>4 DEF ApplyPoll, ScheduleTyped

LEMMA CollectorEnded ==
    ASSUME ScheduleTyped, NEW m \in Metrics, CollectorEnds(m),
           UNCHANGED <<scheduled, interval, elapsed>>
    PROVE  ScheduleTyped'
<1>1. tasks[m] \in Nat /\ tasks[m] > 0
  BY DEF ScheduleTyped, CollectorEnds
<1>2. tasks' \in [Metrics -> Nat]
  BY <1>1 DEF ScheduleTyped, CollectorEnds
<1>3. running' \in [Metrics -> BOOLEAN]
  BY DEF ScheduleTyped, CollectorEnds
<1>4. ASSUME NEW n \in Metrics, running'[n]
      PROVE  n \in scheduled /\ tasks'[n] > 0
  <2>1. running[n]
    BY <1>4 DEF ScheduleTyped, CollectorEnds
  <2>2. CASE n = m
    <3>1. tasks[m] > 1
      BY <1>1, <1>4, <2>1, <2>2 DEF ScheduleTyped, CollectorEnds
    <3> QED
      BY <1>1, <2>1, <2>2, <3>1 DEF ScheduleTyped, CollectorEnds
  <2> QED
    BY <2>1, <2>2 DEF ScheduleTyped, CollectorEnds
<1> QED
  BY <1>2, <1>3, <1>4 DEF ScheduleTyped

-----------------------------------------------------------------------------
(* Every step keeps the types. *)

LEMMA TypeStep == TypeOK /\ [Next]_vars => TypeOK'
<1> SUFFICES ASSUME TypeOK, [Next]_vars PROVE TypeOK'
  OBVIOUS
<1>0. /\ ScheduleTyped /\ ReadingsTyped /\ RefreshTyped
      /\ failures \in 0..MaxFailures /\ MaxFailures \in Nat
      /\ phase \in {"wait", "collect", "send", "refresh"}
  BY SchedulerAssumption DEF TypeOK
<1>1. CASE Tick
  <2>1. PICK ticks \in 1..(1 + MaxLate) :
            /\ elapsed' = [m \in Metrics |-> IF elapsed[m] = Never THEN Never
                                             ELSE AtMost(elapsed[m] + ticks, interval[m])]
            /\ sinceRefresh' = AtMost(sinceRefresh + ticks, RefreshTicks)
    BY <1>1 DEF Tick
  <2>2. ticks \in Nat
    BY SchedulerAssumption
  <2>3. ASSUME NEW m \in Metrics, elapsed[m] # Never
        PROVE  AtMost(elapsed[m] + ticks, interval[m]) \in Nat
    <3>1. elapsed[m] + ticks \in Nat /\ interval[m] \in Nat
      BY <1>0, <2>2, <2>3 DEF ScheduleTyped
    <3> QED
      BY <3>1, AtMostType
  <2>4. elapsed' \in [Metrics -> Nat \cup {Never}]
    BY <2>1, <2>3
  <2>5. ScheduleTyped'
    BY <1>0, <1>1, <2>4 DEF Tick, ScheduleTyped
  <2>6. sinceRefresh + ticks \in Nat /\ RefreshTicks \in Nat
    BY <1>0, <2>2, SchedulerAssumption DEF RefreshTyped
  <2>7. RefreshTyped'
    BY <1>0, <1>1, <2>1, <2>6, AtMostType DEF Tick, RefreshTyped
  <2>8. ReadingsTyped'
    BY <1>0, <1>1, ReadingsKept DEF Tick
  <2> QED
    BY <1>0, <1>1, <2>5, <2>7, <2>8 DEF Tick, TypeOK
<1>2. CASE StartDueCollectors
  <2>1. elapsed' \in [Metrics -> Nat \cup {Never}]
    BY <1>0, <1>2 DEF StartDueCollectors, ScheduleTyped
  <2>2. tasks' \in [Metrics -> Nat]
    BY <1>0, <1>2 DEF StartDueCollectors, ScheduleTyped
  <2>3. running' \in [Metrics -> BOOLEAN]
    BY <1>2, ZenonT(20) DEF StartDueCollectors
  <2>4. \A m \in Metrics : running'[m] => running[m] \/ Due(m)
    BY <1>2, ZenonT(20) DEF StartDueCollectors
  <2>5. \A m \in Metrics : tasks'[m] = IF Due(m) THEN tasks[m] + 1 ELSE tasks[m]
    BY <1>2, ZenonT(20) DEF StartDueCollectors
  <2>6. ASSUME NEW m \in Metrics, running'[m]
        PROVE  m \in scheduled /\ tasks'[m] > 0
    BY <1>0, <2>4, <2>5, <2>6 DEF ScheduleTyped, Due
  <2>7. ScheduleTyped'
    BY <1>0, <1>2, <2>1, <2>2, <2>3, <2>6 DEF StartDueCollectors, ScheduleTyped
  <2>8. ReadingsTyped' /\ RefreshTyped'
    BY <1>0, <1>2, ReadingsKept, RefreshKept DEF StartDueCollectors
  <2> QED
    BY <1>0, <1>2, <2>7, <2>8 DEF StartDueCollectors, TypeOK
<1>3. CASE StartSend
  <2>1. ScheduleTyped' /\ RefreshTyped'
    BY <1>0, <1>3, ScheduleKept, RefreshKept DEF StartSend
  <2>2. ReadingsTyped'
    BY <1>0, <1>3, SchedulerAssumption DEF StartSend, ReadingsTyped, Sending
  <2> QED
    BY <1>0, <1>3, <2>1, <2>2 DEF StartSend, TypeOK
<1>4. CASE RefreshMetricList
  <2>1. ScheduleTyped'
    <3>1. CASE refreshing.state = "answered"
      <4>1. refreshing.list \in Lists
        BY <1>0, <3>1 DEF RefreshTyped, Refreshing
      <4> QED
        BY <1>0, <1>4, <3>1, <4>1, ListApplied DEF RefreshMetricList
    <3>2. CASE refreshing.state # "answered"
      BY <1>0, <1>4, <3>2, ScheduleKept DEF RefreshMetricList
    <3> QED
      BY <3>1, <3>2
  <2>2. RefreshTyped'
    BY <1>0, <1>4, SchedulerAssumption DEF RefreshMetricList, RefreshTyped, Refreshing, NoRefresh
  <2>3. ReadingsTyped'
    BY <1>0, <1>4, ReadingsKept DEF RefreshMetricList
  <2> QED
    BY <1>0, <1>4, <2>1, <2>2, <2>3 DEF RefreshMetricList, TypeOK
<1>5. ASSUME NEW m \in Metrics, Collect(m)
      PROVE  TypeOK'
  <2>1. ScheduleTyped' /\ RefreshTyped'
    BY <1>0, <1>5, CollectorEnded, RefreshKept DEF Collect
  <2>2. ReadingsTyped'
    BY <1>0, <1>5 DEF Collect, ReadingsTyped, send
  <2> QED
    BY <1>0, <1>5, <2>1, <2>2 DEF Collect, TypeOK
<1>6. ASSUME NEW m \in Metrics, CollectNothing(m)
      PROVE  TypeOK'
  <2>1. ScheduleTyped' /\ RefreshTyped' /\ ReadingsTyped'
    BY <1>0, <1>6, CollectorEnded, RefreshKept, ReadingsKept DEF CollectNothing
  <2> QED
    BY <1>0, <1>6, <2>1 DEF CollectNothing, TypeOK
<1>7. ASSUME NEW m \in Metrics, Post(m) \/ Settle(m)
      PROVE  TypeOK'
  <2>1. ScheduleTyped' /\ RefreshTyped'
    BY <1>0, <1>7, ScheduleKept, RefreshKept DEF Post, Settle
  <2>2. ReadingsTyped'
    BY <1>0, <1>7, SchedulerAssumption DEF Post, Settle, ReadingsTyped
  <2> QED
    BY <1>0, <1>7, <2>1, <2>2 DEF Post, Settle, TypeOK
<1>8. CASE PutBack
  <2>1. ScheduleTyped' /\ RefreshTyped'
    BY <1>0, <1>8, ScheduleKept, RefreshKept DEF PutBack
  <2>2. ReadingsTyped'
    BY <1>0, <1>8, SchedulerAssumption DEF PutBack, ReadingsTyped
  <2> QED
    BY <1>0, <1>8, <2>1, <2>2 DEF PutBack, TypeOK
<1>9. CASE PollAnswered \/ PollFailed
  <2>1. ScheduleTyped' /\ ReadingsTyped'
    BY <1>0, <1>9, ScheduleKept, ReadingsKept DEF PollAnswered, PollFailed
  <2>2. refreshing' \in Refreshing
    <3>1. CASE PollAnswered
      <4>1. PICK list \in Lists : \E checks \in SUBSET DOMAIN list :
                refreshing' = [state |-> "answered", list |-> list, checks |-> checks]
        BY <3>1 DEF PollAnswered
      <4>2. DOMAIN list \subseteq Metrics
        BY ListType
      <4> QED
        BY <4>1, <4>2 DEF Refreshing
    <3>2. CASE PollFailed
      BY <3>2 DEF PollFailed, Refreshing, NoRefresh
    <3> QED
      BY <1>9, <3>1, <3>2
  <2>3. RefreshTyped'
    BY <1>0, <1>9, <2>2 DEF PollAnswered, PollFailed, RefreshTyped
  <2>4. failures' \in 0..MaxFailures /\ UNCHANGED phase
    BY <1>0, <1>9 DEF PollAnswered, PollFailed
  <2> QED
    BY <1>0, <2>1, <2>3, <2>4 DEF TypeOK
<1>10. CASE UNCHANGED vars
  BY <1>0, <1>10, ScheduleKept, ReadingsKept, RefreshKept DEF vars, TypeOK
<1> QED
  BY <1>1, <1>2, <1>3, <1>4, <1>5, <1>6, <1>7, <1>8, <1>9, <1>10 DEF Next, LoopStep, SendStep

\* The loop's and the tasks' shared state keeps its shape, whatever lists the
\* server answers with and however many collectors are left behind.
THEOREM TypeCorrect == Spec => []TypeOK
  BY TypeInit, TypeStep, PTL DEF Spec

-----------------------------------------------------------------------------
(* The latest reading is never lost. *)

LEMMA NewestInit == Init => NewestIsKept
  BY DEF Init, NewestIsKept

\* Nothing else reads or writes the readings.
LEMMA NewestUntouched ==
    ASSUME NewestIsKept, UNCHANGED <<collected, pending, batch, settled>>
    PROVE  NewestIsKept'
  BY DEF NewestIsKept

LEMMA NewestStep == TypeOK /\ NewestIsKept /\ [Next]_vars => NewestIsKept'
<1> SUFFICES ASSUME TypeOK, NewestIsKept, [Next]_vars PROVE NewestIsKept'
  OBVIOUS
<1>0. ReadingsTyped
  BY DEF TypeOK
<1>1. CASE \/ Tick \/ StartDueCollectors \/ RefreshMetricList
           \/ (\E m \in Metrics : CollectNothing(m) \/ Post(m))
           \/ PollAnswered \/ PollFailed \/ UNCHANGED vars
  BY <1>1, NewestUntouched
     DEF Tick, StartDueCollectors, RefreshMetricList, CollectNothing, Post,
         PollAnswered, PollFailed, vars, send
<1>2. CASE StartSend
  <2>1. CASE Sending
    BY <1>2, <2>1, NewestUntouched DEF StartSend
  <2>2. CASE ~Sending
    BY <1>0, <1>2, <2>2 DEF StartSend, Sending, NewestIsKept, ReadingsTyped
  <2> QED
    BY <2>1, <2>2
<1>3. ASSUME NEW m \in Metrics, Collect(m)
      PROVE  NewestIsKept'
  BY <1>0, <1>3 DEF Collect, NewestIsKept, ReadingsTyped, send
<1>4. ASSUME NEW m \in Metrics, Settle(m)
      PROVE  NewestIsKept'
  BY <1>0, <1>4, SchedulerAssumption DEF Settle, NewestIsKept, ReadingsTyped
<1>5. CASE PutBack
  BY <1>0, <1>5 DEF PutBack, NewestIsKept, ReadingsTyped
<1> QED
  BY <1>1, <1>2, <1>3, <1>4, <1>5 DEF Next, LoopStep, SendStep

\* "Only the latest unsent reading per metric is kept", and it is kept: no
\* failed send, put-back, late collector or refresh ever loses the latest one.
THEOREM NewestReadingIsKept == Spec => []NewestIsKept
<1>1. Init => TypeOK /\ NewestIsKept
  BY TypeInit, NewestInit
<1>2. TypeOK /\ NewestIsKept /\ [Next]_vars => TypeOK' /\ NewestIsKept'
  BY TypeStep, NewestStep
<1> QED
  BY <1>1, <1>2, PTL DEF Spec

-----------------------------------------------------------------------------
(* A requested check is not forgotten. *)

LEMMA DueUntilStarted ==
    ASSUME TypeOK, [Next]_vars
    PROVE  \A m \in scheduled : elapsed[m] = Never =>
               elapsed'[m] = Never \/ m \notin scheduled' \/ tasks'[m] > tasks[m]
<1> SUFFICES ASSUME NEW m \in scheduled, elapsed[m] = Never,
                    elapsed'[m] # Never, m \in scheduled'
             PROVE  tasks'[m] > tasks[m]
  OBVIOUS
<1>0. ScheduleTyped /\ m \in Metrics
  BY DEF TypeOK, ScheduleTyped
<1>2. ~Tick
  BY <1>0 DEF Tick
<1>3. ~RefreshMetricList
  <2>1. ASSUME NEW list, NEW checks, ApplyPoll(list, checks)
        PROVE  elapsed'[m] = Never
    BY <1>0, <2>1 DEF ApplyPoll
  <2> QED
    BY <2>1 DEF RefreshMetricList, schedule
<1>4. StartDueCollectors
  BY <1>2, <1>3 DEF Next, LoopStep, StartSend, Collect, CollectNothing, SendStep, Post, Settle,
                    PutBack, PollAnswered, PollFailed, schedule, vars
<1>5. Due(m)
  BY <1>0, <1>4 DEF StartDueCollectors
<1>6. tasks'[m] = tasks[m] + 1 /\ tasks[m] \in Nat
  BY <1>0, <1>4, <1>5 DEF StartDueCollectors, ScheduleTyped
<1> QED
  BY <1>6

\* A check that is requested while the metric's collector runs is answered by
\* a run of its own: only a collector that starts makes it not due any more.
THEOREM RequestedCheckRuns == Spec => CheckNotForgotten
<1>1. TypeOK /\ [Next]_vars =>
          [\A m \in scheduled : elapsed[m] = Never =>
               \/ elapsed'[m] = Never
               \/ m \notin scheduled'
               \/ tasks'[m] > tasks[m]]_vars
  BY DueUntilStarted
<1> QED
  BY <1>1, TypeCorrect, PTL DEF Spec, CheckNotForgotten

-----------------------------------------------------------------------------
(* The scheduler keeps the contract of the outbox. *)

\* A reading that waits or is being sent is newer than the last one settled,
\* and one that waits is newer than the one being sent.
ReadingsInOrder(m) ==
    /\ settled[m] <= collected[m] /\ batch[m] <= collected[m]
    /\ batch[m] # 0 => settled[m] < batch[m]
    /\ pending[m] # 0 => settled[m] < pending[m] /\ batch[m] < pending[m]

\* The inductive invariant behind ImplementsOutbox.
OutboxInv == TypeOK /\ NewestIsKept /\ \A m \in Metrics : ReadingsInOrder(m)

LEMMA OutboxInvInit == Init => OutboxInv
<1> SUFFICES ASSUME Init PROVE OutboxInv
  OBVIOUS
<1>1. \A m \in Metrics : ReadingsInOrder(m)
  BY DEF Init, ReadingsInOrder
<1> QED
  BY <1>1, TypeInit, NewestInit DEF OutboxInv

LEMMA OrderUntouched ==
    ASSUME \A m \in Metrics : ReadingsInOrder(m), UNCHANGED <<collected, pending, batch, settled>>
    PROVE  \A m \in Metrics : ReadingsInOrder(m)'
  BY DEF ReadingsInOrder

LEMMA ReadingsInOrderStep ==
    ASSUME OutboxInv, [Next]_vars
    PROVE  \A m \in Metrics : ReadingsInOrder(m)'
<1>0. /\ ReadingsTyped /\ NewestIsKept
      /\ \A m \in Metrics : ReadingsInOrder(m)
  BY DEF OutboxInv, TypeOK
<1>1. CASE \/ Tick \/ StartDueCollectors \/ RefreshMetricList
           \/ (\E m \in Metrics : CollectNothing(m) \/ Post(m))
           \/ PollAnswered \/ PollFailed \/ UNCHANGED vars
  BY <1>0, <1>1, OrderUntouched
     DEF Tick, StartDueCollectors, RefreshMetricList, CollectNothing, Post,
         PollAnswered, PollFailed, vars, send
<1>2. CASE StartSend
  <2>1. CASE Sending
    BY <1>0, <1>2, <2>1, OrderUntouched DEF StartSend
  <2>2. CASE ~Sending
    BY <1>0, <1>2, <2>2 DEF StartSend, Sending, ReadingsInOrder, NewestIsKept, ReadingsTyped
  <2> QED
    BY <2>1, <2>2
<1>3. ASSUME NEW n \in Metrics, Collect(n)
      PROVE  \A m \in Metrics : ReadingsInOrder(m)'
  BY <1>0, <1>3 DEF Collect, ReadingsInOrder, NewestIsKept, ReadingsTyped, send
<1>4. ASSUME NEW n \in Metrics, Settle(n)
      PROVE  \A m \in Metrics : ReadingsInOrder(m)'
  BY <1>0, <1>4 DEF Settle, ReadingsInOrder, ReadingsTyped
<1>5. CASE PutBack
  BY <1>0, <1>5 DEF PutBack, ReadingsInOrder, ReadingsTyped
<1> QED
  BY <1>1, <1>2, <1>3, <1>4, <1>5 DEF Next, LoopStep, SendStep

LEMMA OutboxInvStep == OutboxInv /\ [Next]_vars => OutboxInv'
  BY TypeStep, NewestStep, ReadingsInOrderStep DEF OutboxInv

\* When nothing is being sent, what waits is what the contract offers.
LEMMA PendingIsOffered ==
    ASSUME OutboxInv, ~Sending
    PROVE  /\ batch = Outbox!Nothing
           /\ pending = [m \in Metrics |-> IF collected[m] = settled[m] THEN 0 ELSE collected[m]]
<1>1. \A m \in Metrics : batch[m] = 0
  BY DEF Sending
<1>2. batch = Outbox!Nothing
  BY <1>1 DEF OutboxInv, TypeOK, ReadingsTyped, Outbox!Nothing
<1>3. ASSUME NEW m \in Metrics
      PROVE  pending[m] = IF collected[m] = settled[m] THEN 0 ELSE collected[m]
  BY <1>1 DEF OutboxInv, TypeOK, ReadingsTyped, NewestIsKept, ReadingsInOrder
<1> QED
  BY <1>2, <1>3 DEF OutboxInv, TypeOK, ReadingsTyped

\* Every step of the loop and of its tasks is a step of the contract, or one
\* that the server and the readings do not notice.
LEMMA OutboxStep ==
    ASSUME OutboxInv, [Next]_vars
    PROVE  Outbox!Next \/ UNCHANGED Outbox!outbox
<1>1. CASE \/ Tick \/ StartDueCollectors \/ RefreshMetricList
           \/ (\E m \in Metrics : CollectNothing(m))
           \/ PollAnswered \/ PollFailed \/ UNCHANGED vars
  BY <1>1 DEF Tick, StartDueCollectors, RefreshMetricList, CollectNothing,
              PollAnswered, PollFailed, vars, send, Outbox!outbox
<1>2. CASE StartSend
  <2>1. CASE Sending
    BY <1>2, <2>1 DEF StartSend, Outbox!outbox
  <2>2. CASE ~Sending
    <3>1. Outbox!Offer
      BY <1>2, <2>2, PendingIsOffered DEF StartSend, Outbox!Offer
    <3> QED
      BY <3>1 DEF Outbox!Next
  <2> QED
    BY <2>1, <2>2
<1>3. ASSUME NEW m \in Metrics, Collect(m)
      PROVE  Outbox!Next
  <2>1. Outbox!Collected(m)
    BY <1>3 DEF Collect, send, Outbox!Collected
  <2> QED
    BY <2>1 DEF Outbox!Next
<1>4. ASSUME NEW m \in Metrics, Post(m)
      PROVE  Outbox!Next
  <2>1. Outbox!Leave(m)
    BY <1>4 DEF Post, Outbox!Leave
  <2> QED
    BY <2>1 DEF Outbox!Next
<1>5. ASSUME NEW m \in Metrics, Settle(m)
      PROVE  Outbox!Next
  <2>1. Outbox!Settled(m)
    BY <1>5 DEF Settle, Outbox!Settled
  <2> QED
    BY <2>1 DEF Outbox!Next
<1>6. CASE PutBack
  <2>1. Outbox!Withdraw
    BY <1>6 DEF PutBack, Outbox!Withdraw, Outbox!Nothing
  <2> QED
    BY <2>1 DEF Outbox!Next
<1> QED
  BY <1>1, <1>2, <1>3, <1>4, <1>5, <1>6 DEF Next, LoopStep, SendStep

\* The scheduler implements ReadingOutbox, however collectors finish, sends
\* fail and lists change meanwhile: for the agent, a metric's readings are
\* settled in the order they were collected, one at a time and none twice, and
\* no send leaves out the newest reading of a metric.
THEOREM OutboxImplemented == Spec => ImplementsOutbox
<1> SUFFICES Spec => Outbox!Spec
  BY DEF ImplementsOutbox
<1>1. Init => Outbox!Init
  BY DEF Init, Outbox!Init, Outbox!Nothing
<1>2. OutboxInv /\ [Next]_vars => [Outbox!Next]_(Outbox!outbox)
  BY OutboxStep
<1> QED
  BY <1>1, <1>2, OutboxInvInit, OutboxInvStep, PTL DEF Spec, Outbox!Spec

\* What the agent learns of the server's answers is in the order a metric's
\* readings were collected, and once for each; and what it sends is newer than
\* all it knows to be settled, whatever is put back and offered again.  (One
\* whose answer was lost it sends again, and the server may store it twice.)
InOrder(m) ==
    /\ settled'[m] = settled[m] \/ settled[m] < settled'[m]
    /\ posting' = m /\ posting # m => settled[m] < batch[m]

LEMMA StepInOrder ==
    ASSUME OutboxInv, [Next]_vars, NEW m \in Metrics
    PROVE  InOrder(m)
<1>1. \/ UNCHANGED <<settled, posting>>
      \/ UNCHANGED settled /\ posting' = NoMetric
      \/ \E n \in Metrics : Settle(n) \/ Post(n)
  BY DEF Next, LoopStep, SendStep, Tick, StartDueCollectors, StartSend, RefreshMetricList,
         Collect, CollectNothing, PutBack, PollAnswered, PollFailed, vars, send
<1>2. ASSUME NEW n \in Metrics, Settle(n) PROVE InOrder(m)
  BY <1>2, SchedulerAssumption
     DEF Settle, OutboxInv, TypeOK, ReadingsTyped, ReadingsInOrder, InOrder
<1>3. ASSUME NEW n \in Metrics, Post(n) PROVE InOrder(m)
  BY <1>3 DEF Post, OutboxInv, ReadingsInOrder, InOrder
<1> QED
  BY <1>1, <1>2, <1>3, SchedulerAssumption DEF InOrder

THEOREM SettledInOrder == Spec => [][\A m \in Metrics : InOrder(m)]_vars
<1>1. OutboxInv /\ [Next]_vars => [\A m \in Metrics : InOrder(m)]_vars
  BY StepInOrder
<1> QED
  BY <1>1, OutboxInvInit, OutboxInvStep, PTL DEF Spec, InOrder

-----------------------------------------------------------------------------
(* The sampler: what the host has counted at one time and at a later one. *)

Moment == [counters : [Counters -> Nat], counted : [Counters -> Nat], resets : [Counters -> Nat]]

\* From s to t a counter grew by what was counted, unless it began anew.
Grew(s, t, c) ==
    /\ history[s].counted[c] <= history[t].counted[c]
    /\ history[s].resets[c] <= history[t].resets[c]
    /\ history[t].counters[c] <= history[s].counters[c] + history[t].counted[c] - history[s].counted[c]
    /\ history[s].resets[c] = history[t].resets[c] =>
          history[t].counters[c] = history[s].counters[c] + history[t].counted[c] - history[s].counted[c]

HistoryInv ==
    /\ history \in Seq(Moment) /\ Time >= 1
    /\ \A s \in 1..Time : \A t \in s..Time : \A c \in Counters : Grew(s, t, c)

LEMMA MomentTyped ==
    ASSUME history \in Seq(Moment), NEW t \in 1..Time, NEW c \in Counters
    PROVE  /\ history[t].counters[c] \in Nat
           /\ history[t].counted[c] \in Nat
           /\ history[t].resets[c] \in Nat
<1>1. history[t] \in Moment
  BY DEF Time
<1> QED
  BY <1>1 DEF Moment

LEMMA HistoryInit == SamplerInit => HistoryInv
<1> SUFFICES ASSUME SamplerInit PROVE HistoryInv
  OBVIOUS
<1> DEFINE first == [counters |-> From(StartCount), counted |-> From(0), resets |-> From(0)]
<1>1. first \in Moment
  BY CollectorsAssumption DEF Moment, From
<1>2. history = <<first>>
  BY DEF SamplerInit
<1> HIDE DEF first
<1>3. history \in Seq(Moment) /\ Time = 1 /\ 1 \in 1..Time
  BY <1>1, <1>2 DEF Time
<1>4. ASSUME NEW c \in Counters PROVE Grew(1, 1, c)
  BY <1>3, MomentTyped DEF Grew
<1> QED
  BY <1>3, <1>4 DEF HistoryInv

\* The next second keeps what was, and adds what is counted in it.
LEMMA SecondAdded ==
    ASSUME HistoryInv, SecondPasses
    PROVE  /\ history' \in Seq(Moment) /\ Len(history') = Time + 1
           /\ \A t \in 1..Time : history'[t] = history[t]
           /\ \A c \in Counters :
                 LET before == history[Time]
                     after == history'[Time + 1]
                 IN /\ before.counted[c] <= after.counted[c]
                    /\ before.resets[c] <= after.resets[c]
                    /\ after.counters[c] <= before.counters[c] + after.counted[c] - before.counted[c]
                    /\ before.resets[c] = after.resets[c] =>
                          after.counters[c] = before.counters[c] + after.counted[c] - before.counted[c]
<1>1. PICK grow \in [Counters -> 0..1], reset \in [Counters -> 0..1] :
          history' = Append(history,
              [counters |-> [c \in Counters |->
                   grow[c] + (IF reset[c] = 1 THEN 0 ELSE history[Time].counters[c])],
               counted |-> [c \in Counters |-> history[Time].counted[c] + grow[c]],
               resets |-> [c \in Counters |-> history[Time].resets[c] + reset[c]]])
  BY DEF SecondPasses
<1> DEFINE next ==
      [counters |-> [c \in Counters |->
           grow[c] + (IF reset[c] = 1 THEN 0 ELSE history[Time].counters[c])],
       counted |-> [c \in Counters |-> history[Time].counted[c] + grow[c]],
       resets |-> [c \in Counters |-> history[Time].resets[c] + reset[c]]]
<1>2. history \in Seq(Moment) /\ Time \in 1..Time
  BY DEF HistoryInv, Time
<1>3. \A c \in Counters : /\ history[Time].counters[c] \in Nat
                          /\ history[Time].counted[c] \in Nat
                          /\ history[Time].resets[c] \in Nat
                          /\ grow[c] \in 0..1 /\ reset[c] \in 0..1
  BY <1>1, <1>2, MomentTyped
<1>4. next \in Moment
  BY <1>3 DEF Moment
<1>5. \A c \in Counters :
          /\ next.counters[c] = grow[c] + (IF reset[c] = 1 THEN 0 ELSE history[Time].counters[c])
          /\ next.counted[c] = history[Time].counted[c] + grow[c]
          /\ next.resets[c] = history[Time].resets[c] + reset[c]
  OBVIOUS
<1>6. history' = Append(history, next)
  BY <1>1
<1> HIDE DEF next
<1>7. /\ history' \in Seq(Moment) /\ Len(history') = Time + 1
      /\ \A t \in 1..Time : history'[t] = history[t]
      /\ history'[Time + 1] = next
  BY <1>2, <1>4, <1>6 DEF Time
<1>8. ASSUME NEW c \in Counters
      PROVE  LET before == history[Time]
                 after == history'[Time + 1]
             IN /\ before.counted[c] <= after.counted[c]
                /\ before.resets[c] <= after.resets[c]
                /\ after.counters[c] <= before.counters[c] + after.counted[c] - before.counted[c]
                /\ before.resets[c] = after.resets[c] =>
                      after.counters[c] = before.counters[c] + after.counted[c] - before.counted[c]
  <2>1. /\ history[Time].counters[c] \in Nat
        /\ history[Time].counted[c] \in Nat
        /\ history[Time].resets[c] \in Nat
        /\ grow[c] \in 0..1 /\ reset[c] \in 0..1
    BY <1>3
  <2>2. /\ next.counters[c] = grow[c] + (IF reset[c] = 1 THEN 0 ELSE history[Time].counters[c])
        /\ next.counted[c] = history[Time].counted[c] + grow[c]
        /\ next.resets[c] = history[Time].resets[c] + reset[c]
    BY <1>5
  <2> QED
    BY <1>7, <2>1, <2>2
<1> QED
  BY <1>7, <1>8
LEMMA HistoryStep == HistoryInv /\ [SamplerNext]_samplerVars => HistoryInv'
<1> SUFFICES ASSUME HistoryInv, [SamplerNext]_samplerVars PROVE HistoryInv'
  OBVIOUS
<1>1. CASE SecondPasses
  <2>1. /\ history' \in Seq(Moment) /\ Time' = Time + 1 /\ Time \in Nat /\ Time >= 1
        /\ \A t \in 1..Time : history'[t] = history[t]
    BY <1>1, SecondAdded DEF HistoryInv, Time
  <2>2. ASSUME NEW s \in 1..(Time + 1), NEW t \in s..(Time + 1), NEW c \in Counters
        PROVE  Grew(s, t, c)'
    <3>1. CASE t <= Time
      <4>1. s \in 1..Time /\ t \in 1..Time /\ t \in s..Time
        BY <2>1, <3>1
      <4>2. Grew(s, t, c)
        BY <4>1 DEF HistoryInv
      <4> QED
        BY <2>1, <4>1, <4>2 DEF Grew
    <3>2. CASE t = Time + 1 /\ s <= Time
      <4>1. s \in 1..Time /\ Time \in s..Time /\ Time \in 1..Time /\ t \in 1..Time'
        BY <2>1, <3>2
      <4>2. Grew(s, Time, c) /\ history'[s] = history[s]
        BY <2>1, <4>1 DEF HistoryInv
      <4>3. /\ history[s].counters[c] \in Nat /\ history[s].counted[c] \in Nat
            /\ history[s].resets[c] \in Nat
            /\ history[Time].counters[c] \in Nat /\ history[Time].counted[c] \in Nat
            /\ history[Time].resets[c] \in Nat
        BY <4>1, MomentTyped DEF HistoryInv
      <4>4. history'[t] \in Moment
        BY <2>1, <4>1 DEF Time
      <4>5. /\ history'[t].counters[c] \in Nat /\ history'[t].counted[c] \in Nat
            /\ history'[t].resets[c] \in Nat
        BY <4>4 DEF Moment
      <4>6. LET before == history[Time]
                after == history'[t]
            IN /\ before.counted[c] <= after.counted[c]
               /\ before.resets[c] <= after.resets[c]
               /\ after.counters[c] <= before.counters[c] + after.counted[c] - before.counted[c]
               /\ before.resets[c] = after.resets[c] =>
                     after.counters[c] = before.counters[c] + after.counted[c] - before.counted[c]
        BY <1>1, <3>2, SecondAdded
      <4> QED
        BY <4>2, <4>3, <4>5, <4>6 DEF Grew
    <3>3. CASE t = Time + 1 /\ s = Time + 1
      <4>1. history'[t] \in Moment
        BY <2>1, <3>3 DEF Time
      <4>2. /\ history'[t].counters[c] \in Nat /\ history'[t].counted[c] \in Nat
            /\ history'[t].resets[c] \in Nat
        BY <4>1 DEF Moment
      <4> QED
        BY <3>3, <4>2 DEF Grew
    <3> QED
      BY <2>1, <3>1, <3>2, <3>3
  <2>3. \A s \in 1..Time' : \A t \in s..Time' : \A c \in Counters : Grew(s, t, c)'
    BY <2>1, <2>2
  <2> QED
    BY <2>1, <2>3 DEF HistoryInv
<1>2. CASE UNCHANGED history
  BY <1>2 DEF HistoryInv, Grew, Time
<1> QED
  BY <1>1, <1>2 DEF SamplerNext, samplerVars, Take, Read, FailRead, Store, Drop

-----------------------------------------------------------------------------
(* Samples and readings. *)

\* The counters a reading is about.
Covers(reading) ==
    LET from == history[reading.at - reading.seconds]
        to == history[reading.at]
    IN \A c \in DOMAIN reading.changes :
          /\ reading.changes[c] <= to.counted[c] - from.counted[c]
          /\ to.resets[c] = from.resets[c] =>
                reading.changes[c] = to.counted[c] - from.counted[c]

LEMMA SampleTyped ==
    ASSUME HistoryInv, present \in SUBSET Counters
    PROVE  IsSample(Sample) /\ Sample.at = Time
  BY DEF HistoryInv, IsSample, Sample, Time

\* What is compared are two samples of the host, the first one no newer.
LEMMA ReadingCovers ==
    ASSUME HistoryInv, NEW before, NEW now, IsSample(before), IsSample(now), before.at <= now.at
    PROVE  \/ Reading(before, now) = Null
           \/ IsReading(Reading(before, now)) /\ Covers(Reading(before, now))
<1> SUFFICES ASSUME Reading(before, now) # Null
             PROVE  IsReading(Reading(before, now)) /\ Covers(Reading(before, now))
  OBVIOUS
<1> DEFINE reading == Reading(before, now)
           both == Comparable(before, now)
<1>1. both # {} /\ both \subseteq Counters
  BY DEF Reading, Comparable, IsSample
<1>2. /\ reading.at = now.at /\ reading.seconds = now.at - before.at
      /\ DOMAIN reading.changes = both
      /\ \A c \in both : reading.changes[c] = now.values[c] - before.values[c]
  BY <1>1 DEF Reading, Changes
<1>3. before.at \in 1..Time /\ now.at \in before.at..Time /\ now.at \in 1..Time
  BY DEF IsSample
<1>4. reading.at - reading.seconds = before.at
  BY <1>2, <1>3 DEF HistoryInv, Time
<1>5. ASSUME NEW c \in both
      PROVE  /\ reading.changes[c] \in Nat
             /\ reading.changes[c] <= history[now.at].counted[c] - history[before.at].counted[c]
             /\ history[now.at].resets[c] = history[before.at].resets[c] =>
                   reading.changes[c] = history[now.at].counted[c] - history[before.at].counted[c]
  <2>1. /\ c \in Counters
        /\ before.values[c] = history[before.at].counters[c]
        /\ now.values[c] = history[now.at].counters[c]
        /\ before.values[c] <= now.values[c]
    BY <1>5 DEF Comparable, IsSample
  <2>2. Grew(before.at, now.at, c)
    BY <1>3, <2>1 DEF HistoryInv
  <2>3. /\ history[before.at].counters[c] \in Nat /\ history[before.at].counted[c] \in Nat
        /\ history[now.at].counters[c] \in Nat /\ history[now.at].counted[c] \in Nat
        /\ history[before.at].resets[c] \in Nat /\ history[now.at].resets[c] \in Nat
    BY <1>3, <2>1, MomentTyped DEF HistoryInv
  <2> QED
    BY <1>2, <1>5, <2>1, <2>2, <2>3 DEF Grew
<1>6. IsReading(reading)
  BY <1>1, <1>2, <1>3, <1>5 DEF IsReading, HistoryInv, Time
<1>7. Covers(reading)
  BY <1>2, <1>4, <1>5 DEF Covers
<1> QED
  BY <1>6, <1>7
-----------------------------------------------------------------------------
(* Every step of a collection. *)

IsTask(task) ==
    /\ task.stage \in {"idle", "gap", "taken", "read", "drop", "again"}
    /\ IsCollection(task)
    /\ task.stage = "idle" /\ task.reading # Null => Covers(task.reading)

SamplerInv ==
    /\ HistoryInv
    /\ perDevice \in BOOLEAN
    /\ present \in SUBSET Counters
    /\ baseline = Null \/ IsSample(baseline)
    /\ DOMAIN collections = Collections
    /\ \A k \in Collections : IsTask(collections[k])

LEMMA SamplerInvImplies == SamplerInv => SamplerTypeOK /\ ReadingIsWhatWasCounted
<1> SUFFICES ASSUME SamplerInv PROVE SamplerTypeOK /\ ReadingIsWhatWasCounted
  OBVIOUS
<1>1. SamplerTypeOK
  BY DEF SamplerInv, HistoryInv, Moment, IsTask, SamplerTypeOK
<1>2. ReadingIsWhatWasCounted
  BY DEF SamplerInv, IsTask, Covers, ReadingIsWhatWasCounted
<1> QED
  BY <1>1, <1>2

LEMMA SamplerInvInit == SamplerInit => SamplerInv
<1> SUFFICES ASSUME SamplerInit PROVE SamplerInv
  OBVIOUS
<1>1. DOMAIN collections = Collections /\ \A k \in Collections : collections[k] = [stage |-> "idle", reading |-> Null]
  BY DEF SamplerInit
<1>2. \A k \in Collections : IsTask(collections[k])
  BY <1>1 DEF IsTask, IsCollection
<1> QED
  BY <1>1, <1>2, HistoryInit DEF SamplerInit, SamplerInv

\* What has been sampled stays a sample when time passes, and what has been
\* read stays what was counted.
LEMMA TimePasses ==
    ASSUME SamplerInv, SecondPasses
    PROVE  SamplerInv'
<1>1. HistoryInv'
  BY HistoryStep DEF SamplerInv, SamplerNext
<1>2. /\ \A t \in 1..Time : history'[t] = history[t]
      /\ Time' = Time + 1 /\ Time \in Nat
  BY SecondAdded DEF SamplerInv, HistoryInv, Time
<1>3. ASSUME NEW sample, IsSample(sample) PROVE IsSample(sample)'
  BY <1>2, <1>3 DEF IsSample
<1>4. ASSUME NEW reading, IsReading(reading) PROVE IsReading(reading)'
  BY <1>2, <1>4 DEF IsReading
<1>5. ASSUME NEW reading, IsReading(reading), Covers(reading) PROVE Covers(reading)'
  <2>1. reading.at \in 1..Time /\ reading.at - reading.seconds \in 1..Time
    BY <1>2, <1>5 DEF IsReading
  <2> QED
    BY <1>2, <1>5, <2>1 DEF Covers
<1>6. ASSUME NEW task, IsTask(task) PROVE IsTask(task)'
  BY <1>2, <1>3, <1>4, <1>5, <1>6 DEF IsTask, IsCollection
<1>7. /\ UNCHANGED <<perDevice, baseline, collections>>
      /\ present' \in SUBSET Counters
  BY DEF SecondPasses, SamplerInv
<1>8. baseline' = Null \/ IsSample(baseline)'
  <2>1. PICK sample : sample = baseline
    OBVIOUS
  <2> QED
    BY <1>3, <1>7, <2>1 DEF SamplerInv, IsSample
<1>9. ASSUME NEW k \in Collections PROVE IsTask(collections[k])'
  <2>1. PICK task : task = collections[k]
    OBVIOUS
  <2>2. IsTask(task)'
    BY <1>6, <2>1 DEF SamplerInv
  <2>3. collections'[k] = task
    BY <1>7, <2>1
  <2> QED
    BY <2>2, <2>3 DEF IsTask, IsCollection, IsSample, IsReading, Covers
<1> QED
  BY <1>1, <1>7, <1>8, <1>9 DEF SamplerInv

LEMMA TaskStays ==
    ASSUME UNCHANGED history, NEW n \in Collections, IsTask(collections'[n])
    PROVE  IsTask(collections[n])'
<1>1. PICK now : now = collections'[n]
  OBVIOUS
<1>2. IsTask(now)
  BY <1>1
<1>3. IsTask(now)'
  BY <1>2 DEF IsTask, IsCollection, IsSample, IsReading, Covers, Time
<1>4. collections'[n] = now
  BY <1>1
<1> QED
  BY <1>3, <1>4 DEF IsTask, IsCollection, IsSample, IsReading, Covers

LEMMA CollectionMoves ==
    ASSUME SamplerInv, NEW k \in Collections, NEW task, IsTask(task),
           collections' = [collections EXCEPT ![k] = task],
           baseline' = Null \/ IsSample(baseline'),
           UNCHANGED <<perDevice, history, present>>
    PROVE  SamplerInv'
<1>1. HistoryInv'
  BY DEF SamplerInv, HistoryInv, Grew, Time
<1>2. DOMAIN collections' = Collections
  BY DEF SamplerInv
<1>3. ASSUME NEW n \in Collections PROVE IsTask(collections'[n])
  BY <1>3 DEF SamplerInv
<1>4. \A n \in Collections : IsTask(collections[n])'
  BY <1>3, TaskStays
<1>5. baseline' = Null \/ IsSample(baseline)'
  BY DEF IsSample, Time
<1> QED
  BY <1>1, <1>2, <1>4, <1>5 DEF SamplerInv

LEMMA SamplerInvStep == SamplerInv /\ [SamplerNext]_samplerVars => SamplerInv'
<1> SUFFICES ASSUME SamplerInv, [SamplerNext]_samplerVars PROVE SamplerInv'
  OBVIOUS
<1>0. /\ HistoryInv /\ present \in SUBSET Counters
      /\ baseline = Null \/ IsSample(baseline)
      /\ \A k \in Collections : IsTask(collections[k])
  BY DEF SamplerInv
<1>1. IsSample(Sample) /\ Sample.at = Time
  BY <1>0, SampleTyped
<1>2. IsTask(Ended(Null))
  BY DEF Ended, IsTask, IsCollection
<1>3. ASSUME NEW k \in Collections, Take(k) PROVE SamplerInv'
  <2> DEFINE before == IF baseline = Null THEN Sample ELSE baseline
             task == [stage |-> IF baseline = Null THEN "gap" ELSE "taken",
                      retried |-> collections[k].stage = "again",
                      before |-> before]
  <2>1. IsSample(before)
    BY <1>0, <1>1
  <2>2. /\ task.stage \in {"gap", "taken"}
        /\ task.retried \in BOOLEAN
        /\ task.before = before
    OBVIOUS
  <2> HIDE DEF before
  <2>3. IsTask(task)
    BY <2>1, <2>2 DEF IsTask, IsCollection
  <2>4. /\ collections' = [collections EXCEPT ![k] = task]
        /\ baseline' = Null
        /\ UNCHANGED <<perDevice, history, present>>
    BY <1>3 DEF Take, before
  <2> QED
    BY <2>3, <2>4, CollectionMoves
<1>4. ASSUME NEW k \in Collections, Read(k) PROVE SamplerInv'
  <2> DEFINE task == [stage |-> "read", retried |-> collections[k].retried,
                      before |-> collections[k].before, now |-> Sample]
  <2>1. /\ collections[k].stage \in {"gap", "taken"}
        /\ collections[k].retried \in BOOLEAN
        /\ IsSample(collections[k].before)
    BY <1>0, <1>4 DEF Read, SecondSampleDue, IsTask, IsCollection
  <2>2. collections[k].before.at <= Time
    BY <2>1 DEF IsSample
  <2>3. IsTask(task)
    BY <1>1, <2>1, <2>2 DEF IsTask, IsCollection
  <2>4. /\ collections' = [collections EXCEPT ![k] = task]
        /\ UNCHANGED <<perDevice, history, present, baseline>>
    BY <1>4 DEF Read, SamplerInv
  <2> QED
    BY <1>0, <2>3, <2>4, CollectionMoves
<1>5. ASSUME NEW k \in Collections, FailRead(k) PROVE SamplerInv'
  BY <1>0, <1>2, <1>5, CollectionMoves DEF FailRead
<1>6. ASSUME NEW k \in Collections, Store(k) PROVE SamplerInv'
  <2> DEFINE old == collections[k]
             read == Reading(old.before, old.now)
             task == IF ~Backwards(old.before, old.now) THEN Ended(read)
                     ELSE IF old.retried THEN Ended(Null)
                     ELSE [stage |-> "drop"]
  <2>1. old.stage = "read" /\ IsSample(old.before) /\ IsSample(old.now) /\ old.before.at <= old.now.at
    BY <1>0, <1>6 DEF Store, IsTask, IsCollection
  <2>2. read = Null \/ (IsReading(read) /\ Covers(read))
    BY <1>0, <2>1, ReadingCovers
  <2> HIDE DEF read
  <2>3. IsTask(Ended(read))
    BY <2>2 DEF Ended, IsTask, IsCollection
  <2>4. IsTask([stage |-> "drop"])
    BY DEF IsTask, IsCollection
  <2>5. IsTask(task)
    BY <1>2, <2>3, <2>4
  <2>6. /\ collections' = [collections EXCEPT ![k] = task]
        /\ baseline' = old.now
        /\ UNCHANGED <<perDevice, history, present>>
    BY <1>6 DEF Store, read, SamplerInv
  <2> HIDE DEF task
  <2> QED
    BY <2>1, <2>5, <2>6, CollectionMoves
<1>7. ASSUME NEW k \in Collections, Drop(k) PROVE SamplerInv'
  <2>1. IsTask([stage |-> "again"])
    BY DEF IsTask, IsCollection
  <2> QED
    BY <1>7, <2>1, CollectionMoves DEF Drop
<1>8. CASE UNCHANGED samplerVars
  <2>1. UNCHANGED <<perDevice, history, present, baseline, collections>>
    BY <1>8 DEF samplerVars
  <2>2. HistoryInv'
    BY <1>0, <2>1 DEF HistoryInv, Grew, Time
  <2>3. \A n \in Collections : IsTask(collections[n])'
    BY <1>0, <2>1, TaskStays
  <2>4. baseline' = Null \/ IsSample(baseline)'
    BY <1>0, <2>1 DEF IsSample, Time
  <2> QED
    BY <2>1, <2>2, <2>3, <2>4 DEF SamplerInv
<1> QED
  BY <1>3, <1>4, <1>5, <1>6, <1>7, <1>8, TimePasses DEF SamplerNext

\* However two collections of one metric interleave between taking and storing
\* its baseline, what they hold are samples of the host, the older one first.
THEOREM SamplesAreOrdered == SamplerSpec => []SamplerTypeOK
  BY SamplerInvInit, SamplerInvStep, SamplerInvImplies, PTL DEF SamplerSpec

\* "each reading covers the whole time since the last one": whatever other
\* collection took or replaced the baseline, however counters begin anew and
\* devices come and go, a reading is what was counted in the time it names.
THEOREM ReadingsAreCounted == SamplerSpec => []ReadingIsWhatWasCounted
  BY SamplerInvInit, SamplerInvStep, SamplerInvImplies, PTL DEF SamplerSpec
=============================================================================
