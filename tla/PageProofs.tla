----------------------------- MODULE PageProofs -----------------------------
(***************************************************************************)
(* Theorems about the pages of the web interface: the checks the page of a *)
(* target waits for (MetricChecks) and its graphs (MetricHistory), and the *)
(* list of alerts (AlertListing), for every value of their constants.      *)
(***************************************************************************)
EXTENDS MetricChecks, MetricHistory, AlertListing, TLAPS

LEMMA OlderType ==
    ASSUME NEW limit \in Nat, NEW n \in 0..(limit + 1)
    PROVE  Older(n, limit) \in 0..(limit + 1)
  BY DEF Older

LEMMA NewCheckType ==
    /\ [age |-> 0, delivered |-> FALSE, done |-> FALSE] \in Check
    /\ \A b \in BOOLEAN : [age |-> 0, posted |-> b] \in Entry
  BY ChecksAssumption DEF Check, Entry

LEMMA TypeInit == Init => TypeOK
<1> SUFFICES ASSUME Init PROVE TypeOK
  OBVIOUS
<1>1. ChecksTyped
  BY DEF Init, ChecksTyped
<1>2. PageTyped
  BY DEF Init, PageTyped
<1>3. PollsTyped
  BY DEF Init, PollsTyped
<1> QED
  BY <1>1, <1>2, <1>3, ChecksAssumption DEF Init, TypeOK

LEMMA CheckAdded ==
    ASSUME ChecksTyped, NEW m \in Metrics, RequestMetricCheck(m)
    PROVE  ChecksTyped'
<1> DEFINE new == [age |-> 0, delivered |-> FALSE, done |-> FALSE]
<1>1. new \in Check /\ ~new.done
  BY NewCheckType
<1>2. checks' = [checks EXCEPT ![m] = new]
  BY DEF RequestMetricCheck
<1> HIDE DEF new
<1> QED
  BY <1>1, <1>2 DEF ChecksTyped

\* A call of the page ends.
LEMMA PostEnded ==
    ASSUME PageTyped, NEW m \in Metrics, NEW e \in Entry \cup {NoEntry},
           posts' = [posts EXCEPT ![m] = "idle"], page' = [page EXCEPT ![m] = e],
           timer' \in BOOLEAN
    PROVE  PageTyped'
  BY DEF PageTyped

LEMMA TypeStep == TypeOK /\ [Next]_vars => TypeOK'
<1> SUFFICES ASSUME TypeOK, [Next]_vars
             PROVE  ChecksTyped' /\ PageTyped' /\ PollsTyped' /\ restarts' \in 0..MaxRestarts
  BY DEF TypeOK
<1>0. /\ ChecksTyped /\ PageTyped /\ PollsTyped
      /\ restarts \in 0..MaxRestarts /\ MaxRestarts \in Nat
      /\ CheckTimeout \in Nat /\ PageTimeout \in Nat
  BY ChecksAssumption DEF TypeOK
<1>1. ASSUME UNCHANGED checks PROVE ChecksTyped'
  BY <1>0, <1>1 DEF ChecksTyped
<1>2. ASSUME UNCHANGED <<page, timer, posts>> PROVE PageTyped'
  BY <1>0, <1>2 DEF PageTyped
<1>3. ASSUME UNCHANGED polls PROVE PollsTyped'
  BY <1>0, <1>3 DEF PollsTyped
<1>4. CASE Tick
  <2>1. ASSUME NEW m \in Metrics, checks[m] # NoCheck
        PROVE  /\ [checks[m] EXCEPT !.age = Older(@, CheckTimeout)] \in Check
               /\ [checks[m] EXCEPT !.age = Older(@, CheckTimeout)].done = checks[m].done
               /\ [checks[m] EXCEPT !.age = Older(@, CheckTimeout)].delivered = checks[m].delivered
    <3>1. checks[m] \in Check
      BY <1>0, <2>1 DEF ChecksTyped
    <3>2. Older(checks[m].age, CheckTimeout) \in 0..(CheckTimeout + 1)
      BY <1>0, <3>1, OlderType DEF Check
    <3> QED
      BY <3>1, <3>2 DEF Check
  <2>2. ASSUME NEW m \in Metrics, page[m] # NoEntry
        PROVE  [page[m] EXCEPT !.age = Older(@, PageTimeout)] \in Entry
    <3>1. page[m] \in Entry
      BY <1>0, <2>2 DEF PageTyped
    <3>2. Older(page[m].age, PageTimeout) \in 0..(PageTimeout + 1)
      BY <1>0, <3>1, OlderType DEF Entry
    <3> QED
      BY <3>1, <3>2 DEF Entry
  <2>3. ChecksTyped'
    BY <1>0, <1>4, <2>1 DEF Tick, ChecksTyped
  <2>4. PageTyped'
    BY <1>0, <1>4, <2>2 DEF Tick, PageTyped
  <2> QED
    BY <1>0, <1>3, <1>4, <2>3, <2>4 DEF Tick
<1>5. CASE TakeUndelivered \/ ApiRestart \/ \E p \in Polls : ListChecks(p)
  <2>1. ASSUME NEW m \in Metrics, checks[m] # NoCheck
        PROVE  /\ [checks[m] EXCEPT !.delivered = TRUE] \in Check
               /\ [checks[m] EXCEPT !.delivered = TRUE].delivered
    BY <1>0, <2>1 DEF ChecksTyped, Check
  <2>2. ChecksTyped'
    BY <1>0, <1>5, <2>1 DEF TakeUndelivered, ApiRestart, ListChecks, LiveChecks, Live, ChecksTyped
  <2>3. PageTyped' /\ restarts' \in 0..MaxRestarts
    BY <1>0, <1>2, <1>5 DEF TakeUndelivered, ApiRestart, ListChecks
  <2>4. PollsTyped'
    BY <1>0, <1>3, <1>5 DEF TakeUndelivered, ApiRestart, ListChecks, PollsTyped
  <2> QED
    BY <2>2, <2>3, <2>4
<1>6. ASSUME NEW m \in Metrics, OtherPageAsks(m) \/ PostArrives(m)
      PROVE  ChecksTyped' /\ PageTyped' /\ PollsTyped' /\ restarts' \in 0..MaxRestarts
  <2>1. ChecksTyped'
    BY <1>0, <1>6, CheckAdded DEF OtherPageAsks, PostArrives
  <2>2. PageTyped'
    BY <1>0, <1>6 DEF OtherPageAsks, PostArrives, PageTyped
  <2> QED
    BY <1>0, <1>3, <1>6, <2>1, <2>2 DEF OtherPageAsks, PostArrives
<1>7. ASSUME NEW m \in Metrics, SubmitReading(m)
      PROVE  ChecksTyped' /\ PageTyped' /\ PollsTyped' /\ restarts' \in 0..MaxRestarts
  <2>1. /\ [checks[m] EXCEPT !.done = TRUE] \in Check
        /\ [checks[m] EXCEPT !.done = TRUE].delivered
    BY <1>0, <1>7 DEF SubmitReading, ChecksTyped, Check
  <2>2. checks' = [checks EXCEPT ![m] = [checks[m] EXCEPT !.done = TRUE]]
    BY <1>0, <1>7 DEF SubmitReading, ChecksTyped
  <2>3. ChecksTyped'
    BY <1>0, <2>1, <2>2 DEF ChecksTyped
  <2> QED
    BY <1>0, <1>2, <1>3, <1>7, <2>3 DEF SubmitReading
<1>8. ASSUME NEW m \in Metrics, Click(m) \/ PostReturns(m) \/ PostFails(m)
      PROVE  ChecksTyped' /\ PageTyped' /\ PollsTyped' /\ restarts' \in 0..MaxRestarts
  <2>1. ASSUME Click(m) PROVE PageTyped'
    <3>1. [age |-> 0, posted |-> FALSE] \in Entry
      BY NewCheckType
    <3>2. PICK e \in Entry : page' = [page EXCEPT ![m] = e]
      BY <2>1, <3>1 DEF Click
    <3>3. posts' = [posts EXCEPT ![m] = "sent"] /\ UNCHANGED timer
      BY <2>1 DEF Click
    <3> QED
      BY <1>0, <3>2, <3>3 DEF PageTyped
  <2>2. ASSUME PostReturns(m) PROVE PageTyped'
    <3>1. page[m] # NoEntry => [page[m] EXCEPT !.posted = TRUE] \in Entry
      BY <1>0 DEF PageTyped, Entry
    <3>2. PICK e \in Entry \cup {NoEntry} : page' = [page EXCEPT ![m] = e]
      BY <1>0, <2>2, <3>1 DEF PostReturns
    <3>3. posts' = [posts EXCEPT ![m] = "idle"] /\ timer' \in BOOLEAN
      BY <2>2 DEF PostReturns
    <3> QED
      BY <1>0, <3>2, <3>3, PostEnded
  <2>3. ASSUME PostFails(m) PROVE PageTyped'
    <3>1. /\ posts' = [posts EXCEPT ![m] = "idle"] /\ page' = [page EXCEPT ![m] = NoEntry]
          /\ timer' \in BOOLEAN
      BY <1>0, <2>3 DEF PostFails, PageTyped
    <3> QED
      BY <1>0, <3>1, PostEnded
  <2>4. PageTyped'
    BY <1>8, <2>1, <2>2, <2>3
  <2> QED
    BY <1>0, <1>1, <1>3, <1>8, <2>4 DEF Click, PostReturns, PostFails
<1>9. ASSUME NEW p \in Polls, PollPending(p) \/ ApplyList(p) \/ ListFails(p)
      PROVE  ChecksTyped' /\ PageTyped' /\ PollsTyped' /\ restarts' \in 0..MaxRestarts
  <2>1. page' \in [Metrics -> Entry \cup {NoEntry}]
    BY <1>0, <1>9 DEF PollPending, ApplyList, ListFails, PageTyped
  <2>2. timer' \in BOOLEAN
    BY <1>0, <1>9 DEF PollPending, ApplyList, ListFails, PageTyped
  <2>3. PageTyped'
    BY <1>0, <1>9, <2>1, <2>2 DEF PollPending, ApplyList, ListFails, PageTyped
  <2>4. PollsTyped'
    BY <1>0, <1>9 DEF PollPending, ApplyList, ListFails, PollsTyped, Idle
  <2> QED
    BY <1>0, <1>1, <1>9, <2>3, <2>4 DEF PollPending, ApplyList, ListFails
<1>10. CASE UNCHANGED vars
  BY <1>0, <1>1, <1>2, <1>3, <1>10 DEF vars
<1> QED
  BY <1>4, <1>5, <1>6, <1>7, <1>8, <1>9, <1>10 DEF Next, PostStep, PollStep

\* Requests, entries and calls keep their shape, and only a request the agent
\* was told of has a result.
THEOREM TypeCorrect == Spec => []TypeOK
  BY TypeInit, TypeStep, PTL DEF Spec

-----------------------------------------------------------------------------
(* A page that waits for an answered request polls. *)

LEMMA PolledStep == TypeOK /\ PolledWhilePending /\ [Next]_vars => PolledWhilePending'
<1> SUFFICES ASSUME TypeOK, PolledWhilePending, [Next]_vars,
                    NEW m \in Metrics, page'[m] # NoEntry, page'[m].posted
             PROVE  timer'
  BY DEF PolledWhilePending
<1>0. PageTyped
  BY DEF TypeOK
<1>1. CASE Tick
  <2>1. page[m] # NoEntry /\ page'[m] = [page[m] EXCEPT !.age = Older(@, PageTimeout)]
    BY <1>1 DEF Tick
  <2>2. page[m].posted
    BY <1>0, <2>1 DEF PageTyped, Entry
  <2> QED
    BY <1>1, <2>1, <2>2 DEF Tick, PolledWhilePending
<1>2. ASSUME NEW n \in Metrics, Click(n)
      PROVE  timer'
  <2>1. page'[m] = page[m]
    BY <1>0, <1>2 DEF Click, PageTyped
  <2> QED
    BY <1>2, <2>1 DEF Click, PolledWhilePending
<1>3. ASSUME NEW n \in Metrics, PostReturns(n)
      PROVE  timer'
  BY <1>3 DEF PostReturns
<1>4. ASSUME NEW n \in Metrics, PostFails(n)
      PROVE  timer'
  <2>1. page'[m] = page[m]
    BY <1>0, <1>4 DEF PostFails, PageTyped
  <2> QED
    BY <1>4, <2>1 DEF PostFails, PolledWhilePending
<1>5. ASSUME NEW p \in Polls, PollPending(p)
      PROVE  timer'
  BY <1>5 DEF PollPending
<1>6. ASSUME NEW p \in Polls, ApplyList(p)
      PROVE  timer'
  <2>1. page'[m] = page[m] /\ timer
    BY <1>6 DEF ApplyList, PolledWhilePending
  <2> QED
    BY <1>6, <2>1 DEF ApplyList
<1>7. ASSUME NEW p \in Polls, ListFails(p)
      PROVE  timer'
  BY <1>7 DEF ListFails, PolledWhilePending
<1>8. CASE UNCHANGED <<page, timer>>
  BY <1>8 DEF PolledWhilePending
<1> QED
  BY <1>1, <1>2, <1>3, <1>4, <1>5, <1>6, <1>7, <1>8
     DEF Next, PostStep, PollStep, TakeUndelivered, ApiRestart, OtherPageAsks, SubmitReading,
         PostArrives, ListChecks, vars

\* No entry is ever left behind without a timer, however calls overlap.
THEOREM AnsweredIsPolled == Spec => []PolledWhilePending
<1>1. Init => TypeOK /\ PolledWhilePending
  BY TypeInit DEF Init, PolledWhilePending
<1>2. TypeOK /\ PolledWhilePending /\ [Next]_vars => TypeOK' /\ PolledWhilePending'
  BY TypeStep, PolledStep
<1> QED
  BY <1>1, <1>2, PTL DEF Spec

-----------------------------------------------------------------------------
(* The API still has what a page waits for. *)

\* From the moment a page's request has arrived, the check is no older than the
\* entry that waits for it.
NoOlder(m) ==
    restarts = 0 /\ page[m] # NoEntry /\ page[m].age <= PageTimeout
        /\ (page[m].posted \/ posts[m] = "added")
    => checks[m] # NoCheck /\ checks[m].age <= page[m].age

ChecksNoOlder == \A m \in Metrics : NoOlder(m)

\* A check that is no older than its entry is not forgotten.
LEMMA NoOlderIsLive ==
    ASSUME TypeOK, NEW m \in Metrics, NoOlder(m), restarts = 0, page[m] # NoEntry,
           page[m].age <= PageTimeout, page[m].posted \/ posts[m] = "added"
    PROVE  Live(m)
<1>1. checks[m] \in Check /\ page[m] \in Entry /\ checks[m].age <= page[m].age
  BY DEF NoOlder, TypeOK, ChecksTyped, PageTyped
<1>2. checks[m].age \in Nat /\ page[m].age \in Nat
  BY <1>1, ChecksAssumption DEF Check, Entry
<1> QED
  BY <1>1, <1>2, ChecksAssumption DEF Live, NoOlder

LEMMA NoOlderStep == TypeOK /\ ChecksNoOlder /\ [Next]_vars => ChecksNoOlder'
<1> SUFFICES ASSUME TypeOK, ChecksNoOlder, [Next]_vars, NEW m \in Metrics,
                    restarts' = 0, page'[m] # NoEntry, page'[m].age <= PageTimeout,
                    page'[m].posted \/ posts'[m] = "added"
             PROVE  checks'[m] # NoCheck /\ checks'[m].age <= page'[m].age
  BY DEF ChecksNoOlder, NoOlder
<1>0. /\ checks \in [Metrics -> Check \cup {NoCheck}]
      /\ page \in [Metrics -> Entry \cup {NoEntry}]
      /\ posts \in [Metrics -> {"idle", "sent", "added"}]
      /\ restarts \in Nat /\ NoOlder(m)
  BY ChecksAssumption DEF TypeOK, ChecksTyped, PageTyped, ChecksNoOlder
<1>1. /\ CheckTimeout \in Nat /\ PageTimeout \in Nat /\ PageTimeout < CheckTimeout
      /\ checks[m] # NoCheck => checks[m].age \in Nat
      /\ page[m] # NoEntry => page[m].age \in Nat /\ page[m].posted \in BOOLEAN
  BY <1>0, ChecksAssumption DEF Check, Entry
<1>2. ASSUME page'[m] = page[m], posts'[m] = posts[m], restarts' = restarts
      PROVE  /\ checks[m] # NoCheck /\ checks[m].age <= page'[m].age
             /\ Live(m)
  BY <1>0, <1>2, NoOlderIsLive DEF NoOlder
<1>3. CASE Tick
  <2>1. /\ page[m] # NoEntry /\ restarts = 0 /\ posts'[m] = posts[m]
        /\ page'[m] = [page[m] EXCEPT !.age = Older(@, PageTimeout)]
    BY <1>3 DEF Tick
  <2>2. page'[m].age = Older(page[m].age, PageTimeout) /\ page'[m].posted = page[m].posted
    BY <1>0, <2>1 DEF Entry
  <2>3. page[m].age <= PageTimeout /\ page'[m].age = page[m].age + 1
    BY <1>1, <2>1, <2>2 DEF Older
  <2>4. checks[m] # NoCheck /\ checks[m].age <= page[m].age
    BY <1>0, <2>1, <2>2, <2>3 DEF NoOlder
  <2>5. checks'[m] = [checks[m] EXCEPT !.age = Older(@, CheckTimeout)]
    BY <1>3, <2>4 DEF Tick
  <2>6. checks'[m] \in Check /\ checks'[m].age = Older(checks[m].age, CheckTimeout)
    <3>1. checks[m] \in Check /\ Older(checks[m].age, CheckTimeout) \in 0..(CheckTimeout + 1)
      BY <1>0, <1>1, <2>4, OlderType DEF Check
    <3> QED
      BY <2>5, <3>1 DEF Check
  <2>7. checks'[m].age = checks[m].age + 1
    <3>1. checks[m].age \in Nat /\ ~(checks[m].age > CheckTimeout)
      BY <1>1, <2>1, <2>3, <2>4
    <3> QED
      BY <2>6, <3>1, Zenon DEF Older
  <2> QED
    BY <1>1, <2>1, <2>3, <2>4, <2>6, <2>7, ChecksAssumption
<1>4. CASE TakeUndelivered
  <2>1. checks[m] # NoCheck /\ checks[m].age <= page'[m].age /\ Live(m)
    BY <1>2, <1>4 DEF TakeUndelivered
  <2>2. checks'[m] = [checks[m] EXCEPT !.delivered = TRUE]
    BY <1>4, <2>1 DEF TakeUndelivered
  <2>3. checks'[m] \in Check /\ checks'[m].age = checks[m].age
    BY <1>0, <2>1, <2>2 DEF Check
  <2> QED
    BY <2>1, <2>3, ChecksAssumption
<1>5. CASE ApiRestart
  BY <1>0, <1>5 DEF ApiRestart
<1>6. ASSUME NEW p \in Polls, ListChecks(p)
      PROVE  checks'[m] # NoCheck /\ checks'[m].age <= page'[m].age
  <2>1. checks[m] # NoCheck /\ checks[m].age <= page'[m].age /\ Live(m)
    BY <1>2, <1>6 DEF ListChecks
  <2> QED
    BY <1>6, <2>1 DEF ListChecks, LiveChecks
<1>7. ASSUME NEW n \in Metrics, OtherPageAsks(n) \/ PostArrives(n)
      PROVE  checks'[m] # NoCheck /\ checks'[m].age <= page'[m].age
  <2> DEFINE new == [age |-> 0, delivered |-> FALSE, done |-> FALSE]
  <2>1. checks' = [checks EXCEPT ![n] = new] /\ page' = page /\ restarts' = restarts
    BY <1>7 DEF OtherPageAsks, PostArrives, RequestMetricCheck
  <2>2. new \in Check /\ new # NoCheck /\ new.age = 0
    BY NewCheckType, ChecksAssumption
  <2> HIDE DEF new
  <2>3. CASE m = n
    <3>1. checks'[m] = new /\ page'[m].age \in Nat
      BY <1>0, <1>1, <2>1, <2>3
    <3> QED
      BY <2>2, <3>1
  <2>4. CASE m # n
    <3>1. checks'[m] = checks[m] /\ posts'[m] = posts[m] /\ page'[m] = page[m]
      BY <1>0, <1>7, <2>1, <2>4 DEF OtherPageAsks, PostArrives
    <3> QED
      BY <1>2, <2>1, <3>1
  <2> QED
    BY <2>3, <2>4
<1>8. ASSUME NEW n \in Metrics, SubmitReading(n)
      PROVE  checks'[m] # NoCheck /\ checks'[m].age <= page'[m].age
  <2>1. checks[m] # NoCheck /\ checks[m].age <= page'[m].age
    BY <1>2, <1>8 DEF SubmitReading
  <2>2. checks[n] \in Check
    BY <1>0, <1>8 DEF SubmitReading
  <2>3. checks' = [checks EXCEPT ![n] = [checks[n] EXCEPT !.done = TRUE]]
    BY <1>0, <1>8 DEF SubmitReading
  <2>4. [checks[n] EXCEPT !.done = TRUE] \in Check /\ [checks[n] EXCEPT !.done = TRUE].age = checks[n].age
    BY <2>2 DEF Check
  <2>5. checks'[m] = IF m = n THEN [checks[n] EXCEPT !.done = TRUE] ELSE checks[m]
    BY <1>0, <2>3
  <2> QED
    BY <2>1, <2>4, <2>5, ChecksAssumption
<1>9. ASSUME NEW n \in Metrics, Click(n)
      PROVE  checks'[m] # NoCheck /\ checks'[m].age <= page'[m].age
  <2>1. m # n
    BY <1>0, <1>9 DEF Click
  <2> QED
    BY <1>0, <1>2, <1>9, <2>1 DEF Click
<1>10. ASSUME NEW n \in Metrics, PostReturns(n)
       PROVE  checks'[m] # NoCheck /\ checks'[m].age <= page'[m].age
  <2>1. CASE m = n
    <3>1. posts[m] = "added" /\ page[m] # NoEntry /\ restarts = 0 /\ checks' = checks
      BY <1>0, <1>10, <2>1 DEF PostReturns
    <3>2. page'[m] = [page[m] EXCEPT !.posted = TRUE]
      BY <1>0, <1>10, <2>1, <3>1 DEF PostReturns
    <3>3. page'[m].age = page[m].age
      BY <1>0, <3>1, <3>2 DEF Entry
    <3> QED
      BY <1>0, <3>1, <3>3 DEF NoOlder
  <2>2. CASE m # n
    BY <1>0, <1>2, <1>10, <2>2 DEF PostReturns
  <2> QED
    BY <2>1, <2>2
<1>11. ASSUME NEW n \in Metrics, PostFails(n)
       PROVE  checks'[m] # NoCheck /\ checks'[m].age <= page'[m].age
  <2>1. m # n
    BY <1>0, <1>11 DEF PostFails
  <2> QED
    BY <1>0, <1>2, <1>11, <2>1 DEF PostFails
<1>12. ASSUME NEW p \in Polls, PollPending(p) \/ ApplyList(p) \/ ListFails(p)
       PROVE  checks'[m] # NoCheck /\ checks'[m].age <= page'[m].age
  <2>1. /\ page'[m] = page[m] /\ posts' = posts /\ restarts' = restarts
        /\ checks' = checks
    BY <1>12 DEF PollPending, ApplyList, ListFails
  <2> QED
    BY <1>2, <2>1
<1>13. CASE UNCHANGED vars
  BY <1>2, <1>13 DEF vars
<1> QED
  BY <1>3, <1>4, <1>5, <1>6, <1>7, <1>8, <1>9, <1>10, <1>11, <1>12, <1>13
     DEF Next, PostStep, PollStep

\* The API has every check that a page still waits for, as long as it has not
\* been restarted, however calls, polls and other pages' requests interleave,
\* since its time-out is the longer one and is counted from a later moment.
THEOREM WaitedIsListed == Spec => []ListedWhileWaited
<1>1. Init => TypeOK /\ ChecksNoOlder
  BY TypeInit DEF Init, ChecksNoOlder, NoOlder
<1>2. TypeOK /\ ChecksNoOlder /\ [Next]_vars => TypeOK' /\ ChecksNoOlder'
  BY TypeStep, NoOlderStep
<1>3. TypeOK /\ ChecksNoOlder => ListedWhileWaited
  BY NoOlderIsLive DEF ListedWhileWaited, ChecksNoOlder
<1> QED
  BY <1>1, <1>2, <1>3, PTL DEF Spec

-----------------------------------------------------------------------------
(* Graphs: ranges, buckets and slots. *)

Buckets == {60000, 120000, 300000, 1800000}

LEMMA RangeFacts ==
    ASSUME NEW range \in HistoryRange
    PROVE  /\ Bucket[range] \in Buckets
           /\ Span[range] \in Nat
           /\ \/ Bucket[range] = 60000 /\ Span[range] = 60 * 60000
              \/ Bucket[range] = 120000 /\ Span[range] = 180 * 120000
              \/ Bucket[range] = 300000 /\ Span[range] = 288 * 300000
              \/ Bucket[range] = 1800000 /\ Span[range] = 336 * 1800000
  BY DEF HistoryRange, Bucket, Span, Buckets

\* A time lies in its bucket, and no other bucket contains it.
LEMMA InItsBucket ==
    ASSUME NEW bucket \in Buckets, NEW time \in Int
    PROVE  /\ time \div bucket \in Int
           /\ BucketStart(time, bucket) \in Int
           /\ BucketStart(time, bucket) <= time
           /\ time < BucketStart(time, bucket) + bucket
           /\ \A k \in Int : k * bucket <= time /\ time < k * bucket + bucket =>
                 k * bucket = BucketStart(time, bucket)
<1>1. CASE bucket = 60000
  BY <1>1 DEF BucketStart
<1>2. CASE bucket = 120000
  BY <1>2 DEF BucketStart
<1>3. CASE bucket = 300000
  BY <1>3 DEF BucketStart
<1>4. CASE bucket = 1800000
  BY <1>4 DEF BucketStart
<1> QED
  BY <1>1, <1>2, <1>3, <1>4 DEF Buckets

\* The slots between two times are the buckets of the times between them.
LEMMA BucketHasSlot ==
    ASSUME NEW bucket \in Buckets, NEW from \in Int, NEW to \in Int, NEW time \in Int,
           from <= time, time <= to
    PROVE  \E k \in 0 .. (to - BucketStart(from, bucket)) \div bucket :
               BucketStart(time, bucket) = BucketStart(from, bucket) + k * bucket
<1> DEFINE k == time \div bucket - from \div bucket
<1>1. /\ k \in 0 .. (to - BucketStart(from, bucket)) \div bucket
      /\ BucketStart(time, bucket) = BucketStart(from, bucket) + k * bucket
  <2>1. CASE bucket = 60000
    BY <2>1 DEF BucketStart
  <2>2. CASE bucket = 120000
    BY <2>2 DEF BucketStart
  <2>3. CASE bucket = 300000
    BY <2>3 DEF BucketStart
  <2>4. CASE bucket = 1800000
    BY <2>4 DEF BucketStart
  <2> QED
    BY <2>1, <2>2, <2>3, <2>4 DEF Buckets
<1> QED
  BY <1>1

\* A slot is a multiple of the bucket.
LEMMA SlotIsBucket ==
    ASSUME NEW bucket \in Buckets, NEW from \in Int, NEW k \in Int
    PROVE  BucketStart(from, bucket) + k * bucket = (from \div bucket + k) * bucket
<1>1. CASE bucket = 60000
  BY <1>1 DEF BucketStart
<1>2. CASE bucket = 120000
  BY <1>2 DEF BucketStart
<1>3. CASE bucket = 300000
  BY <1>3 DEF BucketStart
<1>4. CASE bucket = 1800000
  BY <1>4 DEF BucketStart
<1> QED
  BY <1>1, <1>2, <1>3, <1>4 DEF Buckets

-----------------------------------------------------------------------------
(* The lines. *)

LEMMA AnswerFields ==
    ASSUME NEW readings, NEW range, NEW queried, NEW answered, NEW ended
    PROVE  LET history == History(readings, range, queried, answered, ended)
           IN /\ history.bucket = Bucket[range]
              /\ history.from = answered - Span[range]
              /\ history.to = ended
              /\ DOMAIN history.metrics = {r.series : r \in Selected(readings, range, queried)}
              /\ \A series \in DOMAIN history.metrics :
                    history.metrics[series] = Points(readings, range, queried, series)
  BY DEF History

\* What a slot of a line holds, without the points in between.
LEMMA SlotHolds ==
    ASSUME NEW readings \in SUBSET Reading, NEW range \in HistoryRange,
           NEW queried \in Int, NEW answered \in Int, NEW ended \in Int, NEW series,
           series \in DOMAIN History(readings, range, queried, answered, ended).metrics,
           NEW t \in Slots(History(readings, range, queried, answered, ended))
    PROVE  Line(History(readings, range, queried, answered, ended), series)[t]
               = {r \in Selected(readings, range, queried) :
                     r.series = series /\ BucketStart(r.at, Bucket[range]) = t}
<1> DEFINE points == Points(readings, range, queried, series)
           own == {r \in Selected(readings, range, queried) : r.series = series}
<1>1. Line(History(readings, range, queried, answered, ended), series)[t]
          = IF t \in DOMAIN points THEN points[t] ELSE {}
  BY AnswerFields DEF Line
<1>2. DOMAIN points = {BucketStart(r.at, Bucket[range]) : r \in own}
  BY DEF Points
<1>3. t \in DOMAIN points => points[t] = {r \in own : BucketStart(r.at, Bucket[range]) = t}
  BY DEF Points
<1>4. t \notin DOMAIN points => {r \in own : BucketStart(r.at, Bucket[range]) = t} = {}
  BY <1>2
<1> QED
  BY <1>1, <1>3, <1>4

\* Every reading that was there for the query and lies in the answer's range is
\* in a slot of its line: buckets counted from the epoch by the database and
\* slots counted from the range's start by the chart meet (targets.service.ts
\* :576, MetricChart.vue:32-35).
THEOREM EveryReadingIsDrawn ==
    ASSUME NEW readings \in SUBSET Reading, NEW range \in HistoryRange,
           NEW queried \in Int, NEW answered \in Int, NEW ended \in Int,
           queried <= answered,
           NEW r \in readings, answered - Span[range] <= r.at, r.at <= ended
    PROVE  LET history == History(readings, range, queried, answered, ended)
           IN /\ r.series \in DOMAIN history.metrics
              /\ \E t \in Slots(history) : r \in Line(history, r.series)[t]
<1> DEFINE history == History(readings, range, queried, answered, ended)
           bucket == Bucket[range]
           start == BucketStart(r.at, bucket)
<1>1. r.at \in Int
  BY DEF Reading
<1>2. r \in Selected(readings, range, queried)
  BY <1>1, RangeFacts DEF Selected
<1>3. r.series \in DOMAIN history.metrics
  BY <1>2, AnswerFields
<1>4. history.bucket = bucket /\ history.from = answered - Span[range] /\ history.to = ended
  BY AnswerFields
<1>5. /\ bucket \in Buckets
      /\ answered - Span[range] \in Int
  BY RangeFacts
<1>6. PICK k \in 0 .. (ended - BucketStart(answered - Span[range], bucket)) \div bucket :
          start = BucketStart(answered - Span[range], bucket) + k * bucket
  BY <1>1, <1>5, BucketHasSlot
<1>7. start \in Slots(history)
  BY <1>4, <1>6 DEF Slots
<1>8. r \in Line(history, r.series)[start]
  BY <1>2, <1>3, <1>7, SlotHolds
<1> QED
  BY <1>3, <1>7, <1>8

\* A line breaks at an outage and only there: a slot is a gap exactly when the
\* series has no reading in the bucket's time that was in the range of the
\* query (MetricChart.vue:30-31).
THEOREM GapsAreOutages ==
    ASSUME NEW readings \in SUBSET Reading, NEW range \in HistoryRange,
           NEW queried \in Int, NEW answered \in Int, NEW ended \in Int, NEW series,
           series \in DOMAIN History(readings, range, queried, answered, ended).metrics,
           NEW t \in Slots(History(readings, range, queried, answered, ended))
    PROVE  Line(History(readings, range, queried, answered, ended), series)[t] = {}
             <=> \A r \in readings :
                    r.series = series /\ r.at >= queried - Span[range] =>
                        ~(t <= r.at /\ r.at < t + Bucket[range])
<1> DEFINE history == History(readings, range, queried, answered, ended)
           bucket == Bucket[range]
<1>1. /\ bucket \in Buckets
      /\ answered - Span[range] \in Int
  BY RangeFacts
<1>2. history.bucket = bucket /\ history.from = answered - Span[range] /\ history.to = ended
  BY AnswerFields
<1>3. PICK k \in Int : t = BucketStart(answered - Span[range], bucket) + k * bucket
  BY <1>2 DEF Slots
<1>4. (answered - Span[range]) \div bucket + k \in Int
  BY <1>1, <1>3, InItsBucket
<1>5. t = ((answered - Span[range]) \div bucket + k) * bucket
  BY <1>1, <1>3, SlotIsBucket
<1>6. \A r \in readings :
         BucketStart(r.at, bucket) = t <=> t <= r.at /\ r.at < t + bucket
  <2>1. SUFFICES ASSUME NEW r \in readings
                 PROVE  BucketStart(r.at, bucket) = t <=> t <= r.at /\ r.at < t + bucket
    OBVIOUS
  <2>2. r.at \in Int
    BY DEF Reading
  <2>3. /\ BucketStart(r.at, bucket) <= r.at
        /\ r.at < BucketStart(r.at, bucket) + bucket
    BY <1>1, <2>2, InItsBucket
  <2>4. t <= r.at /\ r.at < t + bucket => t = BucketStart(r.at, bucket)
    <3> DEFINE slot == (answered - Span[range]) \div bucket + k
    <3>1. slot \in Int /\ t = slot * bucket
      BY <1>4, <1>5
    <3> HIDE DEF slot, bucket
    <3>2. \A j \in Int : j * bucket <= r.at /\ r.at < j * bucket + bucket =>
              j * bucket = BucketStart(r.at, bucket)
      BY <1>1, <2>2, InItsBucket
    <3> QED
      BY <3>1, <3>2
  <2> QED
    BY <2>3, <2>4
<1>7. Line(history, series)[t]
          = {r \in Selected(readings, range, queried) :
                r.series = series /\ BucketStart(r.at, bucket) = t}
  BY SlotHolds
<1> QED
  BY <1>6, <1>7 DEF Selected

\* Whatever the range, a chart has one slot more than the range has buckets,
\* 61 to 337 of them, the first and the last of them in part outside of it:
\* "Buckets keep every range at a few hundred points" (targets.service.ts
\* :545-546).
THEOREM SlotsPerChart ==
    ASSUME NEW range \in HistoryRange, NEW answered \in Int
    PROVE  LET from == answered - Span[range]
           IN 1 + (answered - BucketStart(from, Bucket[range])) \div Bucket[range]
                = CASE range = "1h" -> 61 [] range = "6h" -> 181
                    [] range = "24h" -> 289 [] range = "7d" -> 337
<1>1. CASE range = "1h"
  BY <1>1 DEF BucketStart, Bucket, Span, HistoryRange
<1>2. CASE range = "6h"
  BY <1>2 DEF BucketStart, Bucket, Span, HistoryRange
<1>3. CASE range = "24h"
  BY <1>3 DEF BucketStart, Bucket, Span, HistoryRange
<1>4. CASE range = "7d"
  BY <1>4 DEF BucketStart, Bucket, Span, HistoryRange
<1> QED
  BY <1>1, <1>2, <1>3, <1>4 DEF HistoryRange

-----------------------------------------------------------------------------
(* The vertical axis. *)

Optional == Int \cup {Null}

LEMMA Bounds ==
    ASSUME Null \notin Int, NEW a \in Optional, NEW b \in Optional
    PROVE  /\ Lower(a, b) \in {a, b} /\ Higher(a, b) \in {a, b}
           /\ Lower(a, b) = Null <=> a = Null /\ b = Null
           /\ Higher(a, b) = Null <=> a = Null /\ b = Null
           /\ a # Null => Lower(a, b) <= a /\ a <= Higher(a, b)
           /\ b # Null => Lower(a, b) <= b /\ b <= Higher(a, b)
  BY DEF Lower, Higher, Optional

\* The lowest and the highest of what a chart has to show.
LEMMA Extremes ==
    ASSUME Null \notin Int,
           NEW warning \in Optional, NEW critical \in Optional,
           NEW dataMin \in Optional, NEW dataMax \in Optional,
           NEW value \in {warning, critical, dataMin, dataMax} \ {Null}
    PROVE  LET plotted == {warning, critical, dataMin, dataMax} \ {Null}
               low == Lower(0, Lower(Lower(warning, critical), Lower(dataMin, dataMax)))
               high == Higher(Higher(warning, critical), Higher(dataMin, dataMax))
           IN /\ low \in Int /\ low <= 0 /\ low <= value
              /\ high \in plotted /\ high \in Int /\ value <= high
<1> DEFINE l1 == Lower(warning, critical)  l2 == Lower(dataMin, dataMax)
           h1 == Higher(warning, critical)  h2 == Higher(dataMin, dataMax)
<1>1. l1 \in Optional /\ l2 \in Optional /\ h1 \in Optional /\ h2 \in Optional
  BY Bounds
<1>2. Lower(l1, l2) \in Optional /\ Higher(h1, h2) \in Optional
  BY <1>1, Bounds
<1>3. 0 \in Optional /\ 0 # Null
  BY DEF Optional
<1>4. /\ Lower(0, Lower(l1, l2)) \in Optional /\ Lower(0, Lower(l1, l2)) # Null
      /\ Lower(0, Lower(l1, l2)) <= 0
      /\ Lower(l1, l2) # Null => Lower(0, Lower(l1, l2)) <= Lower(l1, l2)
  BY <1>2, <1>3, Bounds
<1>5. CASE value \in {warning, critical}
  <2>1. l1 # Null /\ l1 <= value /\ h1 # Null /\ value <= h1
    BY <1>5, Bounds
  <2>2. Lower(l1, l2) # Null /\ Lower(l1, l2) <= l1 /\ Higher(h1, h2) # Null /\ h1 <= Higher(h1, h2)
    BY <1>1, <2>1, Bounds
  <2>3. Higher(h1, h2) \in {warning, critical, dataMin, dataMax}
    BY <1>1, Bounds
  <2> QED
    BY <1>1, <1>2, <1>4, <1>5, <2>1, <2>2, <2>3 DEF Optional
<1>6. CASE value \in {dataMin, dataMax}
  <2>1. l2 # Null /\ l2 <= value /\ h2 # Null /\ value <= h2
    BY <1>6, Bounds
  <2>2. Lower(l1, l2) # Null /\ Lower(l1, l2) <= l2 /\ Higher(h1, h2) # Null /\ h2 <= Higher(h1, h2)
    BY <1>1, <2>1, Bounds
  <2>3. Higher(h1, h2) \in {warning, critical, dataMin, dataMax}
    BY <1>1, Bounds
  <2> QED
    BY <1>1, <1>2, <1>4, <1>6, <2>1, <2>2, <2>3 DEF Optional
<1> QED
  BY <1>5, <1>6

\* "Fits the data and the threshold lines, so the lines are always visible"
\* (MetricChart.vue:81): every one of them is between the ends of the axis as
\* long as one of them is not negative.
THEOREM AxisFits ==
    ASSUME Null \notin Int,
           NEW warning \in Optional, NEW critical \in Optional,
           NEW dataMin \in Optional, NEW dataMax \in Optional,
           NEW value \in {warning, critical, dataMin, dataMax} \ {Null},
           NEW other \in {warning, critical, dataMin, dataMax} \ {Null}, other >= 0
    PROVE  Visible(value, YRange(warning, critical, dataMin, dataMax))
<1> DEFINE low == Lower(0, Lower(Lower(warning, critical), Lower(dataMin, dataMax)))
           high == Higher(Higher(warning, critical), Higher(dataMin, dataMax))
<1>1. /\ low \in Int /\ low <= value
      /\ high \in Int /\ value <= high /\ other <= high
  BY Extremes
<1>2. high # Null /\ value \in Int /\ other \in Int
  BY <1>1 DEF Optional
<1>3. high >= 0
  BY <1>1, <1>2
<1> HIDE DEF low, high
<1>4. 20 * low <= 20 * value /\ 20 * value <= 21 * high /\ (high = low => 20 * value <= 20 * (low + 1))
  BY <1>1, <1>2, <1>3
<1> USE DEF low, high
<1>5. YRange(warning, critical, dataMin, dataMax)
          = [from |-> 20 * low, to |-> IF high = low THEN 20 * (low + 1) ELSE 21 * high]
  BY <1>2 DEF YRange
<1> QED
  BY <1>4, <1>5 DEF Visible

\* When they are all negative it does not: the highest of them is cut off,
\* unless they are all the same, since 1.05 times a negative number is less
\* than the number (MetricChart.vue:89).
THEOREM AxisCutsNegatives ==
    ASSUME Null \notin Int,
           NEW warning \in Optional, NEW critical \in Optional,
           NEW dataMin \in Optional, NEW dataMax \in Optional,
           \A v \in {warning, critical, dataMin, dataMax} \ {Null} : v < 0,
           NEW a \in {warning, critical, dataMin, dataMax} \ {Null},
           NEW b \in {warning, critical, dataMin, dataMax} \ {Null}, a # b
    PROVE  \E v \in {warning, critical, dataMin, dataMax} \ {Null} :
               ~Visible(v, YRange(warning, critical, dataMin, dataMax))
<1> DEFINE low == Lower(0, Lower(Lower(warning, critical), Lower(dataMin, dataMax)))
           high == Higher(Higher(warning, critical), Higher(dataMin, dataMax))
<1>1. /\ low \in Int /\ low <= a /\ low <= b
      /\ high \in {warning, critical, dataMin, dataMax} \ {Null}
      /\ high \in Int /\ a <= high /\ b <= high
  BY Extremes
<1>2. a \in Int /\ b \in Int /\ high < 0
  BY <1>1 DEF Optional
<1>3. high # low /\ ~(20 * high <= 21 * high)
  <2> HIDE DEF low, high
  <2> QED
    BY <1>1, <1>2
<1>4. YRange(warning, critical, dataMin, dataMax) = [from |-> 20 * low, to |-> 21 * high]
  BY <1>1, <1>3 DEF YRange
<1> QED
  BY <1>1, <1>3, <1>4 DEF Visible

-----------------------------------------------------------------------------
(* The list of alerts: what its controls and its URL can be. *)

LEMMA PlainTyped == Plain \in Controls
  BY ListingAssumption DEF Plain, Controls, Tabs, Pages

LEMMA QueryTyped ==
    ASSUME NEW c \in Controls, NEW sent \in Searches \cup {None}
    PROVE  QueryOf(c, sent) \in Query
  BY DEF QueryOf, Query, Controls

LEMMA PatchedTyped ==
    ASSUME NEW query \in Controls, NEW before \in Controls, NEW after \in Controls
    PROVE  /\ Patched(query, before, after) \in Controls
           /\ \A key \in DOMAIN query :
                 Patched(query, before, after)[key] =
                     IF after[key] # before[key] THEN after[key] ELSE query[key]
  BY DEF Controls, Patched

LEMMA ControlsDomain ==
    ASSUME NEW c \in Controls
    PROVE  DOMAIN c = {"tab", "filter", "search", "page"}
  BY DEF Controls

\* The first page is one, and nothing but the page changes.
LEMMA RestartedTyped ==
    ASSUME NEW before \in Controls, NEW after \in Controls
    PROVE  /\ Restarted(before, after) \in Controls
           /\ \A key \in {"tab", "filter", "search"} : Restarted(before, after)[key] = after[key]
           /\ Restarted(before, after).page = 1 \/ Restarted(before, after) = after
<1>1. 1 \in Pages
  BY ListingAssumption DEF Pages
<1> QED
  BY <1>1 DEF Restarted, Controls

LEMMA PageChanged ==
    ASSUME NEW c \in Controls, NEW p \in Pages
    PROVE  [c EXCEPT !.page = p] \in Controls
  BY DEF Controls

-----------------------------------------------------------------------------
(* The URL keeps the list. *)

SameList(u, c) == \A key \in DOMAIN u : u[key] = c[key] \/ (key = "page" /\ c.page = 1)

LEMMA PatchKeepsList ==
    ASSUME NEW u \in Controls, NEW c \in Controls, NEW after \in Controls, SameList(u, c)
    PROVE  SameList(Patched(u, c, after), after)
<1>1. DOMAIN Patched(u, c, after) = DOMAIN u /\ DOMAIN u = {"tab", "filter", "search", "page"}
  BY PatchedTyped, ControlsDomain
<1>2. ASSUME NEW key \in DOMAIN u
      PROVE  Patched(u, c, after)[key] = after[key] \/ (key = "page" /\ after.page = 1)
  <2>1. Patched(u, c, after)[key] = IF after[key] # c[key] THEN after[key] ELSE u[key]
    BY PatchedTyped
  <2>2. u[key] = c[key] \/ (key = "page" /\ c.page = 1)
    BY DEF SameList
  <2>3. after.page = after["page"] /\ c.page = c["page"]
    OBVIOUS
  <2> QED
    BY <2>1, <2>2, <2>3
<1> QED
  BY <1>1, <1>2 DEF SameList

\* A link's keys that differ from the URL's are taken over, the others are
\* what the controls say already.
LEMMA LinkKeepsList ==
    ASSUME NEW u \in Controls, NEW c \in Controls, NEW query \in Controls, SameList(u, c)
    PROVE  LET after == Restarted(c, Patched(c, u, query))
           IN /\ after \in Controls
              /\ Patched(query, c, after) \in Controls
              /\ SameList(Patched(query, c, after), after)
<1> DEFINE followed == Patched(c, u, query)
           after == Restarted(c, followed)
           left == Patched(query, c, after)
<1>1. followed \in Controls /\ DOMAIN c = {"tab", "filter", "search", "page"}
  BY PatchedTyped, ControlsDomain
<1>2. \A key \in DOMAIN c : followed[key] = IF query[key] # u[key] THEN query[key] ELSE c[key]
  BY PatchedTyped
<1> HIDE DEF followed
<1>3. /\ after \in Controls
      /\ \A key \in {"tab", "filter", "search"} : after[key] = followed[key]
      /\ after.page = 1 \/ after = followed
  BY <1>1, RestartedTyped
<1> HIDE DEF after
<1>4. /\ left \in Controls
      /\ \A key \in DOMAIN query : left[key] = IF after[key] # c[key] THEN after[key] ELSE query[key]
  BY <1>3, PatchedTyped
<1>5. DOMAIN left = DOMAIN c /\ DOMAIN query = DOMAIN c /\ DOMAIN u = DOMAIN c
  BY <1>1, <1>4, ControlsDomain
<1> HIDE DEF left
<1>6. ASSUME NEW key \in DOMAIN c
      PROVE  left[key] = after[key] \/ (key = "page" /\ after.page = 1)
  <2>1. u[key] = c[key] \/ (key = "page" /\ c.page = 1)
    BY <1>5 DEF SameList
  <2>2. after.page = after["page"] /\ c.page = c["page"]
    OBVIOUS
  <2>3. after[key] = followed[key] \/ (key = "page" /\ after.page = 1)
    BY <1>1, <1>3
  <2>4. left[key] = IF after[key] # c[key] THEN after[key] ELSE query[key]
    BY <1>4, <1>5
  <2>5. followed[key] = IF query[key] # u[key] THEN query[key] ELSE c[key]
    BY <1>2
  <2> QED
    BY <2>1, <2>2, <2>3, <2>4, <2>5
<1> QED
  BY <1>3, <1>4, <1>5, <1>6 DEF SameList, followed, after, left

ListInv == ListTypeOK /\ SameList(url, controls)

LEMMA ListFacts ==
    ASSUME ListTypeOK
    PROVE  /\ url \in Controls /\ controls \in Controls
           /\ sentSearch \in Searches \cup {None}
           /\ controls.search \in Searches \cup {None} /\ controls.page \in Pages
           /\ CurrentQuery \in Query
<1>1. /\ url \in Controls /\ controls \in Controls
      /\ sentSearch \in Searches \cup {None}
  BY DEF ListTypeOK
<1>2. CurrentQuery \in Query
  BY <1>1, QueryTyped DEF CurrentQuery
<1> QED
  BY <1>1, <1>2 DEF Controls

LEMMA AskTyped ==
    ASSUME ListTypeOK, NEW c \in Controls, NEW sent \in Searches \cup {None}, AskWhenChanged(c, sent)
    PROVE  asked' \in Query \cup {Nothing}
  BY QueryTyped DEF AskWhenChanged, ListTypeOK

LEMMA ListInvInit == ListInit => ListInv
<1> SUFFICES ASSUME ListInit PROVE ListInv
  OBVIOUS
<1>1. ListTypeOK
  BY PlainTyped, ListingAssumption DEF ListInit, ListTypeOK
<1>2. SameList(url, controls)
  BY DEF ListInit, SameList
<1> QED
  BY <1>1, <1>2 DEF ListInv

\* The user's change, and the watches that follow it.
LEMMA ChangeStep ==
    ASSUME ListInv, NEW after \in Controls, Change(after)
    PROVE  ListInv' /\ UNCHANGED shown
<1> DEFINE c == Restarted(controls, after)
<1>1. url \in Controls /\ controls \in Controls /\ sentSearch \in Searches \cup {None}
  BY ListFacts DEF ListInv
<1>2. c \in Controls
  BY <1>1, RestartedTyped
<1> HIDE DEF c
<1>3. SetControls(c) /\ at = "alerts" /\ UNCHANGED shown
  BY DEF Change, c
<1>4. /\ controls' = c /\ url' = Patched(url, controls, c)
      /\ typing' = (typing \/ c.search # controls.search)
      /\ AskWhenChanged(c, sentSearch)
      /\ UNCHANGED <<at, session, sentSearch, visible>>
  BY <1>3 DEF SetControls
<1>5. asked' \in Query \cup {Nothing}
  BY <1>1, <1>2, <1>4, AskTyped DEF ListInv
<1>6. url' \in Controls /\ controls' \in Controls /\ SameList(url', controls')
  BY <1>1, <1>2, <1>4, PatchedTyped, PatchKeepsList DEF ListInv
<1>7. typing' \in BOOLEAN
  BY <1>4 DEF ListInv, ListTypeOK
<1>8. ~typing' => sentSearch = c.search
  BY <1>3, <1>4 DEF ListInv, ListTypeOK
<1>9. ListTypeOK'
  BY <1>3, <1>4, <1>5, <1>6, <1>7, <1>8 DEF ListInv, ListTypeOK
<1> QED
  BY <1>3, <1>6, <1>9 DEF ListInv, SameList

LEMMA NavigateStep ==
    ASSUME ListInv, NEW query \in Controls, Navigate(query)
    PROVE  ListInv' /\ UNCHANGED shown
<1> DEFINE c == Restarted(controls, Patched(controls, url, query))
<1>1. url \in Controls /\ controls \in Controls /\ sentSearch \in Searches \cup {None}
  BY ListFacts DEF ListInv
<1>2. /\ c \in Controls
      /\ Patched(query, controls, c) \in Controls
      /\ SameList(Patched(query, controls, c), c)
  BY <1>1, LinkKeepsList DEF ListInv
<1>3. /\ at = "alerts"
      /\ controls' = c /\ url' = Patched(query, controls, c)
      /\ typing' = (typing \/ c.search # controls.search)
      /\ AskWhenChanged(c, sentSearch)
      /\ UNCHANGED <<at, session, sentSearch, shown, visible>>
  BY DEF Navigate
<1> HIDE DEF c
<1>4. asked' \in Query \cup {Nothing}
  BY <1>1, <1>2, <1>3, AskTyped DEF ListInv
<1>5. url' \in Controls /\ controls' \in Controls /\ SameList(url', controls')
  BY <1>2, <1>3
<1>6. typing' \in BOOLEAN
  BY <1>3 DEF ListInv, ListTypeOK
<1>7. ~typing' => sentSearch = c.search
  BY <1>3 DEF ListInv, ListTypeOK
<1>8. ListTypeOK'
  BY <1>3, <1>4, <1>5, <1>6, <1>7 DEF ListInv, ListTypeOK
<1> QED
  BY <1>3, <1>5, <1>8 DEF ListInv, SameList

\* The page begins, or is gone.
LEMMA PageStep ==
    ASSUME ListInv, NEW query \in Controls, Mounted(query) \/ AtLogin(query),
           session' \in BOOLEAN, UNCHANGED visible
    PROVE  ListInv' /\ shown' = Nothing
<1>1. query.search \in Searches \cup {None}
  BY DEF Controls
<1>2. CASE Mounted(query)
  <2>1. QueryOf(query, query.search) \in Query
    BY <1>1, QueryTyped
  <2>2. ListTypeOK'
    BY <1>1, <1>2, <2>1 DEF Mounted, ListInv, ListTypeOK
  <2>3. SameList(url, controls)'
    BY <1>2 DEF Mounted, SameList
  <2> QED
    BY <1>2, <2>2, <2>3 DEF Mounted, ListInv
<1>3. CASE AtLogin(query)
  <2>1. ListTypeOK'
    BY <1>3 DEF AtLogin, ListInv, ListTypeOK
  <2>2. SameList(url, controls)'
    BY <1>3 DEF AtLogin, SameList
  <2> QED
    BY <1>3, <2>1, <2>2 DEF AtLogin, ListInv
<1> QED
  BY <1>2, <1>3

LEMMA SearchPauseStep ==
    ASSUME ListInv, SearchPause
    PROVE  ListInv' /\ UNCHANGED shown
<1> DEFINE c == IF controls.search # sentSearch THEN [controls EXCEPT !.page = 1] ELSE controls
<1>1. /\ url \in Controls /\ controls \in Controls /\ controls.search \in Searches \cup {None}
      /\ 1 \in Pages
  BY ListFacts, ListingAssumption DEF ListInv, Pages
<1>2. c \in Controls /\ c.search = controls.search
  BY <1>1, PageChanged DEF Controls
<1>3. /\ typing' = FALSE /\ typing
      /\ sentSearch' = controls.search
      /\ controls' = c /\ url' = Patched(url, controls, c)
      /\ asked' = IF QueryOf(c, controls.search) # CurrentQuery
                  THEN QueryOf(c, controls.search) ELSE asked
      /\ UNCHANGED <<at, session, shown, visible>>
  BY DEF SearchPause, AskWhenChanged
<1> HIDE DEF c
<1>4. asked' \in Query \cup {Nothing}
  BY <1>1, <1>2, <1>3, QueryTyped DEF ListInv, ListTypeOK
<1>5. url' \in Controls /\ controls' \in Controls /\ SameList(url', controls')
  BY <1>1, <1>2, <1>3, PatchedTyped, PatchKeepsList DEF ListInv
<1>6. ListTypeOK'
  BY <1>1, <1>2, <1>3, <1>4, <1>5 DEF ListInv, ListTypeOK
<1> QED
  BY <1>3, <1>5, <1>6 DEF ListInv, SameList

\* The page that is left is there, or was past the end before.
LEMMA AnswerStep ==
    ASSUME ListInv, NEW count \in Pages, Answer(count)
    PROVE  /\ ListInv'
           /\ shown # Nothing /\ controls.page <= shown.count => controls'.page <= shown'.count
<1> DEFINE past == count # PageCount(shown) /\ controls.page > count
           c == IF past THEN [controls EXCEPT !.page = count] ELSE controls
<1>1. /\ url \in Controls /\ controls \in Controls
      /\ sentSearch \in Searches \cup {None} /\ controls.page \in Pages
  BY ListFacts DEF ListInv
<1>2. /\ c \in Controls /\ c.search = controls.search
      /\ c.page = IF past THEN count ELSE controls.page
  BY <1>1, PageChanged DEF Controls
<1>3. /\ asked # Nothing
      /\ shown' = [query |-> asked, count |-> count]
      /\ controls' = c /\ url' = Patched(url, controls, c)
      /\ asked' = IF past THEN QueryOf(c, sentSearch) ELSE Nothing
      /\ UNCHANGED <<at, session, sentSearch, typing, visible>>
  BY DEF Answer
<1>4. QueryOf(c, sentSearch) \in Query
  BY <1>1, <1>2, QueryTyped
<1>5. shown' \in AlertPage /\ shown'.count = count
  BY <1>3 DEF AlertPage, ListInv, ListTypeOK
<1>6. ASSUME shown # Nothing, controls.page <= shown.count PROVE c.page <= count
  <2>1. /\ shown.count \in Nat /\ count \in Nat /\ controls.page \in Nat
        /\ PageCount(shown) = shown.count
    BY <1>1, <1>6 DEF PageCount, AlertPage, Pages, ListInv, ListTypeOK
  <2> QED
    BY <1>2, <1>6, <2>1
<1> HIDE DEF c, past
<1>7. url' \in Controls /\ controls' \in Controls /\ SameList(url', controls')
  BY <1>1, <1>2, <1>3, PatchedTyped, PatchKeepsList DEF ListInv
<1>8. at = "alerts"
  BY <1>3 DEF ListInv, ListTypeOK
<1>9. ListTypeOK'
  BY <1>2, <1>3, <1>4, <1>5, <1>7, <1>8 DEF ListInv, ListTypeOK
<1> QED
  BY <1>3, <1>5, <1>6, <1>7, <1>9 DEF ListInv, SameList

\* A step asks for what the controls say, or for nothing any more, or moves
\* neither controls nor requests.
LEMMA AskStep ==
    ASSUME ListInv, UNCHANGED <<at, url, controls, sentSearch, typing, shown>>,
           asked' = asked \/ asked' = Nothing \/ (at = "alerts" /\ asked' = CurrentQuery),
           session' \in BOOLEAN, visible' \in BOOLEAN
    PROVE  ListInv'
<1>1. asked' \in Query \cup {Nothing} /\ (at = "login" => asked' = Nothing)
  BY ListFacts DEF ListInv, ListTypeOK
<1>2. ListTypeOK'
  BY <1>1 DEF ListInv, ListTypeOK
<1>3. SameList(url, controls)'
  BY DEF ListInv, SameList
<1> QED
  BY <1>2, <1>3 DEF ListInv

\* What a step leaves of the pages that are there.
PageStays ==
    shown # Nothing /\ controls.page <= shown.count /\ shown' # Nothing
        /\ shown' # shown => controls'.page <= shown'.count

LEMMA UserChange ==
    ASSUME ListInv
    PROVE  /\ \A tab \in Tabs : ChangeTab(tab) => ListInv' /\ PageStays
           /\ \A filter \in Filters \cup {None} : ChangeFilter(filter) => ListInv' /\ PageStays
           /\ \A search \in Searches \cup {None} : Type(search) => ListInv' /\ PageStays
           /\ \A p \in Pages : ChangePage(p) => ListInv' /\ PageStays
           /\ ClearFilters => ListInv' /\ PageStays
<1>1. controls \in Controls
  BY ListFacts DEF ListInv
<1>a. 1 \in Pages
  BY ListingAssumption DEF Pages
<1>2. ASSUME NEW after \in Controls, Change(after) PROVE ListInv' /\ PageStays
  BY <1>2, ChangeStep DEF PageStays
<1>3. /\ \A tab \in Tabs : [controls EXCEPT !.tab = tab] \in Controls
      /\ \A filter \in Filters \cup {None} : [controls EXCEPT !.filter = filter] \in Controls
      /\ \A search \in Searches \cup {None} : [controls EXCEPT !.search = search] \in Controls
      /\ \A p \in Pages : [controls EXCEPT !.page = p] \in Controls
      /\ [controls EXCEPT !.filter = None, !.search = None, !.page = 1] \in Controls
  BY <1>1, <1>a DEF Controls
<1> QED
  BY <1>2, <1>3 DEF ChangeTab, ChangeFilter, Type, ChangePage, ClearFilters

LEMMA ListStep == ListInv /\ [ListNext]_listVars => ListInv' /\ PageStays
<1> SUFFICES ASSUME ListInv, [ListNext]_listVars PROVE ListInv' /\ PageStays
  OBVIOUS
<1>0. /\ url \in Controls /\ Links \subseteq Controls /\ Plain \in Controls
      /\ session \in BOOLEAN /\ visible \in BOOLEAN
  BY ListFacts, PlainTyped, ListingAssumption DEF ListInv, ListTypeOK
<1>1. CASE \/ \E tab \in Tabs : ChangeTab(tab)
           \/ \E filter \in Filters \cup {None} : ChangeFilter(filter)
           \/ \E search \in Searches \cup {None} : Type(search)
           \/ ClearFilters
           \/ \E p \in Pages : ChangePage(p)
  BY <1>1, UserChange
<1>2. ASSUME NEW query \in Links, Navigate(query)
      PROVE  ListInv' /\ PageStays
  BY <1>0, <1>2, NavigateStep DEF PageStays
<1>3. ASSUME NEW query \in Links, Open(query)
      PROVE  ListInv' /\ PageStays
  BY <1>0, <1>3, PageStep DEF Open, PageStays
<1>4. CASE SignIn \/ SignOut \/ Unauthorized
  BY <1>0, <1>4, PageStep DEF SignIn, SignOut, Unauthorized, PageStays
<1>5. CASE ActionDone \/ Hide \/ Show \/ Poll \/ NotAnswered \/ Expire \/ UNCHANGED listVars
  <2>1. /\ UNCHANGED <<at, url, controls, sentSearch, typing, shown>>
        /\ asked' = asked \/ asked' = Nothing \/ (at = "alerts" /\ asked' = CurrentQuery)
        /\ session' \in BOOLEAN /\ visible' \in BOOLEAN
    BY <1>0, <1>5 DEF ActionDone, Hide, Show, Poll, NotAnswered, Expire, listVars
  <2> QED
    BY <2>1, AskStep DEF PageStays
<1>6. CASE SearchPause
  BY <1>6, SearchPauseStep DEF PageStays
<1>7. ASSUME NEW count \in Pages, Answer(count)
      PROVE  ListInv' /\ PageStays
  BY <1>7, AnswerStep DEF PageStays
<1> QED
  BY <1>1, <1>2, <1>3, <1>4, <1>5, <1>6, <1>7 DEF ListNext, UserStep, Answered

LEMMA ListInvariant == ListSpec => []ListInv
  BY ListInvInit, ListStep, PTL DEF ListSpec

\* The page's state keeps its shape, also across the sign-in page, and a
\* search that differs from the one sent always has its timer running.
THEOREM ListTypeCorrect == ListSpec => []ListTypeOK
<1>1. ListInv => ListTypeOK
  BY DEF ListInv
<1> QED
  BY <1>1, ListInvariant, PTL

\* "Tab, filters, search and page live in the URL": whatever order of changes,
\* links, answers and timers led there, the URL says what the controls say.
THEOREM UrlFollowsControls == ListSpec => []UrlKeepsTheList
<1>1. ListInv => UrlKeepsTheList
  BY DEF ListInv, SameList, UrlKeepsTheList
<1> QED
  BY <1>1, ListInvariant, PTL

\* No answer leaves a page past the end that was there before it: only a count
\* that changes can put one there, and that is what AlertList's watch is on.
THEOREM AnswersKeepPage == ListSpec => AnswerKeepsPageThere
<1>1. ListInv /\ [ListNext]_listVars =>
          [shown # Nothing /\ controls.page <= shown.count /\ shown' # Nothing
           /\ shown' # shown => controls'.page <= shown'.count]_listVars
  BY ListStep DEF PageStays
<1> QED
  BY <1>1, ListInvariant, PTL DEF ListSpec, AnswerKeepsPageThere
=============================================================================
