--------------------------- MODULE HostDownProofs ---------------------------
(***************************************************************************)
(* Theorems about HostDown, for every value of its constants.              *)
(***************************************************************************)
EXTENDS HostDown, TLAPS

LEMMA DownAfterType ==
    ASSUME NEW t \in Targets
    PROVE  DownAfter(t) \in Nat
<1>1. LongestInterval[t] \in Nat /\ MissedIntervals \in Nat /\ MinDownAfter \in Nat
  BY HostDownAssumption
<1>2. MissedIntervals * LongestInterval[t] \in Nat
  BY <1>1
<1> QED
  BY <1>1, <1>2 DEF DownAfter

LEMMA TypeInit == Init => TypeOK
  BY HostDownAssumption DEF Init, TypeOK, TargetsTyped, RequestsTyped, RunsTyped, HistoryTyped

-----------------------------------------------------------------------------
(* How the control part of a step keeps requests and runs typed. *)

LEMMA RequestsKept ==
    ASSUME RequestsTyped, TargetsTyped, now' \in Int, now' >= now, UNCHANGED <<pc, request>>
    PROVE  RequestsTyped'
  BY DEF RequestsTyped, TargetsTyped, Request

LEMMA RunsKept ==
    ASSUME RunsTyped, TargetsTyped, now' \in Int, now' >= now, UNCHANGED <<jobPc, job>>
    PROVE  RunsTyped'
  BY DEF RunsTyped, TargetsTyped, Job

LEMMA RequestFinished ==
    ASSUME RequestsTyped, NEW h \in Handlers, Finish(h), UNCHANGED now
    PROVE  RequestsTyped'
  BY DEF RequestsTyped, Finish

LEMMA RequestMoved ==
    ASSUME RequestsTyped, NEW h \in Handlers, NEW r \in Request, r.at <= now,
           NEW step \in {"seen", "find", "resolve"},
           pc' = [pc EXCEPT ![h] = step], request' = [request EXCEPT ![h] = r],
           UNCHANGED now
    PROVE  RequestsTyped'
  BY DEF RequestsTyped

LEMMA RunFinished ==
    ASSUME RunsTyped, NEW j \in Jobs, JobFinish(j), UNCHANGED now
    PROVE  RunsTyped'
  BY DEF RunsTyped, JobFinish

LEMMA RunMoved ==
    ASSUME RunsTyped, NEW j \in Jobs, NEW r \in Job, r.now <= now,
           \A t \in r.todo : r.seen[t] \in 0..r.now,
           NEW step \in {"next", "find", "create"},
           step \in {"find", "create"} => r.target \in Targets,
           jobPc' = [jobPc EXCEPT ![j] = step], job' = [job EXCEPT ![j] = r],
           UNCHANGED now
    PROVE  RunsTyped'
<1>1. jobPc' \in [Jobs -> {"idle", "next", "find", "create"}] /\ job' \in [Jobs -> Job \cup {NoJob}]
  BY DEF RunsTyped
<1>2. /\ jobPc'[j] = step /\ job'[j] = r
      /\ \A k \in Jobs \ {j} : jobPc'[k] = jobPc[k] /\ job'[k] = job[k]
  BY DEF RunsTyped
<1> QED
  BY <1>1, <1>2 DEF RunsTyped

-----------------------------------------------------------------------------
(* Every step keeps the types. *)

LEMMA HeardTyped ==
    ASSUME HistoryTyped, NEW t \in Targets, NEW at \in 0..MaxNow, Hears(t, at), UNCHANGED unalerted
    PROVE  HistoryTyped'
  BY DEF HistoryTyped, Hears

LEMMA HistoryStep == TypeOK /\ [Next]_vars => HistoryTyped'
<1> SUFFICES ASSUME TypeOK, [Next]_vars PROVE HistoryTyped'
  OBVIOUS
<1>0. TargetsTyped /\ RequestsTyped /\ RunsTyped /\ HistoryTyped
  BY DEF TypeOK
<1>1. ASSUME NEW h \in Handlers, MarkUp(h) PROVE HistoryTyped'
  <2>1. request[h].target \in Targets /\ request[h].at \in 0..MaxNow
    BY <1>0, <1>1 DEF MarkUp, RequestsTyped, Request
  <2> QED
    BY <1>0, <1>1, <2>1, HeardTyped DEF MarkUp
<1>2. ASSUME NEW t \in Targets, Enroll(t) PROVE HistoryTyped'
  BY <1>0, <1>2, HeardTyped DEF Enroll, TargetsTyped
<1>3. ASSUME NEW j \in Jobs, JobMark(j) PROVE HistoryTyped'
  <2>1. UNCHANGED heard /\ unalerted' \subseteq unalerted
    BY <1>3 DEF JobMark
  <2> QED
    BY <1>0, <2>1 DEF HistoryTyped
<1>4. ASSUME NEW j \in Jobs, JobFail(j) PROVE HistoryTyped'
  <2>1. jobPc[j] \in {"find", "create"} => job[j].target \in Targets
    BY <1>0 DEF RunsTyped
  <2>2. UNCHANGED heard /\ unalerted' \subseteq Targets
    BY <1>0, <1>4, <2>1 DEF JobFail, HistoryTyped, RunsTyped, target
  <2> QED
    BY <1>0, <2>2 DEF HistoryTyped
<1>5. CASE UNCHANGED <<heard, unalerted>>
  BY <1>0, <1>5 DEF HistoryTyped
<1> QED
  BY <1>1, <1>2, <1>3, <1>4, <1>5
     DEF Next, RequestStep, JobStep, Tick, Submit, FindHostDown, ResolveHostDown, RequestFail,
         JobStart, JobSkip, JobFind, JobCreate, JobEnd, HandResolve, target, vars

LEMMA TypeStep == TypeOK /\ [Next]_vars => TypeOK'
<1> SUFFICES ASSUME TypeOK, [Next]_vars, HistoryTyped' PROVE TypeOK'
  BY HistoryStep
<1>0. /\ TargetsTyped /\ RequestsTyped /\ RunsTyped /\ failures \in 0..MaxFailures
      /\ MaxNow \in Nat /\ MaxFailures \in Nat
  BY HostDownAssumption DEF TypeOK
<1>1. now \in 0..MaxNow
  BY <1>0 DEF TargetsTyped
<1>2. CASE Tick
  <2>1. now' \in 0..MaxNow /\ now' >= now
    BY <1>0, <1>1, <1>2 DEF Tick
  <2>2. TargetsTyped'
    BY <1>0, <1>1, <1>2, <2>1 DEF Tick, TargetsTyped, target
  <2>3. RequestsTyped' /\ RunsTyped'
    BY <1>0, <1>2, <2>1, RequestsKept, RunsKept DEF Tick
  <2> QED
    BY <1>0, <1>2, <2>2, <2>3 DEF Tick, TypeOK
<1>3. ASSUME NEW h \in Handlers, NEW t \in Targets, Submit(h, t)
      PROVE  TypeOK'
  <2>1. PICK at \in 0..now :
            request' = [request EXCEPT ![h] = [target |-> t, at |-> at, found |-> NoAlert]]
    BY <1>3 DEF Submit
  <2>2. [target |-> t, at |-> at, found |-> NoAlert] \in Request /\ at <= now
    BY <1>0, <1>1 DEF Request
  <2>3. RequestsTyped'
    BY <1>0, <1>3, <2>1, <2>2, RequestMoved DEF Submit
  <2>4. TargetsTyped' /\ RunsTyped'
    BY <1>0, <1>1, <1>3, RunsKept DEF Submit, TargetsTyped, target
  <2> QED
    BY <1>0, <1>3, <2>3, <2>4 DEF Submit, TypeOK
<1>4. ASSUME NEW h \in Handlers, MarkUp(h)
      PROVE  TypeOK'
  <2>1. request[h] \in Request /\ request[h].at <= now
    BY <1>0, <1>4 DEF MarkUp, RequestsTyped
  <2>2. request[h].target \in Targets /\ request[h].at \in 0..now
    BY <1>0, <1>1, <2>1 DEF Request
  <2>3. request' = [request EXCEPT ![h] = request[h]]
    BY <1>0, <1>4 DEF MarkUp, RequestsTyped
  <2>4. RequestsTyped'
    BY <1>0, <1>4, <2>1, <2>3, RequestMoved DEF MarkUp
  <2>5. TargetsTyped'
    BY <1>0, <1>1, <1>4, <2>2 DEF MarkUp, TargetsTyped
  <2>6. RunsTyped'
    BY <1>0, <1>1, <1>4, RunsKept DEF MarkUp
  <2> QED
    BY <1>0, <1>4, <2>4, <2>5, <2>6 DEF MarkUp, TypeOK
<1>5. ASSUME NEW h \in Handlers, FindHostDown(h)
      PROVE  TypeOK'
  <2>1. request[h] \in Request /\ request[h].at <= now
    BY <1>0, <1>5 DEF FindHostDown, RequestsTyped
  <2>2. RequestsTyped'
    <3>1. CASE Finish(h)
      BY <1>0, <1>5, <3>1, RequestFinished DEF FindHostDown
    <3>2. CASE ~Finish(h)
      <4>1. PICK a \in hostDown[request[h].target] :
                request' = [request EXCEPT ![h].found = a]
        BY <1>5, <3>2 DEF FindHostDown
      <4>2. a \in AlertIds
        BY <1>0, <2>1, <4>1 DEF TargetsTyped, Request
      <4>3. [request[h] EXCEPT !.found = a] \in Request /\ [request[h] EXCEPT !.found = a].at <= now
        BY <2>1, <4>2 DEF Request
      <4>4. request' = [request EXCEPT ![h] = [request[h] EXCEPT !.found = a]]
        BY <4>1
      <4> QED
        BY <1>0, <1>5, <3>2, <4>3, <4>4, RequestMoved DEF FindHostDown
    <3> QED
      BY <3>1, <3>2
  <2>3. TargetsTyped' /\ RunsTyped'
    BY <1>0, <1>1, <1>5, RunsKept DEF FindHostDown, TargetsTyped, target
  <2> QED
    BY <1>0, <1>5, <2>2, <2>3 DEF FindHostDown, TypeOK
<1>6. ASSUME NEW h \in Handlers, ResolveHostDown(h)
      PROVE  TypeOK'
  <2>1. TargetsTyped'
    BY <1>0, <1>6 DEF ResolveHostDown, TargetsTyped, target
  <2>2. RequestsTyped' /\ RunsTyped'
    BY <1>0, <1>1, <1>6, RequestFinished, RunsKept DEF ResolveHostDown
  <2> QED
    BY <1>0, <1>6, <2>1, <2>2 DEF ResolveHostDown, TypeOK
<1>7. ASSUME NEW h \in Handlers, RequestFail(h)
      PROVE  TypeOK'
  <2>1. RequestsTyped' /\ RunsTyped'
    BY <1>0, <1>1, <1>7, RequestFinished, RunsKept DEF RequestFail
  <2> QED
    BY <1>0, <1>7, <2>1 DEF RequestFail, TypeOK, TargetsTyped, target
<1>8. ASSUME NEW j \in Jobs, JobStart(j)
      PROVE  TypeOK'
  <2> DEFINE r == [now |-> now, target |-> NoTarget, todo |-> Candidates, seen |-> lastSeen]
  <2>1. Candidates \subseteq Targets
    BY DEF Candidates
  <2>2. r \in Job /\ \A t \in r.todo : r.seen[t] \in 0..r.now
    BY <1>0, <1>1, <2>1 DEF Job, TargetsTyped, Candidates
  <2>3. r.now <= now
    BY <1>0, <1>1
  <2>4. RunsTyped'
    BY <1>0, <1>8, <2>2, <2>3, RunMoved DEF JobStart
  <2>5. TargetsTyped' /\ RequestsTyped'
    BY <1>0, <1>1, <1>8, RequestsKept DEF JobStart, TargetsTyped, target
  <2> QED
    BY <1>0, <1>8, <2>4, <2>5 DEF JobStart, TypeOK
<1>9. ASSUME NEW j \in Jobs, JobSkip(j) \/ JobMark(j)
      PROVE  TypeOK'
  <2>1. /\ job[j] \in Job /\ job[j].now <= now /\ jobPc[j] = "next"
        /\ \A t \in job[j].todo : job[j].seen[t] \in 0..job[j].now
    BY <1>0, <1>9 DEF JobSkip, JobMark, RunsTyped
  <2>2. UNCHANGED <<now, lastSeen, hostDown, pc, request, failures>>
    BY <1>9 DEF JobSkip, JobMark, target
  <2>3. RequestsTyped'
    BY <1>0, <1>1, <2>2, RequestsKept
  <2>4. ASSUME NEW t \in job[j].todo, NEW T \in {job[j].target, t}
        PROVE  LET r == [job[j] EXCEPT !.todo = @ \ {t}, !.target = T]
               IN  /\ r \in Job /\ r.now <= now /\ r.target = T
                   /\ \A x \in r.todo : r.seen[x] \in 0..r.now
    BY <2>1 DEF Job
  <2>5. RunsTyped' /\ TargetsTyped'
    <3>1. CASE \E t \in job[j].todo : job' = [job EXCEPT ![j].todo = @ \ {t}] /\ UNCHANGED <<status, jobPc>>
      <4>1. PICK t \in job[j].todo : job' = [job EXCEPT ![j].todo = @ \ {t}] /\ UNCHANGED <<status, jobPc>>
        BY <3>1
      <4> DEFINE r == [job[j] EXCEPT !.todo = @ \ {t}, !.target = job[j].target]
      <4>2. job' = [job EXCEPT ![j] = r] /\ jobPc' = [jobPc EXCEPT ![j] = "next"]
        BY <1>0, <2>1, <4>1 DEF RunsTyped, Job
      <4>3. /\ r \in Job /\ r.now <= now
            /\ \A x \in r.todo : r.seen[x] \in 0..r.now
        BY <2>4
      <4>4. RunsTyped'
        BY <1>0, <2>2, <4>2, <4>3, RunMoved
      <4> QED
        BY <1>0, <2>2, <4>1, <4>4 DEF TargetsTyped
    <3>2. CASE \E t \in job[j].todo :
                  /\ status[t] = "up"
                  /\ status' = [status EXCEPT ![t] = "down"]
                  /\ jobPc' = [jobPc EXCEPT ![j] = "find"]
                  /\ job' = [job EXCEPT ![j].todo = @ \ {t}, ![j].target = t]
      <4>1. PICK t \in job[j].todo :
                  /\ status[t] = "up"
                  /\ status' = [status EXCEPT ![t] = "down"]
                  /\ jobPc' = [jobPc EXCEPT ![j] = "find"]
                  /\ job' = [job EXCEPT ![j].todo = @ \ {t}, ![j].target = t]
        BY <3>2
      <4> DEFINE r == [job[j] EXCEPT !.todo = @ \ {t}, !.target = t]
      <4>2. job' = [job EXCEPT ![j] = r]
        BY <1>0, <2>1, <4>1 DEF RunsTyped, Job
      <4>3. /\ r \in Job /\ r.now <= now /\ r.target = t
            /\ \A x \in r.todo : r.seen[x] \in 0..r.now
        BY <2>4
      <4>4. t \in Targets
        BY <2>1 DEF Job
      <4>5. RunsTyped'
        BY <1>0, <2>2, <4>1, <4>2, <4>3, <4>4, RunMoved
      <4>6. TargetsTyped'
        BY <1>0, <2>2, <4>1, <4>4 DEF TargetsTyped
      <4> QED
        BY <4>5, <4>6
    <3> QED
      BY <1>9, <3>1, <3>2 DEF JobSkip, JobMark, target
  <2> QED
    BY <1>0, <2>2, <2>3, <2>5 DEF TypeOK
<1>10. ASSUME NEW j \in Jobs, JobFind(j)
       PROVE  TypeOK'
  <2>1. /\ job[j] \in Job /\ job[j].now <= now /\ job[j].target \in Targets
        /\ \A t \in job[j].todo : job[j].seen[t] \in 0..job[j].now
    BY <1>0, <1>10 DEF JobFind, RunsTyped
  <2>2. job' = [job EXCEPT ![j] = job[j]]
    BY <1>0, <1>10 DEF JobFind, RunsTyped
  <2>3. RunsTyped'
    BY <1>0, <1>10, <2>1, <2>2, RunMoved DEF JobFind
  <2>4. TargetsTyped' /\ RequestsTyped'
    BY <1>0, <1>1, <1>10, RequestsKept DEF JobFind, TargetsTyped, target
  <2> QED
    BY <1>0, <1>10, <2>3, <2>4 DEF JobFind, TypeOK
<1>11. ASSUME NEW j \in Jobs, JobCreate(j)
       PROVE  TypeOK'
  <2>1. /\ job[j] \in Job /\ job[j].now <= now /\ job[j].target \in Targets
        /\ \A t \in job[j].todo : job[j].seen[t] \in 0..job[j].now
    BY <1>0, <1>11 DEF JobCreate, RunsTyped
  <2>2. job' = [job EXCEPT ![j] = job[j]]
    BY <1>0, <1>11 DEF JobCreate, RunsTyped
  <2>3. RunsTyped'
    BY <1>0, <1>11, <2>1, <2>2, RunMoved DEF JobCreate
  <2>4. PICK a \in AlertIds :
            hostDown' = [hostDown EXCEPT ![job[j].target] = @ \cup {a}]
    <3>1. (CHOOSE a \in FreshIds : TRUE) \in FreshIds
      BY <1>11 DEF JobCreate
    <3> QED
      BY <1>11, <3>1 DEF JobCreate, FreshIds
  <2>5. TargetsTyped'
    BY <1>0, <1>11, <2>1, <2>4 DEF JobCreate, TargetsTyped, target
  <2>6. RequestsTyped'
    BY <1>0, <1>1, <1>11, RequestsKept DEF JobCreate
  <2> QED
    BY <1>0, <1>11, <2>3, <2>5, <2>6 DEF JobCreate, TypeOK
<1>12. ASSUME NEW j \in Jobs, JobEnd(j) \/ JobFail(j)
       PROVE  TypeOK'
  <2>1. RunsTyped' /\ RequestsTyped'
    BY <1>0, <1>1, <1>12, RunFinished, RequestsKept DEF JobEnd, JobFail
  <2>2. failures' \in 0..MaxFailures
    BY <1>0, <1>12 DEF JobEnd, JobFail
  <2> QED
    BY <1>0, <1>12, <2>1, <2>2 DEF JobEnd, JobFail, TypeOK, TargetsTyped, target
<1>13. ASSUME NEW t \in Targets, Enroll(t) \/ HandResolve(t)
       PROVE  TypeOK'
  <2>1. TargetsTyped'
    BY <1>0, <1>1, <1>13 DEF Enroll, HandResolve, TargetsTyped, target
  <2>2. RequestsTyped' /\ RunsTyped'
    BY <1>0, <1>1, <1>13, RequestsKept, RunsKept DEF Enroll, HandResolve
  <2> QED
    BY <1>0, <1>13, <2>1, <2>2 DEF Enroll, HandResolve, TypeOK
<1>14. CASE UNCHANGED vars
  BY <1>0, <1>1, <1>14, RequestsKept, RunsKept DEF vars, target, TypeOK, TargetsTyped
<1> QED
  BY <1>2, <1>3, <1>4, <1>5, <1>6, <1>7, <1>8, <1>9, <1>10, <1>11, <1>12, <1>13, <1>14
     DEF Next, RequestStep, JobStep

\* Type correctness, for any number of targets, readings in progress, runs and
\* failures: among the rest, a target that is up or down has been seen.
THEOREM TypeCorrect == Spec => []TypeOK
  BY TypeInit, TypeStep, PTL DEF Spec
-----------------------------------------------------------------------------
(* One open alert, when one run of the job is over before the next starts. *)

OneRun == \A i, j \in Jobs : i = j

LEMMA OneRunInit == Init => OneRunInv
  BY TypeInit DEF Init, OneRunInv, CreatesWhereNoneIsOpen, OneOpenHostDown

\* Closing alerts, or leaving them alone, disturbs nothing.
LEMMA AlertsOnlyClose ==
    ASSUME OneRunInv, \A t \in Targets : hostDown'[t] \subseteq hostDown[t],
           \A j \in Jobs : jobPc'[j] = "create" =>
              jobPc[j] = "create" /\ job'[j].target = job[j].target /\ job[j].target \in Targets
    PROVE  CreatesWhereNoneIsOpen' /\ OneOpenHostDown'
  BY DEF OneRunInv, CreatesWhereNoneIsOpen, OneOpenHostDown

LEMMA OneRunStep ==
    ASSUME OneRun
    PROVE  OneRunInv /\ [Next]_vars => OneRunInv'
<1> SUFFICES ASSUME OneRunInv, [Next]_vars PROVE OneRunInv'
  OBVIOUS
<1>0. /\ TypeOK /\ TypeOK' /\ TargetsTyped /\ RequestsTyped /\ RunsTyped
      /\ CreatesWhereNoneIsOpen /\ OneOpenHostDown
  BY TypeStep DEF OneRunInv, TypeOK
<1>1. SUFFICES CreatesWhereNoneIsOpen' /\ OneOpenHostDown'
  BY <1>0 DEF OneRunInv
<1>2. \A j \in Jobs : jobPc[j] = "create" => job[j].target \in Targets
  BY <1>0 DEF RunsTyped
<1>3. CASE \/ Tick \/ UNCHANGED vars
           \/ \E h \in Handlers, t \in Targets : Submit(h, t)
           \/ \E h \in Handlers : MarkUp(h) \/ FindHostDown(h) \/ RequestFail(h)
           \/ \E t \in Targets : Enroll(t)
  <2>1. UNCHANGED <<hostDown, jobPc, job>>
    BY <1>3 DEF Tick, Submit, MarkUp, FindHostDown, RequestFail, Enroll, vars, target
  <2> QED
    BY <1>0, <1>2, <2>1, AlertsOnlyClose
<1>4. CASE (\E h \in Handlers : ResolveHostDown(h)) \/ \E t \in Targets : HandResolve(t)
  <2>1. UNCHANGED <<jobPc, job>>
    BY <1>4 DEF ResolveHostDown, HandResolve
  <2>2. \A t \in Targets : hostDown'[t] \subseteq hostDown[t]
    BY <1>0, <1>4 DEF ResolveHostDown, HandResolve, TargetsTyped
  <2> QED
    BY <1>2, <2>1, <2>2, AlertsOnlyClose
<1>5. ASSUME NEW j \in Jobs,
             JobStart(j) \/ JobSkip(j) \/ JobMark(j) \/ JobEnd(j) \/ JobFail(j)
      PROVE  CreatesWhereNoneIsOpen' /\ OneOpenHostDown'
  <2>1. UNCHANGED hostDown
    BY <1>5 DEF JobStart, JobSkip, JobMark, JobEnd, JobFail, target
  <2>2. jobPc'[j] # "create"
    BY <1>0, <1>5 DEF JobStart, JobSkip, JobMark, JobEnd, JobFail, JobFinish, RunsTyped
  <2>3. \A k \in Jobs : k = j
    BY DEF OneRun
  <2> QED
    BY <2>1, <2>2, <2>3, AlertsOnlyClose
<1>6. ASSUME NEW j \in Jobs, JobFind(j)
      PROVE  CreatesWhereNoneIsOpen' /\ OneOpenHostDown'
  <2>1. jobPc'[j] = "create" => hostDown'[job'[j].target] = {}
    BY <1>0, <1>6 DEF JobFind, RunsTyped
  <2>2. \A k \in Jobs : k = j
    BY DEF OneRun
  <2> QED
    BY <1>0, <1>6, <2>1, <2>2 DEF JobFind, CreatesWhereNoneIsOpen, OneOpenHostDown
<1>7. ASSUME NEW j \in Jobs, JobCreate(j)
      PROVE  CreatesWhereNoneIsOpen' /\ OneOpenHostDown'
  <2>1. \A k \in Jobs : jobPc'[k] # "create"
    BY <1>0, <1>7 DEF JobCreate, OneRun, RunsTyped
  <2>2. PICK a : hostDown' = [hostDown EXCEPT ![job[j].target] = @ \cup {a}]
    BY <1>7 DEF JobCreate
  <2>3. hostDown[job[j].target] = {}
    BY <1>0, <1>7 DEF JobCreate, CreatesWhereNoneIsOpen
  <2>4. ASSUME NEW t \in Targets
        PROVE  hostDown'[t] = hostDown[t] \/ hostDown'[t] = {a}
    BY <1>0, <2>2, <2>3 DEF TargetsTyped
  <2>5. OneOpenHostDown'
    BY <1>0, <2>4 DEF OneOpenHostDown
  <2> QED
    BY <2>1, <2>5 DEF CreatesWhereNoneIsOpen
<1> QED
  BY <1>3, <1>4, <1>5, <1>6, <1>7 DEF Next, RequestStep, JobStep

\* "At most one open host-down alert per target", whatever readings,
\* enrollments, users and failures do, when runs of the job do not overlap.
THEOREM AtMostOneHostDown == OneRun => (Spec => []OneOpenHostDown)
<1> SUFFICES ASSUME OneRun PROVE Spec => []OneOpenHostDown
  OBVIOUS
<1>1. Init => OneRunInv
  BY OneRunInit
<1>2. OneRunInv /\ [Next]_vars => OneRunInv'
  BY OneRunStep
<1>3. OneRunInv => OneOpenHostDown
  BY DEF OneRunInv
<1> QED
  BY <1>1, <1>2, <1>3, PTL DEF Spec

-----------------------------------------------------------------------------
(* Only silent targets are marked down. *)

LEMMA MarkedWhenStale ==
    ASSUME TypeOK, [Next]_vars
    PROVE  \A t \in Targets : status[t] # "down" /\ status'[t] = "down" => Stale(t)
<1> SUFFICES ASSUME NEW t \in Targets, status[t] # "down", status'[t] = "down" PROVE Stale(t)
  OBVIOUS
<1>0. TargetsTyped /\ RequestsTyped /\ RunsTyped
  BY DEF TypeOK
<1>1. PICK j \in Jobs : JobMark(j)
  BY <1>0 DEF Next, Tick, Submit, RequestStep, MarkUp, FindHostDown, ResolveHostDown, RequestFail,
              JobStep, JobStart, JobSkip, JobFind, JobCreate, JobEnd, JobFail, Enroll, HandResolve,
              TargetsTyped, target, vars
<1>2. PICK x \in job[j].todo :
          /\ job[j].seen[x] < job[j].now - DownAfter(x)
          /\ IF status[x] = "up" /\ lastSeen[x] = job[j].seen[x]
             THEN status' = [status EXCEPT ![x] = "down"]
             ELSE UNCHANGED status
  BY <1>1 DEF JobMark
<1>3. x = t /\ lastSeen[t] = job[j].seen[t]
  BY <1>0, <1>2 DEF TargetsTyped
<1>4. /\ job[j].now \in Int /\ now \in Int /\ job[j].now <= now
      /\ lastSeen[t] \in Int /\ DownAfter(t) \in Nat
  <2>1. job[j] \in Job /\ job[j].now <= now /\ job[j].seen[t] \in 0..job[j].now
    BY <1>0, <1>1, <1>2, <1>3 DEF JobMark, RunsTyped
  <2> QED
    BY <1>0, <1>3, <2>1, DownAfterType, HostDownAssumption DEF Job, TargetsTyped
<1>5. lastSeen[t] < now - DownAfter(t)
  BY <1>2, <1>3, <1>4
<1> QED
  BY <1>4, <1>5, HostDownAssumption DEF Stale

\* A target is only ever marked down while nothing of its whole window has been
\* recorded for it, unless an older reading was the last to be recorded and set
\* last_seen_at back; then that reading's time is older than the window.  For
\* readings however late or overlapping, and for runs that overlap.
THEOREM MarkedDownOnlyWhenSilent == Spec => DownOnlyWhenSilent
<1>1. TypeOK /\ [Next]_vars =>
          [\A t \in Targets : status[t] # "down" /\ status'[t] = "down" =>
              IF SetBack(t) THEN Stale(t) ELSE Silent(t)]_vars
  BY MarkedWhenStale DEF SetBack, Stale, Silent
<1> QED
  BY <1>1, TypeCorrect, PTL DEF Spec, DownOnlyWhenSilent

\* The readings of a target come one at a time, and are recorded as soon as they
\* are taken; hosts do not enroll again.
InOrder == ~AllowLate /\ ~AllowOverlap /\ ~AllowEnroll

OnePerTarget ==
    \A g, h \in Handlers :
        pc[g] # "idle" /\ pc[h] # "idle" /\ request[g].target = request[h].target => g = h

\* A reading about to be recorded is not older than what was recorded before.
NewestNext ==
    \A h \in Handlers : pc[h] = "seen" =>
        LET t == request[h].target
        IN  lastSeen[t] # NeverSeen => lastSeen[t] <= request[h].at

NeverSetBack == \A t \in Targets : ~SetBack(t)

SeenWithinNow == \A t \in Targets : lastSeen[t] # NeverSeen => lastSeen[t] \in 0..now

InOrderInv == TypeOK /\ OnePerTarget /\ NewestNext /\ NeverSetBack /\ SeenWithinNow

LEMMA InOrderInit == Init => InOrderInv
  BY TypeInit, HostDownAssumption
     DEF Init, InOrderInv, OnePerTarget, NewestNext, NeverSetBack, SeenWithinNow, SetBack

LEMMA InOrderStep ==
    ASSUME InOrder
    PROVE  InOrderInv /\ [Next]_vars => InOrderInv'
<1> SUFFICES ASSUME InOrderInv, [Next]_vars PROVE InOrderInv'
  OBVIOUS
<1>0. /\ TypeOK /\ TypeOK' /\ TargetsTyped /\ RequestsTyped /\ HistoryTyped
      /\ OnePerTarget /\ NewestNext /\ NeverSetBack /\ SeenWithinNow
      /\ now \in Nat /\ NeverSeen \notin Int
  BY TypeStep, HostDownAssumption DEF InOrderInv, TypeOK, TargetsTyped
<1> SUFFICES OnePerTarget' /\ NewestNext' /\ NeverSetBack' /\ SeenWithinNow'
  BY <1>0 DEF InOrderInv
<1>1. ASSUME NEW h \in Handlers, NEW t \in Targets, Submit(h, t)
      PROVE  OnePerTarget' /\ NewestNext' /\ NeverSetBack' /\ SeenWithinNow'
  <2>1. PICK at \in 0..now :
           /\ at < now => AllowLate
           /\ request' = [request EXCEPT ![h] = [target |-> t, at |-> at, found |-> NoAlert]]
    BY <1>1 DEF Submit
  <2>2. at = now
    BY <1>0, <2>1 DEF InOrder
  <2>3. /\ pc' = [pc EXCEPT ![h] = "seen"] /\ UNCHANGED <<now, lastSeen, heard>>
        /\ \A g \in Handlers : pc[g] = "idle" \/ request[g].target # t
    BY <1>1 DEF Submit, InOrder, target
  <2>4. /\ pc'[h] = "seen" /\ request'[h].target = t /\ request'[h].at = now
        /\ \A g \in Handlers \ {h} : pc'[g] = pc[g] /\ request'[g] = request[g]
    BY <1>0, <2>1, <2>2, <2>3 DEF RequestsTyped
  <2>5. OnePerTarget'
    BY <1>0, <2>3, <2>4 DEF OnePerTarget
  <2>6. NewestNext'
    BY <1>0, <2>3, <2>4 DEF NewestNext, SeenWithinNow
  <2> QED
    BY <1>0, <2>3, <2>5, <2>6 DEF NeverSetBack, SeenWithinNow, SetBack
<1>2. ASSUME NEW h \in Handlers, MarkUp(h)
      PROVE  OnePerTarget' /\ NewestNext' /\ NeverSetBack' /\ SeenWithinNow'
  <2> DEFINE t == request[h].target
             at == request[h].at
  <2>1. /\ t \in Targets /\ at \in 0..now /\ pc[h] = "seen"
        /\ pc' = [pc EXCEPT ![h] = "find"] /\ UNCHANGED <<now, request>>
        /\ lastSeen' = [lastSeen EXCEPT ![t] = at]
        /\ Hears(t, at)
    BY <1>0, <1>2, HostDownAssumption DEF MarkUp, RequestsTyped, Request
  <2>2. lastSeen[t] # NeverSeen => lastSeen[t] <= at
    BY <1>0, <2>1 DEF NewestNext
  <2>3. \A g \in Handlers \ {h} : pc'[g] = pc[g] /\ (pc[g] = "seen" => request[g].target # t)
    BY <1>0, <2>1 DEF RequestsTyped, OnePerTarget
  <2>6. pc'[h] = "find"
    BY <1>0, <2>1 DEF RequestsTyped
  <2>7. \A g \in Handlers : pc'[g] = "seen" => request[g].target \in Targets
    BY <2>3, <2>6, <1>0 DEF RequestsTyped, Request
  <2> HIDE DEF t, at
  <2>4. /\ lastSeen'[t] = at /\ \A u \in Targets \ {t} : lastSeen'[u] = lastSeen[u]
        /\ \A u \in Targets \ {t} : heard'[u] = heard[u]
    BY <1>0, <2>1 DEF TargetsTyped, HistoryTyped, Hears
  <2>5. heard'[t] = at
    <3>1. heard[t] = lastSeen[t] /\ heard'[t] = IF heard[t] = NeverSeen \/ heard[t] < at THEN at ELSE heard[t]
      BY <1>0, <2>1 DEF HistoryTyped, Hears, NeverSetBack, SetBack
    <3>2. heard[t] # NeverSeen => heard[t] \in Int
      BY <1>0, <2>1, HostDownAssumption DEF HistoryTyped
    <3> QED
      BY <1>0, <2>1, <2>2, <3>1, <3>2
  <2>8. OnePerTarget'
    BY <1>0, <2>1, <2>3, <2>6 DEF OnePerTarget
  <2>9. NewestNext'
    BY <1>0, <2>1, <2>3, <2>4, <2>6, <2>7 DEF NewestNext
  <2>10. NeverSetBack'
    BY <1>0, <2>4, <2>5 DEF NeverSetBack, SetBack
  <2>11. SeenWithinNow'
    BY <1>0, <2>1, <2>4 DEF SeenWithinNow
  <2> QED
    BY <2>8, <2>9, <2>10, <2>11
<1>3. ASSUME UNCHANGED <<lastSeen, heard, now>>,
             \A g \in Handlers : \/ pc'[g] = "idle"
                                 \/ /\ pc'[g] = pc[g] \/ (pc[g] # "idle" /\ pc'[g] # "seen")
                                    /\ request'[g].target = request[g].target
                                    /\ request'[g].at = request[g].at
      PROVE  OnePerTarget' /\ NewestNext' /\ NeverSetBack' /\ SeenWithinNow'
  BY <1>0, <1>3 DEF OnePerTarget, NewestNext, NeverSetBack, SeenWithinNow, SetBack
<1>4. ASSUME NEW h \in Handlers, FindHostDown(h) \/ ResolveHostDown(h) \/ RequestFail(h)
      PROVE  OnePerTarget' /\ NewestNext' /\ NeverSetBack' /\ SeenWithinNow'
  <2>1. UNCHANGED <<lastSeen, heard, now>> /\ \A g \in Handlers \ {h} : pc'[g] = pc[g] /\ request'[g] = request[g]
    BY <1>0, <1>4 DEF FindHostDown, ResolveHostDown, RequestFail, Finish, RequestsTyped, target
  <2>2. \/ pc'[h] = "idle"
        \/ /\ pc[h] # "idle" /\ pc'[h] = "resolve"
           /\ request'[h].target = request[h].target /\ request'[h].at = request[h].at
    <3>1. CASE Finish(h)
      BY <1>0, <3>1 DEF Finish, RequestsTyped
    <3>2. CASE FindHostDown(h) /\ ~Finish(h)
      BY <1>0, <3>2 DEF FindHostDown, RequestsTyped, Request
    <3> QED
      BY <1>4, <3>1, <3>2 DEF ResolveHostDown, RequestFail
  <2> QED
    BY <1>3, <2>1, <2>2
<1>5. ASSUME Tick
      PROVE  OnePerTarget' /\ NewestNext' /\ NeverSetBack' /\ SeenWithinNow'
  <2>1. now' = now + 1 /\ UNCHANGED <<lastSeen, heard, pc, request>>
    BY <1>5 DEF Tick, target
  <2> QED
    BY <1>0, <2>1 DEF OnePerTarget, NewestNext, NeverSetBack, SeenWithinNow, SetBack
<1>6. ASSUME UNCHANGED <<lastSeen, heard, now, pc, request>>
      PROVE  OnePerTarget' /\ NewestNext' /\ NeverSetBack' /\ SeenWithinNow'
  BY <1>3, <1>6
<1>7. ASSUME NEW t \in Targets, Enroll(t) PROVE FALSE
  BY <1>7 DEF Enroll, InOrder
<1> QED
  BY <1>1, <1>2, <1>4, <1>5, <1>6, <1>7
     DEF Next, RequestStep, JobStep, JobStart, JobSkip, JobMark, JobFind, JobCreate, JobEnd,
         JobFail, HandResolve, target, vars

\* Where the readings of a target come in order and no host enrolls again,
\* last_seen_at is never set back, and a target is marked down only when nothing
\* of its whole window has been recorded for it: the plan's "now() -
\* last_seen_at exceeds some multiple of its metrics' reporting intervals".
THEOREM HeardHostsStayUp ==
    InOrder => (Spec => [][\A t \in Targets :
                              status[t] # "down" /\ status'[t] = "down" => Silent(t)]_vars)
<1> SUFFICES ASSUME InOrder
             PROVE  Spec => [][\A t \in Targets :
                                  status[t] # "down" /\ status'[t] = "down" => Silent(t)]_vars
  OBVIOUS
<1>1. Init => InOrderInv
  BY InOrderInit
<1>2. InOrderInv /\ [Next]_vars => InOrderInv'
  BY InOrderStep
<1>3. InOrderInv /\ [Next]_vars =>
          [\A t \in Targets : status[t] # "down" /\ status'[t] = "down" => Silent(t)]_vars
  BY MarkedWhenStale DEF InOrderInv, NeverSetBack, SetBack, Stale, Silent
<1> QED
  BY <1>1, <1>2, <1>3, PTL DEF Spec

-----------------------------------------------------------------------------
(* A target that is down has its alert, when requests are prompt. *)

\* No reading is late or in progress twice and nobody resolves alerts by hand;
\* calls may fail and hosts enroll again at any time.
PromptOnly == ~AllowLate /\ ~AllowOverlap /\ ~AllowHandResolve

\* A request in progress is younger than the window of its target.
RequestsPrompt ==
    \A h \in Handlers : pc[h] # "idle" => now <= request[h].at + DownAfter(request[h].target)

\* A request that looks for an alert to resolve has set its target up, and
\* nothing it has not seen marks the target down before it is over.
UpWhileResolving ==
    \A h \in Handlers : pc[h] \in {"find", "resolve"} =>
        /\ status[request[h].target] = "up"
        /\ lastSeen[request[h].target] >= request[h].at

PromptInv == TypeOK /\ RequestsPrompt /\ OnePerTarget /\ UpWhileResolving /\ DownHasAlert

LEMMA PromptInit == Init => PromptInv
  BY TypeInit DEF Init, PromptInv, RequestsPrompt, OnePerTarget, UpWhileResolving, DownHasAlert

\* Steps that leave the requests alone.
LEMMA RequestsPromptKept ==
    ASSUME PromptInv, UNCHANGED <<now, pc, request>>
    PROVE  RequestsPrompt' /\ OnePerTarget'
  BY DEF PromptInv, RequestsPrompt, OnePerTarget

\* Steps of the job, but for the one that marks a target down.
LEMMA JobsAlertsKept ==
    ASSUME PromptInv, PromptOnly, NEW j \in Jobs,
           JobStart(j) \/ JobSkip(j) \/ JobFind(j) \/ JobCreate(j) \/ JobEnd(j)
    PROVE  UpWhileResolving' /\ DownHasAlert'
<1>0. /\ TargetsTyped /\ RequestsTyped /\ RunsTyped
      /\ UpWhileResolving /\ DownHasAlert
  BY DEF PromptInv, TypeOK
<1>1. UNCHANGED <<status, lastSeen, pc, request, unalerted>>
  BY DEF JobStart, JobSkip, JobFind, JobCreate, JobEnd, target
<1>2. UpWhileResolving'
  BY <1>0, <1>1 DEF UpWhileResolving
<1>3. ASSUME JobStart(j) \/ JobSkip(j) \/ JobEnd(j)
      PROVE  DownHasAlert'
  <2>1. UNCHANGED hostDown
    BY <1>3 DEF JobStart, JobSkip, JobEnd
  <2>2. jobPc[j] \in {"idle", "next"} /\ \A i \in Jobs \ {j} : jobPc'[i] = jobPc[i] /\ job'[i] = job[i]
    BY <1>0, <1>3 DEF JobStart, JobSkip, JobEnd, JobFinish, RunsTyped
  <2> QED
    BY <1>0, <1>1, <2>1, <2>2 DEF DownHasAlert
<1>4. ASSUME JobFind(j)
      PROVE  DownHasAlert'
  <2>1. /\ UNCHANGED <<hostDown, job>>
        /\ \A i \in Jobs \ {j} : jobPc'[i] = jobPc[i]
        /\ jobPc'[j] = "create" \/ hostDown[job[j].target] # {}
    BY <1>0, <1>4 DEF JobFind, RunsTyped
  <2> QED
    BY <1>0, <1>1, <2>1 DEF DownHasAlert
<1>5. ASSUME JobCreate(j)
      PROVE  DownHasAlert'
  <2>1. PICK a : hostDown' = [hostDown EXCEPT ![job[j].target] = @ \cup {a}]
    BY <1>5 DEF JobCreate
  <2>2. job[j].target \in Targets
    BY <1>0, <1>5 DEF JobCreate, RunsTyped
  <2>3. /\ hostDown'[job[j].target] # {}
        /\ \A t \in Targets : hostDown[t] # {} => hostDown'[t] # {}
    BY <1>0, <2>1, <2>2 DEF TargetsTyped
  <2>4. job' = job /\ \A i \in Jobs \ {j} : jobPc'[i] = jobPc[i]
    BY <1>0, <1>5 DEF JobCreate, RunsTyped
  <2> QED
    BY <1>0, <1>1, <2>3, <2>4 DEF DownHasAlert
<1> QED
  BY <1>2, <1>3, <1>4, <1>5

\* The job marks no target down that a request in progress has set up.
LEMMA MarkSparesRequests ==
    ASSUME PromptInv, PromptOnly, NEW j \in Jobs, JobMark(j)
    PROVE  UpWhileResolving' /\ DownHasAlert'
<1>0. /\ TargetsTyped /\ RequestsTyped /\ RunsTyped
      /\ RequestsPrompt /\ UpWhileResolving /\ DownHasAlert
  BY DEF PromptInv, TypeOK
<1>1. UNCHANGED <<now, lastSeen, hostDown, pc, request>> /\ jobPc[j] = "next"
  BY DEF JobMark
<1>2. PICK t \in job[j].todo :
         /\ job[j].seen[t] < job[j].now - DownAfter(t)
         /\ IF status[t] = "up" /\ lastSeen[t] = job[j].seen[t]
            THEN /\ status' = [status EXCEPT ![t] = "down"]
                 /\ jobPc' = [jobPc EXCEPT ![j] = "find"]
                 /\ job' = [job EXCEPT ![j].todo = @ \ {t}, ![j].target = t]
                 /\ unalerted' = unalerted \ {t}
            ELSE /\ job' = [job EXCEPT ![j].todo = @ \ {t}]
                 /\ UNCHANGED <<status, jobPc, unalerted>>
  BY DEF JobMark
<1>3. /\ job[j] \in Job /\ job[j].now \in Nat /\ job[j].now <= now /\ now \in Nat
      /\ job[j].seen[t] \in Nat /\ t \in Targets
  BY <1>0, <1>1, <1>2, HostDownAssumption DEF RunsTyped, TargetsTyped, Job
<1>4. CASE status[t] = "up" /\ lastSeen[t] = job[j].seen[t]
  <2>1. lastSeen[t] < now - DownAfter(t) /\ lastSeen[t] \in Nat
    BY <1>2, <1>3, <1>4, DownAfterType
  <2>2. ASSUME NEW h \in Handlers, pc[h] \in {"find", "resolve"}
        PROVE  request[h].target # t
    <3>1. request[h] \in Request /\ request[h].at \in Nat
      BY <1>0, <2>2, HostDownAssumption DEF RequestsTyped, Request
    <3>2. now <= request[h].at + DownAfter(request[h].target)
      BY <1>0, <2>2 DEF RequestsPrompt
    <3>3. lastSeen[request[h].target] >= request[h].at
      BY <1>0, <2>2 DEF UpWhileResolving
    <3> QED
      BY <1>3, <2>1, <3>1, <3>2, <3>3, DownAfterType
  <2>3. UpWhileResolving'
    <3>1. ASSUME NEW h \in Handlers, pc[h] \in {"find", "resolve"}
          PROVE  status'[request[h].target] = status[request[h].target]
      <4>1. request[h].target \in Targets
        BY <1>0, <3>1 DEF RequestsTyped, Request
      <4> QED
        BY <1>0, <1>2, <1>4, <2>2, <3>1, <4>1 DEF TargetsTyped
    <3> QED
      BY <1>0, <1>1, <3>1 DEF UpWhileResolving
  <2>4. jobPc'[j] = "find" /\ job'[j].target = t
    <3>1. job' = [job EXCEPT ![j] = [job[j] EXCEPT !.todo = @ \ {t}, !.target = t]]
      BY <1>0, <1>2, <1>4 DEF RunsTyped
    <3>2. job'[j] = [job[j] EXCEPT !.todo = @ \ {t}, !.target = t]
      BY <1>0, <3>1 DEF RunsTyped
    <3>3. [job[j] EXCEPT !.todo = @ \ {t}, !.target = t].target = t
      BY <1>3 DEF Job
    <3> QED
      BY <1>0, <1>2, <1>4, <3>2, <3>3 DEF RunsTyped
  <2>5. DownHasAlert'
    <3>1. \A x \in Targets \ {t} : status'[x] = status[x] /\ (x \in unalerted' <=> x \in unalerted)
      BY <1>0, <1>2, <1>4 DEF TargetsTyped
    <3>2. \A i \in Jobs \ {j} : jobPc'[i] = jobPc[i] /\ job'[i] = job[i]
      BY <1>0, <1>2, <1>4 DEF RunsTyped
    <3> QED
      BY <1>0, <1>1, <2>4, <3>1, <3>2 DEF DownHasAlert
  <2> QED
    BY <2>3, <2>5
<1>5. CASE ~(status[t] = "up" /\ lastSeen[t] = job[j].seen[t])
  <2>1. UNCHANGED <<status, jobPc, unalerted>> /\ \A i \in Jobs \ {j} : job'[i] = job[i]
    BY <1>0, <1>2, <1>5 DEF RunsTyped
  <2> QED
    BY <1>0, <1>1, <2>1 DEF UpWhileResolving, DownHasAlert
<1> QED
  BY <1>4, <1>5

\* Requests end, and set their targets up before they look for an alert.
LEMMA RequestPromptStep ==
    ASSUME PromptInv, PromptOnly, NEW h \in Handlers, RequestStep(h) \/ \E t \in Targets : Submit(h, t)
    PROVE  RequestsPrompt' /\ OnePerTarget' /\ UpWhileResolving' /\ DownHasAlert'
<1>0. /\ TargetsTyped /\ RequestsTyped /\ RunsTyped
      /\ RequestsPrompt /\ OnePerTarget /\ UpWhileResolving /\ DownHasAlert
      /\ now \in Nat
  BY HostDownAssumption DEF PromptInv, TypeOK, TargetsTyped
<1>1. ASSUME NEW t \in Targets, Submit(h, t)
      PROVE  RequestsPrompt' /\ OnePerTarget' /\ UpWhileResolving' /\ DownHasAlert'
  <2> DEFINE r == [target |-> t, at |-> now, found |-> NoAlert]
  <2>1. request' = [request EXCEPT ![h] = r]
    <3>1. PICK at \in 0..now : /\ at < now => AllowLate
                               /\ request' = [request EXCEPT ![h] = [target |-> t, at |-> at, found |-> NoAlert]]
      BY <1>1 DEF Submit
    <3>2. at = now
      BY <1>0, <3>1 DEF PromptOnly
    <3> QED
      BY <3>1, <3>2
  <2>2. /\ pc' = [pc EXCEPT ![h] = "seen"] /\ UNCHANGED <<now, status, lastSeen, hostDown, jobPc, job, unalerted>>
        /\ \A g \in Handlers : pc[g] = "idle" \/ request[g].target # t
    BY <1>1 DEF Submit, PromptOnly, target
  <2>3. r.target = t /\ r.at = now
    OBVIOUS
  <2> HIDE DEF r
  <2>4. /\ pc'[h] = "seen" /\ request'[h] = r
        /\ \A g \in Handlers \ {h} : pc'[g] = pc[g] /\ request'[g] = request[g]
    BY <1>0, <2>1, <2>2 DEF RequestsTyped
  <2>5. RequestsPrompt'
    BY <1>0, <2>2, <2>3, <2>4, DownAfterType DEF RequestsPrompt
  <2>6. OnePerTarget'
    BY <1>0, <2>2, <2>3, <2>4 DEF OnePerTarget
  <2>7. UpWhileResolving' /\ DownHasAlert'
    BY <1>0, <2>2, <2>4 DEF UpWhileResolving, DownHasAlert
  <2> QED
    BY <2>5, <2>6, <2>7
<1>2. ASSUME MarkUp(h)
      PROVE  RequestsPrompt' /\ OnePerTarget' /\ UpWhileResolving' /\ DownHasAlert'
  <2> DEFINE t == request[h].target
  <2>1. /\ pc[h] = "seen" /\ pc' = [pc EXCEPT ![h] = "find"]
        /\ status' = [status EXCEPT ![t] = "up"]
        /\ lastSeen' = [lastSeen EXCEPT ![t] = request[h].at]
        /\ UNCHANGED <<now, hostDown, request, jobPc, job, unalerted>>
    BY <1>2 DEF MarkUp
  <2>2. t \in Targets /\ request[h].at \in Nat
    BY <1>0, <2>1, HostDownAssumption DEF RequestsTyped, Request
  <2>3. /\ pc'[h] = "find" /\ \A g \in Handlers \ {h} : pc'[g] = pc[g]
        /\ status'[t] = "up" /\ lastSeen'[t] = request[h].at
        /\ \A u \in Targets \ {t} : status'[u] = status[u] /\ lastSeen'[u] = lastSeen[u]
    BY <1>0, <2>1, <2>2 DEF RequestsTyped, TargetsTyped
  <2> HIDE DEF t
  <2>4. RequestsPrompt' /\ OnePerTarget'
    BY <1>0, <2>1, <2>3 DEF RequestsPrompt, OnePerTarget
  <2>5. UpWhileResolving'
    <3> SUFFICES ASSUME NEW g \in Handlers, pc'[g] \in {"find", "resolve"}
                 PROVE  status'[request[g].target] = "up" /\ lastSeen'[request[g].target] >= request[g].at
      BY <2>1 DEF UpWhileResolving
    <3>1. CASE g = h
      BY <2>2, <2>3, <3>1 DEF t
    <3>2. CASE g # h
      <4>1. pc[g] \in {"find", "resolve"}
        BY <2>3, <3>2
      <4>2. request[g].target \in Targets /\ request[g].target # t
        BY <1>0, <2>1, <3>2, <4>1 DEF OnePerTarget, RequestsTyped, Request, t
      <4> QED
        BY <1>0, <2>3, <4>1, <4>2 DEF UpWhileResolving
    <3> QED
      BY <3>1, <3>2
  <2>6. DownHasAlert'
    BY <1>0, <2>1, <2>2, <2>3 DEF DownHasAlert
  <2> QED
    BY <2>4, <2>5, <2>6
<1>3. ASSUME FindHostDown(h)
      PROVE  RequestsPrompt' /\ OnePerTarget' /\ UpWhileResolving' /\ DownHasAlert'
  <2>1. /\ pc[h] = "find" /\ UNCHANGED <<now, status, lastSeen, hostDown, jobPc, job, unalerted>>
        /\ request[h] \in Request
    BY <1>0, <1>3 DEF FindHostDown, target, RequestsTyped
  <2>2. /\ \A g \in Handlers \ {h} : pc'[g] = pc[g] /\ request'[g] = request[g]
        /\ \/ pc'[h] = "idle"
           \/ /\ pc'[h] = "resolve"
              /\ request'[h].target = request[h].target /\ request'[h].at = request[h].at
    BY <1>0, <1>3, <2>1 DEF FindHostDown, Finish, RequestsTyped, Request
  <2>3. RequestsPrompt' /\ OnePerTarget'
    BY <1>0, <2>1, <2>2 DEF RequestsPrompt, OnePerTarget
  <2>4. UpWhileResolving' /\ DownHasAlert'
    BY <1>0, <2>1, <2>2 DEF UpWhileResolving, DownHasAlert
  <2> QED
    BY <2>3, <2>4
<1>4. ASSUME ResolveHostDown(h)
      PROVE  RequestsPrompt' /\ OnePerTarget' /\ UpWhileResolving' /\ DownHasAlert'
  <2>1. /\ pc[h] = "resolve" /\ UNCHANGED <<now, status, lastSeen, jobPc, job, unalerted>>
        /\ hostDown' = [hostDown EXCEPT ![request[h].target] = @ \ {request[h].found}]
    BY <1>4 DEF ResolveHostDown, target
  <2>2. /\ pc'[h] = "idle"
        /\ \A g \in Handlers \ {h} : pc'[g] = pc[g] /\ request'[g] = request[g]
    BY <1>0, <1>4 DEF ResolveHostDown, Finish, RequestsTyped
  <2>3. RequestsPrompt' /\ OnePerTarget' /\ UpWhileResolving'
    BY <1>0, <2>1, <2>2 DEF RequestsPrompt, OnePerTarget, UpWhileResolving
  <2>4. status[request[h].target] = "up"
    BY <1>0, <2>1 DEF UpWhileResolving
  <2>5. \A u \in Targets : status[u] = "down" => hostDown'[u] = hostDown[u]
    BY <1>0, <2>1, <2>4 DEF TargetsTyped
  <2>6. DownHasAlert'
    BY <1>0, <2>1, <2>5 DEF DownHasAlert
  <2> QED
    BY <2>3, <2>6
<1> QED
  BY <1>1, <1>2, <1>3, <1>4 DEF RequestStep

LEMMA PromptStep ==
    ASSUME PromptOnly
    PROVE  PromptInv /\ [Next]_vars => PromptInv'
<1> SUFFICES ASSUME PromptInv, [Next]_vars PROVE PromptInv'
  OBVIOUS
<1>0. /\ TypeOK /\ TypeOK' /\ TargetsTyped /\ RequestsTyped
      /\ RequestsPrompt /\ OnePerTarget /\ UpWhileResolving /\ DownHasAlert
  BY TypeStep DEF PromptInv, TypeOK
<1> SUFFICES RequestsPrompt' /\ OnePerTarget' /\ UpWhileResolving' /\ DownHasAlert'
  BY <1>0 DEF PromptInv
<1>1. ASSUME Tick
      PROVE  RequestsPrompt' /\ OnePerTarget' /\ UpWhileResolving' /\ DownHasAlert'
  <2>1. /\ now' = now + 1 /\ now \in Nat /\ Prompt
        /\ UNCHANGED <<status, lastSeen, hostDown, pc, request, jobPc, job, unalerted>>
    BY <1>0, <1>1, HostDownAssumption DEF Tick, PromptOnly, target, TargetsTyped
  <2>2. ASSUME NEW h \in Handlers, pc[h] # "idle"
        PROVE  now' <= request[h].at + DownAfter(request[h].target)
    <3>1. request[h].at \in Nat /\ request[h].target \in Targets
      BY <1>0, <2>2, HostDownAssumption DEF RequestsTyped, Request
    <3> QED
      BY <2>1, <2>2, <3>1, DownAfterType DEF Prompt
  <2> QED
    BY <1>0, <2>1, <2>2 DEF RequestsPrompt, OnePerTarget, UpWhileResolving, DownHasAlert
<1>2. ASSUME NEW j \in Jobs, JobStep(j)
      PROVE  RequestsPrompt' /\ OnePerTarget' /\ UpWhileResolving' /\ DownHasAlert'
  <2>1. UNCHANGED <<now, pc, request>>
    BY <1>2 DEF JobStep, JobStart, JobSkip, JobMark, JobFind, JobCreate, JobEnd
  <2> QED
    BY <1>2, <2>1, RequestsPromptKept, JobsAlertsKept, MarkSparesRequests DEF JobStep
<1>3. ASSUME NEW t \in Targets, Enroll(t)
      PROVE  RequestsPrompt' /\ OnePerTarget' /\ UpWhileResolving' /\ DownHasAlert'
  <2>1. /\ status' = [status EXCEPT ![t] = "up"]
        /\ lastSeen' = [lastSeen EXCEPT ![t] = now]
        /\ UNCHANGED <<now, hostDown, pc, request, jobPc, job, unalerted>>
    BY <1>3 DEF Enroll
  <2>2. /\ status'[t] = "up" /\ lastSeen'[t] = now
        /\ \A u \in Targets \ {t} : status'[u] = status[u] /\ lastSeen'[u] = lastSeen[u]
    BY <1>0, <2>1 DEF TargetsTyped
  <2>3. ASSUME NEW h \in Handlers, pc[h] # "idle"
        PROVE  request[h].target \in Targets /\ now >= request[h].at
    BY <1>0, <2>3, HostDownAssumption DEF RequestsTyped, TargetsTyped, Request
  <2>4. UpWhileResolving'
    BY <1>0, <2>1, <2>2, <2>3 DEF UpWhileResolving
  <2>5. DownHasAlert'
    BY <1>0, <2>1, <2>2 DEF DownHasAlert
  <2> QED
    BY <2>1, <2>4, <2>5, RequestsPromptKept
<1>4. ASSUME NEW t \in Targets, HandResolve(t)
      PROVE  FALSE
  BY <1>4 DEF HandResolve, PromptOnly
<1>5. ASSUME NEW h \in Handlers, RequestFail(h)
      PROVE  RequestsPrompt' /\ OnePerTarget' /\ UpWhileResolving' /\ DownHasAlert'
  <2>1. /\ UNCHANGED <<now, status, lastSeen, hostDown, jobPc, job, unalerted>> /\ pc'[h] = "idle"
        /\ \A g \in Handlers \ {h} : pc'[g] = pc[g] /\ request'[g] = request[g]
    BY <1>0, <1>5 DEF RequestFail, Finish, RequestsTyped, target
  <2> QED
    BY <1>0, <2>1 DEF RequestsPrompt, OnePerTarget, UpWhileResolving, DownHasAlert
<1>7. ASSUME NEW j \in Jobs, JobFail(j)
      PROVE  RequestsPrompt' /\ OnePerTarget' /\ UpWhileResolving' /\ DownHasAlert'
  <2>1. /\ UNCHANGED <<now, status, lastSeen, hostDown, pc, request>>
        /\ \A i \in Jobs \ {j} : jobPc'[i] = jobPc[i] /\ job'[i] = job[i]
        /\ jobPc[j] \in {"idle", "next", "find", "create"}
        /\ unalerted' = IF jobPc[j] = "next" THEN unalerted ELSE unalerted \cup {job[j].target}
    BY <1>0, <1>7 DEF JobFail, JobFinish, RunsTyped, TypeOK, target
  <2>2. UpWhileResolving'
    BY <1>0, <2>1 DEF UpWhileResolving
  <2>3. DownHasAlert'
    BY <1>0, <2>1 DEF DownHasAlert
  <2> QED
    BY <2>1, <2>2, <2>3, RequestsPromptKept
<1>6. ASSUME UNCHANGED vars
      PROVE  RequestsPrompt' /\ OnePerTarget' /\ UpWhileResolving' /\ DownHasAlert'
  BY <1>0, <1>6 DEF vars, target, RequestsPrompt, OnePerTarget, UpWhileResolving, DownHasAlert
<1> QED
  BY <1>1, <1>2, <1>3, <1>4, <1>5, <1>6, <1>7, RequestPromptStep DEF Next

\* A target that is down has its alert, or the run that marked it is about to
\* open it: a reading's resolve never closes the alert of a later outage, for
\* any number of targets, requests, failures and runs of the job, which may
\* overlap, as long as a target's requests are one at a time and over within its
\* window, and nobody resolves the alert by hand.  The one exception is a target
\* that was marked down by a run which failed before it opened the alert.
THEOREM DownTargetsHaveAlerts == PromptOnly => (Spec => []DownHasAlert)
<1> SUFFICES ASSUME PromptOnly PROVE Spec => []DownHasAlert
  OBVIOUS
<1>1. Init => PromptInv
  BY PromptInit
<1>2. PromptInv /\ [Next]_vars => PromptInv'
  BY PromptStep
<1>3. PromptInv => DownHasAlert
  BY DEF PromptInv
<1> QED
  BY <1>1, <1>2, <1>3, PTL DEF Spec
=============================================================================
