------------------------------ MODULE HostDown ------------------------------
(***************************************************************************)
(* A target's up/down status and its host-down alerts: the periodic job of *)
(* target-status.job.ts, host-down.service.ts, and the part of             *)
(* submitReading and registerAgent that sets a target up.  As in           *)
(* AlertLifecycle each awaited database call is an action.  Only open      *)
(* host-down alerts are kept: a resolved one never opens again, and is     *)
(* only stamped again by whoever found it open.                            *)
(***************************************************************************)
EXTENDS Integers, FiniteSets

CONSTANTS
    Targets,
    Handlers,           \* submitReading calls that may be in progress together
    Jobs,               \* runs of the job that may be in progress together
    AlertIds,           \* ids of open alerts, free again once nobody knows them
    NoAlert, NoTarget, NeverSeen,
    LongestInterval,    \* each target's longest report interval
    MinDownAfter, MissedIntervals,
    AllowOverlap,       \* a target's readings may be in progress together
    AllowLate,          \* a reading may arrive some time after recorded_at
    AllowHandResolve,   \* users may resolve host-down alerts
    AllowEnroll,        \* hosts may enroll again
    MaxFailures,        \* bounds the failing database calls
    MaxNow              \* bounds the clock

ASSUME HostDownAssumption ==
    /\ NoAlert \notin AlertIds
    /\ NoTarget \notin Targets
    /\ NeverSeen \notin Int
    /\ LongestInterval \in [Targets -> Nat]
    /\ MinDownAfter \in Nat /\ MissedIntervals \in Nat
    /\ MaxFailures \in Nat /\ MaxNow \in Nat
    /\ {AllowOverlap, AllowLate, AllowHandResolve, AllowEnroll} \subseteq BOOLEAN

VARIABLES
    now,
    status, lastSeen,   \* targets.status, targets.last_seen_at
    heard,              \* history: the newest time recorded for each target
    hostDown,           \* each target's open host-down alerts
    pc, request,        \* submitReading: next step and local variables
    jobPc, job,         \* markStaleTargetsDown: next step and local variables
    failures,
    unalerted           \* history: targets whose last marking was by a run that
                        \* failed before it opened their alert

target == <<status, lastSeen, heard>>
vars == <<now, target, hostDown, pc, request, jobPc, job, failures, unalerted>>

DownAfter(t) == LET missed == MissedIntervals * LongestInterval[t]
                IN  IF missed > MinDownAfter THEN missed ELSE MinDownAfter

\* found: the open alert resolveHostDownAlert read.
Request == [target : Targets, at : 0..MaxNow, found : AlertIds \cup {NoAlert}]

\* todo: the candidates not yet looked at, with the last_seen_at read for them.
Job == [now : 0..MaxNow, target : Targets \cup {NoTarget},
        todo : SUBSET Targets, seen : [Targets -> 0..MaxNow \cup {NeverSeen}]]

NoRequest == [target |-> NoTarget]
NoJob == [target |-> NoTarget]

Init ==
    /\ now = 0
    /\ \/ /\ status = [t \in Targets |-> "unknown"]       \* created by an admin
          /\ lastSeen = [t \in Targets |-> NeverSeen]
       \/ /\ status = [t \in Targets |-> "up"]            \* enrolled
          /\ lastSeen = [t \in Targets |-> 0]
    /\ heard = lastSeen
    /\ hostDown = [t \in Targets |-> {}]
    /\ pc = [h \in Handlers |-> "idle"]
    /\ request = [h \in Handlers |-> NoRequest]
    /\ jobPc = [j \in Jobs |-> "idle"]
    /\ job = [j \in Jobs |-> NoJob]
    /\ failures = 0
    /\ unalerted = {}

\* A reading or an enrollment at that time has been recorded.
Hears(t, at) ==
    heard' = [heard EXCEPT ![t] = IF @ = NeverSeen \/ @ < at THEN at ELSE @]

\* A request is over before its reading could make the host look silent.
Prompt == \A h \in Handlers : pc[h] # "idle" =>
              now < request[h].at + DownAfter(request[h].target)

Tick ==
    /\ now < MaxNow
    /\ AllowLate \/ Prompt
    /\ now' = now + 1
    /\ UNCHANGED <<target, hostDown, pc, request, jobPc, job, failures, unalerted>>

-----------------------------------------------------------------------------
(* submitReading, up to the point where it records the values. *)

Finish(h) ==
    /\ pc' = [pc EXCEPT ![h] = "idle"]
    /\ request' = [request EXCEPT ![h] = NoRequest]

\* recorded_at is the agent's: its clock is taken not to be ahead of the API's.
Submit(h, t) ==
    /\ pc[h] = "idle"
    /\ ~AllowOverlap => \A g \in Handlers : pc[g] = "idle" \/ request[g].target # t
    /\ \E at \in 0..now :
          /\ at < now => AllowLate
          /\ request' = [request EXCEPT ![h] = [target |-> t, at |-> at, found |-> NoAlert]]
    /\ pc' = [pc EXCEPT ![h] = "seen"]
    /\ UNCHANGED <<now, target, hostDown, jobPc, job, failures, unalerted>>

\* Mutant: the open alert is only looked for when the target was down.
MutantMarkUp(h) ==
    /\ pc[h] = "seen"
    /\ status' = [status EXCEPT ![request[h].target] = "up"]
    /\ lastSeen' = [lastSeen EXCEPT ![request[h].target] = request[h].at]
    /\ Hears(request[h].target, request[h].at)
    /\ IF status[request[h].target] = "down"
       THEN pc' = [pc EXCEPT ![h] = "find"] /\ UNCHANGED request
       ELSE Finish(h)
    /\ UNCHANGED <<now, hostDown, jobPc, job, failures, unalerted>>

\* last_seen_at becomes the reading's recorded_at, be it older than it was.
MarkUp(h) ==
    /\ pc[h] = "seen"
    /\ status' = [status EXCEPT ![request[h].target] = "up"]
    /\ lastSeen' = [lastSeen EXCEPT ![request[h].target] = request[h].at]
    /\ Hears(request[h].target, request[h].at)
    /\ pc' = [pc EXCEPT ![h] = "find"]
    /\ UNCHANGED <<now, hostDown, request, jobPc, job, failures, unalerted>>

\* resolveHostDownAlert: one open alert, if there is any ...
FindHostDown(h) ==
    LET open == hostDown[request[h].target] IN
    /\ pc[h] = "find"
    /\ IF open = {} THEN Finish(h)
       ELSE /\ pc' = [pc EXCEPT ![h] = "resolve"]
            /\ \E a \in open : request' = [request EXCEPT ![h].found = a]
    /\ UNCHANGED <<now, target, hostDown, jobPc, job, failures, unalerted>>

\* ... is resolved.
ResolveHostDown(h) ==
    /\ pc[h] = "resolve"
    /\ hostDown' = [hostDown EXCEPT ![request[h].target] = @ \ {request[h].found}]
    /\ Finish(h)
    /\ UNCHANGED <<now, target, jobPc, job, failures, unalerted>>

-----------------------------------------------------------------------------
(* markStaleTargetsDown. *)

JobFinish(j) ==
    /\ jobPc' = [jobPc EXCEPT ![j] = "idle"]
    /\ job' = [job EXCEPT ![j] = NoJob]

Candidates ==
    {t \in Targets : status[t] = "up" /\ lastSeen[t] < now - MinDownAfter}

\* The timer fires: the candidates are read.  A run that finds none ends.
JobStart(j) ==
    /\ jobPc[j] = "idle"
    /\ Candidates # {}
    /\ jobPc' = [jobPc EXCEPT ![j] = "next"]
    /\ job' = [job EXCEPT ![j] =
          [now |-> now, target |-> NoTarget, todo |-> Candidates, seen |-> lastSeen]]
    /\ UNCHANGED <<now, target, hostDown, pc, request, failures, unalerted>>

\* The next candidate was seen within its own longer window.
JobSkip(j) ==
    /\ jobPc[j] = "next"
    /\ \E t \in job[j].todo :
          /\ job[j].seen[t] >= job[j].now - DownAfter(t)
          /\ job' = [job EXCEPT ![j].todo = @ \ {t}]
    /\ UNCHANGED <<now, target, hostDown, pc, request, jobPc, failures, unalerted>>

\* Mutant: the update does not match last_seen_at.
MutantJobMark(j) ==
    /\ jobPc[j] = "next"
    /\ \E t \in job[j].todo :
          /\ job[j].seen[t] < job[j].now - DownAfter(t)
          /\ status' = [status EXCEPT ![t] = "down"]
          /\ jobPc' = [jobPc EXCEPT ![j] = "find"]
          /\ job' = [job EXCEPT ![j].todo = @ \ {t}, ![j].target = t]
    /\ UNCHANGED <<now, lastSeen, heard, hostDown, pc, request, failures, unalerted>>

\* The conditional update, which matches no row when a reading arrived since.
JobMark(j) ==
    /\ jobPc[j] = "next"
    /\ \E t \in job[j].todo :
          /\ job[j].seen[t] < job[j].now - DownAfter(t)
          /\ IF status[t] = "up" /\ lastSeen[t] = job[j].seen[t]
             THEN /\ status' = [status EXCEPT ![t] = "down"]
                  /\ jobPc' = [jobPc EXCEPT ![j] = "find"]
                  /\ job' = [job EXCEPT ![j].todo = @ \ {t}, ![j].target = t]
                  /\ unalerted' = unalerted \ {t}
             ELSE /\ job' = [job EXCEPT ![j].todo = @ \ {t}]
                  /\ UNCHANGED <<status, jobPc, unalerted>>
    /\ UNCHANGED <<now, lastSeen, heard, hostDown, pc, request, failures>>

\* Mutant: an alert is opened without looking for one.
MutantJobFind(j) ==
    /\ jobPc[j] = "find"
    /\ jobPc' = [jobPc EXCEPT ![j] = "create"]
    /\ UNCHANGED <<now, target, hostDown, pc, request, job, failures, unalerted>>

\* Mutant: an alert open for any target will do.
MutantJobFindAny(j) ==
    /\ jobPc[j] = "find"
    /\ jobPc' = [jobPc EXCEPT ![j] =
          IF \A t \in Targets : hostDown[t] = {} THEN "create" ELSE "next"]
    /\ UNCHANGED <<now, target, hostDown, pc, request, job, failures, unalerted>>

\* Mutant: the test for an open alert is inverted.
MutantJobFindInverted(j) ==
    /\ jobPc[j] = "find"
    /\ jobPc' = [jobPc EXCEPT ![j] = IF hostDown[job[j].target] # {} THEN "create" ELSE "next"]
    /\ UNCHANGED <<now, target, hostDown, pc, request, job, failures, unalerted>>

\* openHostDownAlert: nothing to do when one is open already.
JobFind(j) ==
    /\ jobPc[j] = "find"
    /\ jobPc' = [jobPc EXCEPT ![j] = IF hostDown[job[j].target] = {} THEN "create" ELSE "next"]
    /\ UNCHANGED <<now, target, hostDown, pc, request, job, failures, unalerted>>

\* Ids no request and no target knows of; which of them is taken matters to
\* nobody.
FreshIds ==
    AlertIds \ (UNION {hostDown[t] : t \in Targets}
                \cup {request[h].found : h \in {g \in Handlers : pc[g] = "resolve"}})

JobCreate(j) ==
    /\ jobPc[j] = "create"
    /\ FreshIds # {}
    /\ hostDown' = [hostDown EXCEPT ![job[j].target] = @ \cup {CHOOSE a \in FreshIds : TRUE}]
    /\ jobPc' = [jobPc EXCEPT ![j] = "next"]
    /\ UNCHANGED <<now, target, pc, request, job, failures, unalerted>>

JobEnd(j) ==
    /\ jobPc[j] = "next"
    /\ job[j].todo = {}
    /\ JobFinish(j)
    /\ UNCHANGED <<now, target, hostDown, pc, request, failures, unalerted>>

\* A database call of the run throws: the rest of the run is skipped.
JobFail(j) ==
    /\ failures < MaxFailures
    /\ jobPc[j] # "idle"
    /\ failures' = failures + 1
    /\ unalerted' = IF jobPc[j] = "next" THEN unalerted ELSE unalerted \cup {job[j].target}
    /\ JobFinish(j)
    /\ UNCHANGED <<now, target, hostDown, pc, request>>

RequestFail(h) ==
    /\ failures < MaxFailures
    /\ pc[h] # "idle"
    /\ failures' = failures + 1
    /\ Finish(h)
    /\ UNCHANGED <<now, target, hostDown, jobPc, job, unalerted>>

-----------------------------------------------------------------------------

\* registerAgent on a known host: up, with no look at its host-down alert.
Enroll(t) ==
    /\ AllowEnroll
    /\ status' = [status EXCEPT ![t] = "up"]
    /\ lastSeen' = [lastSeen EXCEPT ![t] = now]
    /\ Hears(t, now)
    /\ UNCHANGED <<now, hostDown, pc, request, jobPc, job, failures, unalerted>>

\* resolveAlert: a second resolve of an alert read as open changes nothing here.
HandResolve(t) ==
    /\ AllowHandResolve
    /\ \E a \in hostDown[t] : hostDown' = [hostDown EXCEPT ![t] = @ \ {a}]
    /\ UNCHANGED <<now, target, pc, request, jobPc, job, failures, unalerted>>

RequestStep(h) == MarkUp(h) \/ FindHostDown(h) \/ ResolveHostDown(h)

JobStep(j) ==
    JobStart(j) \/ JobSkip(j) \/ JobMark(j) \/ JobFind(j) \/ JobCreate(j) \/ JobEnd(j)

Next ==
    \/ Tick
    \/ \E h \in Handlers, t \in Targets : Submit(h, t)
    \/ \E h \in Handlers : RequestStep(h) \/ RequestFail(h)
    \/ \E j \in Jobs : JobStep(j) \/ JobFail(j)
    \/ \E t \in Targets : Enroll(t) \/ HandResolve(t)

Spec == Init /\ [][Next]_vars

\* The event loop runs what is ready, and the timer keeps firing.
Fairness ==
    /\ WF_vars(Tick)
    /\ \A h \in Handlers : WF_vars(RequestStep(h))
    /\ \A j \in Jobs : WF_vars(JobStep(j))

FairSpec == Spec /\ Fairness

\* A host that keeps reporting: each of its readings reaches the server.
ReportingSpec == FairSpec /\ \A t \in Targets : WF_vars(\E h \in Handlers : Submit(h, t))

-----------------------------------------------------------------------------
(* Properties. *)

TargetsTyped ==
    /\ now \in 0..MaxNow
    /\ status \in [Targets -> {"unknown", "up", "down"}]
    /\ lastSeen \in [Targets -> 0..MaxNow \cup {NeverSeen}]
    /\ \A t \in Targets : status[t] # "unknown" => lastSeen[t] \in 0..now
    /\ hostDown \in [Targets -> SUBSET AlertIds]

RequestsTyped ==
    /\ pc \in [Handlers -> {"idle", "seen", "find", "resolve"}]
    /\ request \in [Handlers -> Request \cup {NoRequest}]
    /\ \A h \in Handlers : pc[h] # "idle" => request[h] \in Request /\ request[h].at <= now

RunsTyped ==
    /\ jobPc \in [Jobs -> {"idle", "next", "find", "create"}]
    /\ job \in [Jobs -> Job \cup {NoJob}]
    /\ \A j \in Jobs : jobPc[j] # "idle" =>
          /\ job[j] \in Job
          /\ job[j].now <= now
          /\ \A t \in job[j].todo : job[j].seen[t] \in 0..job[j].now
          /\ jobPc[j] \in {"find", "create"} => job[j].target \in Targets

HistoryTyped ==
    /\ heard \in [Targets -> 0..MaxNow \cup {NeverSeen}]
    /\ unalerted \subseteq Targets

\* Type correctness; a target that is up or down has been seen, and a run
\* only holds candidates it read a last_seen_at for.
TypeOK ==
    TargetsTyped /\ RequestsTyped /\ RunsTyped /\ failures \in 0..MaxFailures /\ HistoryTyped

\* "At most one open host-down alert per target" (openHostDownAlert), as long
\* as one run of the job is over before the next one starts: readings,
\* enrollments, users and failures do not break it.
OneOpenHostDown ==
    \A t \in Targets : \A a, b \in hostDown[t] : a = b

\* While a run is about to create an alert none is open for its target ...
CreatesWhereNoneIsOpen ==
    \A j \in Jobs : jobPc[j] = "create" => hostDown[job[j].target] = {}

\* ... which is the inductive invariant behind OneOpenHostDown.
OneRunInv == TypeOK /\ CreatesWhereNoneIsOpen /\ OneOpenHostDown

Stale(t) == lastSeen[t] # NeverSeen /\ lastSeen[t] < now - DownAfter(t)

\* An older reading was recorded after a newer one (or after an enrollment).
SetBack(t) == lastSeen[t] # heard[t]

Silent(t) == heard[t] # NeverSeen /\ heard[t] < now - DownAfter(t)

\* A target is only ever marked down while nothing of its whole window has been
\* recorded for it, readings that arrive during the run included
\* (markStaleTargetsDown's conditional update).  Where an older reading was the
\* last to be recorded (a resent one, one of two that overlap, one in progress
\* while the host enrolled) last_seen_at says that reading's time, and the
\* target is judged by it, however recent the newer one is.
DownOnlyWhenSilent ==
    [][\A t \in Targets : status[t] # "down" /\ status'[t] = "down" =>
          IF SetBack(t) THEN Stale(t) ELSE Silent(t)]_vars

\* A target that is down has its alert, unless the run that marked it is about
\* to open it or failed before it did (markStaleTargetsDown then
\* openHostDownAlert), when nobody resolves it by hand and readings are neither
\* late nor overlap: a reading's resolve never closes the alert of a later
\* outage.
DownHasAlert ==
    \A t \in Targets :
        /\ status[t] = "down"
        /\ \A j \in Jobs : ~(jobPc[j] \in {"find", "create"} /\ job[j].target = t)
        => hostDown[t] # {} \/ t \in unalerted

\* A silent host is marked down or reports again, also when a run fails: the
\* next tick finds the targets the failed run had not reached.  And its alert
\* is opened, but for one thing no tick makes up for: a run that failed between
\* marking the target down and opening its alert.
SilentHostIsAlerted ==
    \A t \in Targets :
        Stale(t) ~> \/ ~Stale(t)
                    \/ status[t] = "down" /\ (hostDown[t] # {} \/ t \in unalerted)

\* The host-down alert of a host that keeps reporting is resolved, also when
\* it was opened during a reading or the host came up by enrolling again
\* (submitReading checks on every reading).
ReportingHostIsCleared ==
    \A t \in Targets : hostDown[t] # {} ~> hostDown[t] = {}
=============================================================================
