--------------------------- MODULE AlertLifecycle ---------------------------
(***************************************************************************)
(* The life of the alerts of metric readings: recordValue and              *)
(* setInterfaceMonitored (targets.service.ts), updateAlert and             *)
(* resolveAlert (alerts.service.ts), as they interleave.                   *)
(*                                                                         *)
(* Every database call is awaited, so the API process interleaves its      *)
(* requests between any two of them: each awaited call is one action, on   *)
(* the committed state of the database.  A handler is one recordValue in   *)
(* progress (a submission with several devices runs one per device); a     *)
(* user is one request of a signed-in user in progress.                    *)
(***************************************************************************)
EXTENDS AlertLevels, FiniteSets, Sequences

CONSTANTS
    Handlers,      \* recordValue calls that may be in progress together
    Users,         \* user requests that may be in progress together
    Series,        \* (target, metric, interface) triples
    Interfaces,
    HostWide,      \* the null interface of a host-wide series
    InterfaceOf,   \* each series' interface, or HostWide
    AlertIds,      \* bounds the alerts ever opened
    NoAlert,
    Values,        \* measured values
    Policies,      \* the policies a series may be given
    AllowOverlap,  \* a request the agent gave up on may still be running
                   \* when the agent sends the series again
    AllowResend,   \* the agent may send its last reading again
    AllowFailure,  \* a request may fail half-way
    MaxAt,         \* bounds the readings collected per series
    MaxReadings,   \* bounds the readings stored per series
    MaxComments    \* bounds the ack and unack comments per alert

Policy == [condition : Conditions, warning : Thresholds, critical : Thresholds,
           consecutiveBreaches : Nat \ {0}]

ASSUME InterfaceAssumption ==
    /\ HostWide \notin Interfaces
    /\ InterfaceOf \in [Series -> Interfaces \cup {HostWide}]

\* The zod schemas: numbers, a known condition, consecutive_breaches >= 1.
ASSUME PolicyAssumption ==
    /\ Values \subseteq Int /\ Values # {}
    /\ \A p \in Policies :
          /\ p.condition \in Conditions
          /\ p.warning \in Thresholds /\ p.critical \in Thresholds
          /\ p.consecutiveBreaches \in Nat \ {0}
          /\ ValidThresholds(p.condition, p.warning, p.critical)

ASSUME FlagAssumption ==
    /\ AllowOverlap \in BOOLEAN /\ AllowResend \in BOOLEAN /\ AllowFailure \in BOOLEAN
    /\ MaxAt \in Nat /\ MaxReadings \in Nat /\ MaxComments \in Nat

VARIABLES
    policy,        \* the effective policy of each series
    monitored,     \* target_interfaces.monitored
    readings,      \* metric_readings, per series, in the order they were stored
    alerts,        \* the alerts table
    comments,      \* alert_comments, per alert, in the order they were written
    announced,     \* history: the notifyAlert calls for each alert
    sent,          \* the agent's last reading of each series
    pc, request,   \* each handler's next step and its local variables
    userPc, userRequest

database == <<policy, monitored, readings, alerts, comments>>
vars == <<policy, monitored, readings, alerts, comments, announced, sent,
          pc, request, userPc, userRequest>>

LevelUnder(p, value) == LevelOf(value, p.condition, p.warning, p.critical)

Events == {"opened", "escalated", "resolved"}
NoEvent == "none"

\* policy: the one the reading was judged under (history).
Reading == [value : Values, at : Nat, policy : Policies]

\* Severity, value and time are those of the last reading applied.
Alert == [series : Series, status : {"open", "resolved"}, severity : Levels,
          lastValue : Values, lastValueAt : Nat, acknowledged : BOOLEAN]

\* The null of a missing row is neither an id nor a row.
ASSUME NoAlertAssumption == NoAlert \notin AlertIds /\ NoAlert \notin Alert

\* found: the open alert this handler updates, or the one it created.
\* seen: the severity that alert had when it was found.
Request == [series : Series, value : Values, at : Nat, policy : Policies,
            found : AlertIds \cup {NoAlert}, seen : Levels \cup {NoLevel},
            event : Events \cup {NoEvent}]

\* A notifyAlert call, with the level of the alert when it is made.
Announcement == [event : Events, level : Levels \cup {NoLevel}]

\* ids: the alerts a user's request is about to write.
UserRequest == [ids : SUBSET AlertIds, flag : BOOLEAN,
                interface : Interfaces \cup {HostWide}]

NoRequest == [series |-> HostWide]
NoUserRequest == [ids |-> {}]

Init ==
    /\ policy \in [Series -> Policies]
    /\ monitored = [i \in Interfaces |-> TRUE]
    /\ readings = [s \in Series |-> <<>>]
    /\ alerts = [a \in AlertIds |-> NoAlert]
    /\ comments = [a \in AlertIds |-> <<>>]
    /\ announced = [a \in AlertIds |-> <<>>]
    /\ sent = [s \in Series |-> [value |-> CHOOSE v \in Values : TRUE, at |-> 0]]
    /\ pc = [h \in Handlers |-> "idle"]
    /\ request = [h \in Handlers |-> NoRequest]
    /\ userPc = [u \in Users |-> "idle"]
    /\ userRequest = [u \in Users |-> NoUserRequest]

-----------------------------------------------------------------------------
(* Reading the tables. *)

IsOpen(a) == alerts[a] # NoAlert /\ alerts[a].status = "open"

\* Mutant: an acknowledged alert does not count as open.
MutantOpenIn(s) ==
    {a \in AlertIds : IsOpen(a) /\ ~alerts[a].acknowledged /\ alerts[a].series = s}

OpenIn(s) == {a \in AlertIds : IsOpen(a) /\ alerts[a].series = s}

Serving(h, s) == pc[h] # "idle" /\ request[h].series = s

\* Sets of n readings "ORDER BY recorded_at DESC LIMIT n" may return: readings
\* recorded at the same time come in no particular order.
Latest(s, n) ==
    {I \in SUBSET (DOMAIN readings[s]) :
        /\ Cardinality(I) = n
        /\ \A i \in I, j \in DOMAIN readings[s] \ I : readings[s][j].at <= readings[s][i].at}

\* Mutant: one breach among the readings is enough.
MutantBreaching(s, I, p) == \E i \in I : LevelUnder(p, readings[s][i].value) # NoLevel

Breaching(s, I, p) == \A i \in I : LevelUnder(p, readings[s][i].value) # NoLevel

-----------------------------------------------------------------------------
(* A submitted reading. *)

Finish(h) ==
    /\ pc' = [pc EXCEPT ![h] = "idle"]
    /\ request' = [request EXCEPT ![h] = NoRequest]

Goto(h, step) ==
    /\ pc' = [pc EXCEPT ![h] = step]
    /\ UNCHANGED request

\* submitReading up to its policy snapshot.
Begin(h, s, value, at) ==
    /\ pc[h] = "idle"
    /\ ~AllowOverlap => \A g \in Handlers : ~Serving(g, s)
    /\ Len(readings[s]) + Cardinality({g \in Handlers : Serving(g, s)}) < MaxReadings
    /\ pc' = [pc EXCEPT ![h] = "admit"]
    /\ request' = [request EXCEPT ![h] =
          [series |-> s, value |-> value, at |-> at, policy |-> policy[s],
           found |-> NoAlert, seen |-> NoLevel, event |-> NoEvent]]
    /\ UNCHANGED <<database, announced, userPc, userRequest>>

\* The agent sends a reading it has just collected.
Submit(h, s) ==
    /\ sent[s].at < MaxAt
    /\ \E value \in Values :
          /\ Begin(h, s, value, sent[s].at + 1)
          /\ sent' = [sent EXCEPT ![s] = [value |-> value, at |-> @.at + 1]]

\* The agent got no answer in time and sends its last reading again.
Resend(h, s) ==
    /\ AllowResend
    /\ sent[s].at > 0
    /\ Begin(h, s, sent[s].value, sent[s].at)
    /\ UNCHANGED sent

MonitoredSeries(s) == InterfaceOf[s] # HostWide => monitored[InterfaceOf[s]]

\* recordReadingValues: the upsert returns whether the interface is monitored.
Admit(h) ==
    /\ pc[h] = "admit"
    /\ MonitoredSeries(request[h].series)
    /\ Goto(h, "store")
    /\ UNCHANGED <<database, announced, sent, userPc, userRequest>>

Drop(h) ==
    /\ pc[h] = "admit"
    /\ ~MonitoredSeries(request[h].series)
    /\ Finish(h)
    /\ UNCHANGED <<database, announced, sent, userPc, userRequest>>

StoreReading(h) ==
    LET r == request[h] IN
    /\ pc[h] = "store"
    /\ readings' = [readings EXCEPT ![r.series] =
          Append(@, [value |-> r.value, at |-> r.at, policy |-> r.policy])]
    /\ Goto(h, "find")
    /\ UNCHANGED <<policy, monitored, alerts, comments, announced, sent, userPc, userRequest>>

\* Mutant: the severity the alert had is not kept.
MutantFindOpen(h) ==
    /\ pc[h] = "find"
    /\ \E a \in OpenIn(request[h].series) :
          request' = [request EXCEPT ![h] = [@ EXCEPT !.found = a]]
    /\ pc' = [pc EXCEPT ![h] = "update"]
    /\ UNCHANGED <<database, announced, sent, userPc, userRequest>>

FindOpen(h) ==
    LET r == request[h] IN
    /\ pc[h] = "find"
    /\ \E a \in OpenIn(r.series) :
          /\ pc' = [pc EXCEPT ![h] = "update"]
          /\ request' = [request EXCEPT ![h] =
                [@ EXCEPT !.found = a, !.seen = alerts[a].severity]]
    /\ UNCHANGED <<database, announced, sent, userPc, userRequest>>

FindNone(h) ==
    LET r == request[h] IN
    /\ pc[h] = "find"
    /\ OpenIn(r.series) = {}
    /\ IF LevelUnder(r.policy, r.value) = NoLevel THEN Finish(h) ELSE Goto(h, "recent")
    /\ UNCHANGED <<database, announced, sent, userPc, userRequest>>

\* Mutant: the severity is left as it was.
MutantFollowLevel(h) ==
    /\ pc[h] = "update"
    /\ LevelUnder(request[h].policy, request[h].value) # NoLevel
    /\ alerts' = [alerts EXCEPT ![request[h].found] =
          [@ EXCEPT !.lastValue = request[h].value, !.lastValueAt = request[h].at]]
    /\ Finish(h)
    /\ UNCHANGED <<policy, monitored, readings, comments, announced, sent, userPc, userRequest>>

\* Mutant: the update writes the status it assumes.
MutantFollowReopens(h) ==
    /\ pc[h] = "update"
    /\ LevelUnder(request[h].policy, request[h].value) # NoLevel
    /\ alerts' = [alerts EXCEPT ![request[h].found] = [@ EXCEPT !.status = "open"]]
    /\ Finish(h)
    /\ UNCHANGED <<policy, monitored, readings, comments, announced, sent, userPc, userRequest>>

\* The alert.update of the found alert, whatever has become of it since.
FollowLevel(h) ==
    LET r == request[h]
        level == LevelUnder(r.policy, r.value)
    IN
    /\ pc[h] = "update"
    /\ level # NoLevel
    /\ alerts' = [alerts EXCEPT ![r.found] =
          [@ EXCEPT !.lastValue = r.value, !.lastValueAt = r.at, !.severity = level]]
    /\ IF level = "critical" /\ r.seen = "warning"
       THEN /\ pc' = [pc EXCEPT ![h] = "announce"]
            /\ request' = [request EXCEPT ![h] = [@ EXCEPT !.event = "escalated"]]
       ELSE Finish(h)
    /\ UNCHANGED <<policy, monitored, readings, comments, announced, sent, userPc, userRequest>>

\* Mutant: a healthy reading's level is written as the severity.
MutantResolveHealthy(h) ==
    /\ pc[h] = "update"
    /\ LevelUnder(request[h].policy, request[h].value) = NoLevel
    /\ alerts' = [alerts EXCEPT ![request[h].found] =
          [@ EXCEPT !.status = "resolved", !.severity = NoLevel]]
    /\ Finish(h)
    /\ UNCHANGED <<policy, monitored, readings, comments, announced, sent, userPc, userRequest>>

ResolveHealthy(h) ==
    LET r == request[h] IN
    /\ pc[h] = "update"
    /\ LevelUnder(r.policy, r.value) = NoLevel
    /\ alerts' = [alerts EXCEPT ![r.found] =
          [@ EXCEPT !.lastValue = r.value, !.lastValueAt = r.at, !.status = "resolved"]]
    /\ pc' = [pc EXCEPT ![h] = "announce"]
    /\ request' = [request EXCEPT ![h] = [@ EXCEPT !.event = "resolved"]]
    /\ UNCHANGED <<policy, monitored, readings, comments, announced, sent, userPc, userRequest>>

\* Mutant: N other breaching readings are required, this one not included.
MutantQueryRecent(h) ==
    LET r == request[h]
        n == r.policy.consecutiveBreaches
    IN
    /\ pc[h] = "recent"
    /\ IF Len(readings[r.series]) <= n THEN Finish(h)
       ELSE \E I \in Latest(r.series, n + 1) :
             IF Breaching(r.series, I, r.policy) THEN Goto(h, "create") ELSE Finish(h)
    /\ UNCHANGED <<database, announced, sent, userPc, userRequest>>

\* The last N readings: N of them, all breaching, or no alert.
QueryRecent(h) ==
    LET r == request[h]
        n == r.policy.consecutiveBreaches
    IN
    /\ pc[h] = "recent"
    /\ \/ Len(readings[r.series]) < n /\ Finish(h)
       \/ \E I \in Latest(r.series, n) :
             IF Breaching(r.series, I, r.policy) THEN Goto(h, "create") ELSE Finish(h)
    /\ UNCHANGED <<database, announced, sent, userPc, userRequest>>

CreateAlert(h) ==
    LET r == request[h] IN
    /\ pc[h] = "create"
    /\ \E a \in AlertIds :
          /\ alerts[a] = NoAlert
          /\ alerts' = [alerts EXCEPT ![a] =
                [series |-> r.series, status |-> "open",
                 severity |-> LevelUnder(r.policy, r.value),
                 lastValue |-> r.value, lastValueAt |-> r.at, acknowledged |-> FALSE]]
          /\ request' = [request EXCEPT ![h] = [@ EXCEPT !.found = a, !.event = "opened"]]
    /\ pc' = [pc EXCEPT ![h] = "announce"]
    /\ UNCHANGED <<policy, monitored, readings, comments, announced, sent, userPc, userRequest>>

\* notifyAlert, once the change is saved.
Announce(h) ==
    LET r == request[h] IN
    /\ pc[h] = "announce"
    /\ announced' = [announced EXCEPT ![r.found] =
          Append(@, [event |-> r.event, level |-> LevelUnder(r.policy, r.value)])]
    /\ Finish(h)
    /\ UNCHANGED <<database, sent, userPc, userRequest>>

-----------------------------------------------------------------------------
(* What users do. *)

UserBegin(u, step, ids, flag, interface) ==
    /\ userPc[u] = "idle"
    /\ userPc' = [userPc EXCEPT ![u] = step]
    /\ userRequest' = [userRequest EXCEPT ![u] =
          [ids |-> ids, flag |-> flag, interface |-> interface]]
    /\ UNCHANGED <<database, announced, sent, pc, request>>

UserFinish(u) ==
    /\ userPc' = [userPc EXCEPT ![u] = "idle"]
    /\ userRequest' = [userRequest EXCEPT ![u] = NoUserRequest]

\* updateAlert: the checks, on the alert as it is now ...
ReadForFlag(u, a, flag) ==
    /\ IsOpen(a)
    /\ alerts[a].acknowledged # flag
    /\ Len(comments[a]) < MaxComments
    /\ UserBegin(u, "flag", {a}, flag, HostWide)

\* Mutant: every change of the flag is commented as an ack.
MutantCommitFlag(u) ==
    LET r == userRequest[u] IN
    /\ userPc[u] = "flag"
    /\ alerts' = [a \in AlertIds |->
          IF a \in r.ids THEN [alerts[a] EXCEPT !.acknowledged = r.flag] ELSE alerts[a]]
    /\ comments' = [a \in AlertIds |->
          IF a \in r.ids THEN Append(comments[a], "ack") ELSE comments[a]]
    /\ UserFinish(u)
    /\ UNCHANGED <<policy, monitored, readings, announced, sent, pc, request>>

\* ... and the transaction that writes the flag and its comment.
CommitFlag(u) ==
    LET r == userRequest[u] IN
    /\ userPc[u] = "flag"
    /\ alerts' = [a \in AlertIds |->
          IF a \in r.ids THEN [alerts[a] EXCEPT !.acknowledged = r.flag] ELSE alerts[a]]
    /\ comments' = [a \in AlertIds |->
          IF a \in r.ids THEN Append(comments[a], IF r.flag THEN "ack" ELSE "unack")
          ELSE comments[a]]
    /\ UserFinish(u)
    /\ UNCHANGED <<policy, monitored, readings, announced, sent, pc, request>>

\* Resolving writes the status and a resolve comment in one transaction.
ResolveByHand(ids) ==
    /\ alerts' = [a \in AlertIds |->
          IF a \in ids THEN [alerts[a] EXCEPT !.status = "resolved"] ELSE alerts[a]]
    /\ comments' = [a \in AlertIds |->
          IF a \in ids THEN Append(comments[a], "resolve") ELSE comments[a]]

ReadForResolve(u, a) ==
    /\ IsOpen(a)
    /\ UserBegin(u, "resolve", {a}, FALSE, HostWide)

CommitResolve(u) ==
    /\ userPc[u] = "resolve"
    /\ ResolveByHand(userRequest[u].ids)
    /\ userPc' = [userPc EXCEPT ![u] = "announce"]
    /\ UNCHANGED <<policy, monitored, readings, announced, sent, pc, request, userRequest>>

\* setInterfaceMonitored's transaction reads the interface's open alerts ...
ReadForToggle(u, i, flag) ==
    LET found == {a \in AlertIds : IsOpen(a) /\ InterfaceOf[alerts[a].series] = i} IN
    UserBegin(u, "toggle", IF flag THEN {} ELSE found, flag, i)

\* ... and its writes become visible together when it commits.
CommitToggle(u) ==
    LET r == userRequest[u] IN
    /\ userPc[u] = "toggle"
    /\ ResolveByHand(r.ids)
    /\ monitored' = [monitored EXCEPT ![r.interface] = r.flag]
    /\ IF r.ids = {} THEN UserFinish(u)
       ELSE userPc' = [userPc EXCEPT ![u] = "announce"] /\ UNCHANGED userRequest
    /\ UNCHANGED <<policy, readings, announced, sent, pc, request>>

AnnounceResolved(u) ==
    /\ userPc[u] = "announce"
    /\ announced' = [a \in AlertIds |->
          IF a \in userRequest[u].ids
          THEN Append(announced[a], [event |-> "resolved", level |-> alerts[a].severity])
          ELSE announced[a]]
    /\ UserFinish(u)
    /\ UNCHANGED <<database, sent, pc, request>>

\* A template default or an override is saved: later submissions use it.
SetPolicy(s, p) ==
    /\ policy[s] # p
    /\ policy' = [policy EXCEPT ![s] = p]
    /\ UNCHANGED <<monitored, readings, alerts, comments, announced, sent,
                   pc, request, userPc, userRequest>>

\* A database call fails, or the API process dies (then every request fails):
\* what is in the database stays, the rest of the request is never done.
Fail(h) ==
    /\ AllowFailure
    /\ pc[h] # "idle"
    /\ Finish(h)
    /\ UNCHANGED <<database, announced, sent, userPc, userRequest>>

UserFail(u) ==
    /\ AllowFailure
    /\ userPc[u] # "idle"
    /\ UserFinish(u)
    /\ UNCHANGED <<database, announced, sent, pc, request>>

-----------------------------------------------------------------------------

HandlerStep(h) ==
    \/ \E s \in Series : Submit(h, s) \/ Resend(h, s)
    \/ Admit(h) \/ Drop(h) \/ StoreReading(h)
    \/ FindOpen(h) \/ FindNone(h) \/ FollowLevel(h) \/ ResolveHealthy(h)
    \/ QueryRecent(h) \/ CreateAlert(h) \/ Announce(h) \/ Fail(h)

UserStep(u) ==
    \/ \E a \in AlertIds, flag \in BOOLEAN : ReadForFlag(u, a, flag)
    \/ \E a \in AlertIds : ReadForResolve(u, a)
    \/ \E i \in Interfaces, flag \in BOOLEAN : ReadForToggle(u, i, flag)
    \/ CommitFlag(u) \/ CommitResolve(u) \/ CommitToggle(u)
    \/ AnnounceResolved(u) \/ UserFail(u)

Next ==
    \/ \E h \in Handlers : HandlerStep(h)
    \/ \E u \in Users : UserStep(u)
    \/ \E s \in Series, p \in Policies : SetPolicy(s, p)

Spec == Init /\ [][Next]_vars

-----------------------------------------------------------------------------
(* Properties. *)

Steps == {"idle", "admit", "store", "find", "update", "recent", "create", "announce"}
UserSteps == {"idle", "flag", "resolve", "toggle", "announce"}

TablesTyped ==
    /\ policy \in [Series -> Policies]
    /\ monitored \in [Interfaces -> BOOLEAN]
    /\ readings \in [Series -> Seq(Reading)]
    /\ alerts \in [AlertIds -> Alert \cup {NoAlert}]
    /\ comments \in [AlertIds -> Seq({"ack", "unack", "resolve"})]
    /\ announced \in [AlertIds -> Seq(Announcement)]
    /\ sent \in [Series -> [value : Values, at : Nat]]

HandlersTyped ==
    /\ pc \in [Handlers -> Steps]
    /\ request \in [Handlers -> Request \cup {NoRequest}]
    /\ \A h \in Handlers : pc[h] # "idle" =>
          /\ request[h] \in Request
          /\ pc[h] \in {"update", "announce"} =>
                request[h].found # NoAlert /\ alerts[request[h].found] # NoAlert
          /\ pc[h] = "announce" => request[h].event \in Events
          /\ pc[h] \in {"recent", "create"} => LevelUnder(request[h].policy, request[h].value) \in Levels

UsersTyped ==
    /\ userPc \in [Users -> UserSteps]
    /\ userRequest \in [Users -> UserRequest \cup {NoUserRequest}]
    /\ \A u \in Users : userPc[u] # "idle" =>
          /\ userRequest[u] \in UserRequest
          /\ \A a \in userRequest[u].ids : alerts[a] # NoAlert
          /\ userPc[u] = "toggle" => userRequest[u].interface \in Interfaces

\* Type correctness: every table and request keeps its shape, and what a
\* request has found is still an alert when it acts on it.
TypeOK == TablesTyped /\ HandlersTyped /\ UsersTyped

\* "One alert per (target, metric, interface)" (recordValue): no two open
\* alerts in one series, whatever the users do meanwhile and wherever a
\* request fails.  The find and the create are not in one transaction, so
\* this rests on a series being submitted by one request at a time.
OneOpenAlert ==
    \A a, b \in AlertIds :
        IsOpen(a) /\ IsOpen(b) /\ alerts[a].series = alerts[b].series => a = b

\* Without overlap a series has one request at work on it ...
OneRequestPerSeries ==
    \A g, h \in Handlers : pc[g] # "idle" /\ Serving(h, request[g].series) => g = h

\* ... so what its find saw is still true when it creates.
CreatesWhereNoneIsOpen ==
    \A h \in Handlers : pc[h] \in {"recent", "create"} => OpenIn(request[h].series) = {}

\* The inductive invariant behind OneOpenAlert.
SerialInv == TypeOK /\ OneRequestPerSeries /\ CreatesWhereNoneIsOpen /\ OneOpenAlert

\* An alert tells what a stored reading read at: while it is open its severity
\* is the level of the reading whose value and time it shows, and once it is
\* resolved either that reading was healthy or a resolve comment says who
\* resolved it (recordValue's update, resolveAlert, setInterfaceMonitored).
AlertTellsAReading ==
    \A a \in AlertIds : alerts[a] # NoAlert =>
        \E i \in DOMAIN readings[alerts[a].series] :
            LET reading == readings[alerts[a].series][i]
                level == LevelUnder(reading.policy, reading.value)
            IN  /\ reading.value = alerts[a].lastValue
                /\ reading.at = alerts[a].lastValueAt
                /\ IF IsOpen(a) THEN level = alerts[a].severity
                   ELSE level = NoLevel \/ \E c \in DOMAIN comments[a] : comments[a][c] = "resolve"

\* No request is at work on the series.
Quiet(s) == \A h \in Handlers : ~Serving(h, s)

Newest(s) == readings[s][Len(readings[s])]

\* The last p.consecutiveBreaches readings stored all breach p.
OnStreak(s, p) ==
    /\ Len(readings[s]) >= p.consecutiveBreaches
    /\ \A i \in Len(readings[s]) - p.consecutiveBreaches + 1 .. Len(readings[s]) :
          LevelUnder(p, readings[s][i].value) # NoLevel

ResolvedByHand(a) == \E c \in DOMAIN comments[a] : comments[a][c] = "resolve"

\* No breach is missed: once N readings in a row breach and no request is at
\* work on the series, an alert is open, or one was resolved by hand after
\* the newest reading (recordValue's consecutive_breaches).
StreakHasAlert ==
    \A s \in Series : Quiet(s) /\ readings[s] # <<>> /\ OnStreak(s, Newest(s).policy) =>
        \E a \in AlertIds :
            /\ alerts[a] # NoAlert
            /\ alerts[a].series = s
            /\ IsOpen(a) \/ (ResolvedByHand(a) /\ alerts[a].lastValueAt = Newest(s).at)

\* "A single healthy reading resolves it" (recordValue): no alert is open in a
\* series whose newest reading was healthy.
HealthyResolves ==
    \A a \in AlertIds :
        IsOpen(a) /\ Quiet(alerts[a].series) =>
            LET newest == Newest(alerts[a].series)
            IN  LevelUnder(newest.policy, newest.value) # NoLevel

\* Nobody is left believing a critical alert is only a warning: the last
\* announcement of an open critical alert was made at critical (the opened or
\* the escalated one), although dropping to warning in between is not announced.
CriticalWasAnnounced ==
    \A a \in AlertIds : IsOpen(a) /\ alerts[a].severity = "critical" /\ Quiet(alerts[a].series) =>
        /\ announced[a] # <<>>
        /\ announced[a][Len(announced[a])].level = "critical"

\* An alert opens only when the last N readings stored breach the policy its
\* newest reading is judged under (recordValue's allBreached).
OpensOnStreak ==
    [][\A a \in AlertIds : alerts[a] = NoAlert /\ alerts'[a] # NoAlert =>
          LET s == alerts'[a].series
          IN  readings[s] # <<>> /\ OnStreak(s, Newest(s).policy)]_vars

\* The flag agrees with the comment thread: an alert is acknowledged exactly
\* when its last ack or unack comment is an ack (updateAlert).
FlagMatchesComments ==
    \A a \in AlertIds : alerts[a] # NoAlert =>
        (alerts[a].acknowledged <=>
            \E i \in DOMAIN comments[a] :
                /\ comments[a][i] = "ack"
                /\ \A j \in i .. Len(comments[a]) : comments[a][j] # "unack")

\* What the alert list shows of an alert, open or resolved (AlertRow.vue).  The
\* flag has its own property, FlagMatchesComments.
Board == [a \in AlertIds |->
    IF alerts[a] = NoAlert THEN [status |-> "unopened"]
    ELSE [status |-> alerts[a].status, series |-> alerts[a].series,
          severity |-> alerts[a].severity,
          value |-> alerts[a].lastValue, at |-> alerts[a].lastValueAt]]

\* The alert whose update each request is about to write.
Judged == [h \in Handlers |-> IF pc[h] = "update" THEN request[h].found ELSE NoAlert]

Contract == INSTANCE AlertContract WITH Judges <- Handlers, board <- Board, judging <- Judged

\* The alerts table implements the contract of the alert board: one open alert
\* per series at a time, each opened once and never open again once resolved;
\* and what a resolved alert shows changes at most once more, by the reading
\* that had found it open when a user resolved it (recordValue's update is by
\* id alone), never by a later one.
ImplementsContract == Contract!Spec
=============================================================================
