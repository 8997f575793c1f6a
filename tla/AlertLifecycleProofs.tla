------------------------ MODULE AlertLifecycleProofs ------------------------
(***************************************************************************)
(* Theorems about AlertLifecycle, for every value of its constants.        *)
(*                                                                         *)
(* Whatever overlaps, fails or is sent again: type correctness, and a flag *)
(* that agrees with the comment thread.  When requests for a series do not *)
(* overlap: one open alert per series, the implementation of               *)
(* AlertContract, and alerts that show a stored reading.  When moreover    *)
(* none fails half-way: a healthy reading resolves the alert, and a        *)
(* critical one was announced as such.  When no reading is sent again:     *)
(* alerts open on streaks, and (with no failures) no streak is missed.     *)
(***************************************************************************)
EXTENDS AlertLifecycle, FiniteSetTheorems, TLAPS

-----------------------------------------------------------------------------
(* Type correctness. *)

\* A value reads at warning, at critical or as healthy.
LEMMA LevelOfType ==
    ASSUME NEW condition, NEW warning, NEW critical, NEW value
    PROVE  LevelOf(value, condition, warning, critical) \in Levels \cup {NoLevel}
  BY DEF LevelOf, Levels

LEMMA LevelUnderType ==
    ASSUME NEW p, NEW v
    PROVE  LevelUnder(p, v) \in Levels \cup {NoLevel}
  BY LevelOfType DEF LevelUnder

LEMMA TypeInit == Init => TypeOK
<1> SUFFICES ASSUME Init PROVE TypeOK
  OBVIOUS
<1>1. sent \in [Series -> [value : Values, at : Nat]]
  <2>1. (CHOOSE v \in Values : TRUE) \in Values
    BY PolicyAssumption
  <2> QED
    BY <2>1 DEF Init
<1>2. readings \in [Series -> Seq(Reading)]
  BY DEF Init
<1>3. /\ comments \in [AlertIds -> Seq({"ack", "unack", "resolve"})]
      /\ announced \in [AlertIds -> Seq(Announcement)]
  BY DEF Init
<1> QED
  BY <1>1, <1>2, <1>3 DEF Init, TypeOK, TablesTyped, HandlersTyped, UsersTyped, Steps, UserSteps

-----------------------------------------------------------------------------
(* How a step keeps the requests typed. *)

\* No step removes an alert.
AlertsKept == \A a \in AlertIds : alerts[a] # NoAlert => alerts'[a] # NoAlert

LEMMA HandlersKept ==
    ASSUME HandlersTyped, AlertsKept, UNCHANGED <<pc, request>>
    PROVE  HandlersTyped'
  BY DEF HandlersTyped, AlertsKept, Request

LEMMA HandlerFinished ==
    ASSUME HandlersTyped, AlertsKept, NEW h \in Handlers, Finish(h)
    PROVE  HandlersTyped'
<1>1. /\ pc' \in [Handlers -> Steps]
      /\ request' \in [Handlers -> Request \cup {NoRequest}]
  BY DEF HandlersTyped, Finish, Steps
<1>2. \A g \in Handlers : pc'[g] # "idle" =>
          g # h /\ pc'[g] = pc[g] /\ request'[g] = request[g]
  BY DEF HandlersTyped, Finish
<1> QED
  BY <1>1, <1>2 DEF HandlersTyped, AlertsKept, Request

\* The handler moves to a step with local variables fit for it.
LEMMA HandlerMoved ==
    ASSUME HandlersTyped, AlertsKept, NEW h \in Handlers,
           NEW step \in Steps, NEW r \in Request,
           pc' = [pc EXCEPT ![h] = step],
           request' = [request EXCEPT ![h] = r],
           step \in {"update", "announce"} => r.found # NoAlert /\ alerts'[r.found] # NoAlert,
           step = "announce" => r.event \in Events,
           step \in {"recent", "create"} => LevelUnder(r.policy, r.value) \in Levels
    PROVE  HandlersTyped'
<1>1. /\ pc' \in [Handlers -> Steps]
      /\ request' \in [Handlers -> Request \cup {NoRequest}]
      /\ pc'[h] = step /\ request'[h] = r
  BY DEF HandlersTyped
<1>2. \A g \in Handlers \ {h} : pc'[g] = pc[g] /\ request'[g] = request[g]
  BY DEF HandlersTyped
<1> QED
  BY <1>1, <1>2 DEF HandlersTyped, AlertsKept, Request

LEMMA HandlerGoto ==
    ASSUME HandlersTyped, AlertsKept, NEW h \in Handlers, pc[h] # "idle",
           NEW step \in Steps \ {"update", "announce"}, Goto(h, step),
           step \in {"recent", "create"} => LevelUnder(request[h].policy, request[h].value) \in Levels
    PROVE  HandlersTyped'
<1>1. request[h] \in Request /\ request' = [request EXCEPT ![h] = request[h]]
  BY DEF HandlersTyped, Goto
<1> QED
  BY <1>1, HandlerMoved DEF Goto

LEMMA UsersKept ==
    ASSUME UsersTyped, AlertsKept, UNCHANGED <<userPc, userRequest>>
    PROVE  UsersTyped'
  BY DEF UsersTyped, AlertsKept, UserRequest

LEMMA UserFinished ==
    ASSUME UsersTyped, AlertsKept, NEW u \in Users, UserFinish(u)
    PROVE  UsersTyped'
<1>1. /\ userPc' \in [Users -> UserSteps]
      /\ userRequest' \in [Users -> UserRequest \cup {NoUserRequest}]
  BY DEF UsersTyped, UserFinish, UserSteps
<1>2. \A v \in Users : userPc'[v] # "idle" =>
          v # u /\ userPc'[v] = userPc[v] /\ userRequest'[v] = userRequest[v]
  BY DEF UsersTyped, UserFinish
<1> QED
  BY <1>1, <1>2 DEF UsersTyped, AlertsKept, UserRequest

LEMMA UserMoved ==
    ASSUME UsersTyped, AlertsKept, NEW u \in Users,
           NEW step \in UserSteps, NEW r \in UserRequest,
           userPc' = [userPc EXCEPT ![u] = step],
           userRequest' = [userRequest EXCEPT ![u] = r],
           \A a \in r.ids : alerts'[a] # NoAlert,
           step = "toggle" => r.interface \in Interfaces
    PROVE  UsersTyped'
<1>1. /\ userPc' \in [Users -> UserSteps]
      /\ userRequest' \in [Users -> UserRequest \cup {NoUserRequest}]
      /\ userPc'[u] = step /\ userRequest'[u] = r
  BY DEF UsersTyped
<1>2. \A v \in Users \ {u} : userPc'[v] = userPc[v] /\ userRequest'[v] = userRequest[v]
  BY DEF UsersTyped
<1> QED
  BY <1>1, <1>2 DEF UsersTyped, AlertsKept, UserRequest

\* Resolving by hand keeps every alert and writes well-formed rows.
LEMMA HandResolved ==
    ASSUME TablesTyped, NEW ids, \A a \in ids : alerts[a] # NoAlert, ResolveByHand(ids)
    PROVE  /\ AlertsKept
           /\ alerts' \in [AlertIds -> Alert \cup {NoAlert}]
           /\ comments' \in [AlertIds -> Seq({"ack", "unack", "resolve"})]
<1>1. \A a \in AlertIds : a \in ids => [alerts[a] EXCEPT !.status = "resolved"] \in Alert
  BY DEF TablesTyped, Alert
<1>2. alerts' \in [AlertIds -> Alert \cup {NoAlert}] /\ AlertsKept
  BY <1>1, NoAlertAssumption DEF ResolveByHand, TablesTyped, AlertsKept
<1>3. comments' \in [AlertIds -> Seq({"ack", "unack", "resolve"})]
  BY DEF ResolveByHand, TablesTyped
<1> QED
  BY <1>2, <1>3

-----------------------------------------------------------------------------

LEMMA TypeStep == TypeOK /\ [Next]_vars => TypeOK'
<1> SUFFICES ASSUME TypeOK, [Next]_vars PROVE TypeOK'
  OBVIOUS
<1> USE DEF TypeOK
<1>1. ASSUME NEW h \in Handlers, NEW s \in Series, Submit(h, s) PROVE TypeOK'
  <2>1. AlertsKept
    BY <1>1 DEF AlertsKept, Submit, Begin, database
  <2>2. PICK value \in Values, at \in Nat : Begin(h, s, value, at)
    BY <1>1 DEF Submit, TablesTyped
  <2> DEFINE r == [series |-> s, value |-> value, at |-> at, policy |-> policy[s],
                   found |-> NoAlert, seen |-> NoLevel, event |-> NoEvent]
  <2>3. r \in Request
    BY <2>2 DEF TablesTyped, Request
  <2>4. HandlersTyped'
    <3>1. pc' = [pc EXCEPT ![h] = "admit"] /\ request' = [request EXCEPT ![h] = r]
      BY <2>2 DEF Begin
    <3> HIDE DEF r
    <3> QED
      BY <2>1, <2>3, <3>1, HandlerMoved DEF Steps
  <2>5. UsersTyped'
    BY <2>1, <2>2, UsersKept DEF Begin
  <2>6. TablesTyped'
    <3>1. sent' \in [Series -> [value : Values, at : Nat]]
      BY <1>1 DEF Submit, TablesTyped
    <3> QED
      BY <2>2, <3>1 DEF Begin, database, TablesTyped
  <2> QED
    BY <2>4, <2>5, <2>6
<1>2. ASSUME NEW h \in Handlers, NEW s \in Series, Resend(h, s) PROVE TypeOK'
  <2>1. AlertsKept
    BY <1>2 DEF AlertsKept, Resend, Begin, database
  <2>2. PICK value \in Values, at \in Nat : Begin(h, s, value, at)
    BY <1>2 DEF Resend, TablesTyped
  <2> DEFINE r == [series |-> s, value |-> value, at |-> at, policy |-> policy[s],
                   found |-> NoAlert, seen |-> NoLevel, event |-> NoEvent]
  <2>3. r \in Request
    BY <2>2 DEF TablesTyped, Request
  <2>4. HandlersTyped'
    <3>1. pc' = [pc EXCEPT ![h] = "admit"] /\ request' = [request EXCEPT ![h] = r]
      BY <2>2 DEF Begin
    <3> HIDE DEF r
    <3> QED
      BY <2>1, <2>3, <3>1, HandlerMoved DEF Steps
  <2>5. UsersTyped'
    BY <2>1, <2>2, UsersKept DEF Begin
  <2>6. TablesTyped'
    BY <1>2, <2>2 DEF Resend, Begin, database, TablesTyped
  <2> QED
    BY <2>4, <2>5, <2>6
<1>3. ASSUME NEW h \in Handlers, Admit(h) PROVE TypeOK'
  <2>1. AlertsKept
    BY <1>3 DEF AlertsKept, Admit, database
  <2>2. HandlersTyped'
    BY <1>3, <2>1, HandlerGoto DEF Admit, Steps
  <2>3. UsersTyped'
    BY <1>3, <2>1, UsersKept DEF Admit
  <2>4. TablesTyped'
    BY <1>3 DEF Admit, database, TablesTyped
  <2> QED
    BY <2>1, <2>2, <2>3, <2>4
<1>4. ASSUME NEW h \in Handlers, Drop(h) PROVE TypeOK'
  <2>1. AlertsKept
    BY <1>4 DEF AlertsKept, Drop, database
  <2>2. HandlersTyped'
    BY <1>4, <2>1, HandlerFinished DEF Drop
  <2>3. UsersTyped'
    BY <1>4, <2>1, UsersKept DEF Drop
  <2>4. TablesTyped'
    BY <1>4 DEF Drop, database, TablesTyped
  <2> QED
    BY <2>1, <2>2, <2>3, <2>4
<1>5. ASSUME NEW h \in Handlers, StoreReading(h) PROVE TypeOK'
  <2>1. AlertsKept
    BY <1>5 DEF AlertsKept, StoreReading, database
  <2>2. HandlersTyped'
    BY <1>5, <2>1, HandlerGoto DEF StoreReading, Steps
  <2>3. UsersTyped'
    BY <1>5, <2>1, UsersKept DEF StoreReading
  <2>4. TablesTyped'
    <3>1. request[h] \in Request
      BY <1>5 DEF StoreReading, HandlersTyped
    <3> DEFINE new == [value |-> request[h].value, at |-> request[h].at,
                       policy |-> request[h].policy]
    <3>3. new \in Reading /\ request[h].series \in Series
      BY <3>1 DEF Reading, Request
    <3>4. readings' = [readings EXCEPT ![request[h].series] = Append(@, new)]
      BY <1>5 DEF StoreReading
    <3> HIDE DEF new
    <3>2. readings' \in [Series -> Seq(Reading)]
      BY <3>3, <3>4 DEF TablesTyped
    <3> QED
      BY <1>5, <3>2 DEF StoreReading, TablesTyped
  <2> QED
    BY <2>1, <2>2, <2>3, <2>4
<1>6. ASSUME NEW h \in Handlers, FindOpen(h) PROVE TypeOK'
  <2>1. AlertsKept
    BY <1>6 DEF AlertsKept, FindOpen, database
  <2>2. HandlersTyped'
    <3>1. request[h] \in Request
      BY <1>6 DEF FindOpen, HandlersTyped
    <3>2. PICK a \in OpenIn(request[h].series) :
            /\ pc' = [pc EXCEPT ![h] = "update"]
            /\ request' = [request EXCEPT ![h] =
                              [request[h] EXCEPT !.found = a, !.seen = alerts[a].severity]]
      BY <1>6 DEF FindOpen, HandlersTyped
    <3>3. a \in AlertIds /\ alerts[a] # NoAlert /\ alerts[a] \in Alert
      BY <3>2 DEF OpenIn, IsOpen, TablesTyped
    <3> DEFINE r == [request[h] EXCEPT !.found = a, !.seen = alerts[a].severity]
    <3>4. r \in Request /\ r.found = a
      BY <3>1, <3>3 DEF Request, Alert
    <3>5. a # NoAlert /\ alerts'[a] # NoAlert
      BY <2>1, <3>3, NoAlertAssumption DEF AlertsKept
    <3> HIDE DEF r
    <3> QED
      BY <2>1, <3>2, <3>4, <3>5, HandlerMoved DEF Steps, r
  <2>3. UsersTyped'
    BY <1>6, <2>1, UsersKept DEF FindOpen
  <2>4. TablesTyped'
    BY <1>6 DEF FindOpen, database, TablesTyped
  <2> QED
    BY <2>1, <2>2, <2>3, <2>4
<1>7. ASSUME NEW h \in Handlers, FindNone(h) PROVE TypeOK'
  <2>1. AlertsKept
    BY <1>7 DEF AlertsKept, FindNone, database
  <2>2. HandlersTyped'
    <3>1. CASE LevelUnder(request[h].policy, request[h].value) = NoLevel
      BY <1>7, <2>1, <3>1, HandlerFinished DEF FindNone
    <3>2. CASE LevelUnder(request[h].policy, request[h].value) # NoLevel
      BY <1>7, <2>1, <3>2, HandlerGoto, LevelUnderType DEF FindNone, Steps
    <3> QED
      BY <3>1, <3>2
  <2>3. UsersTyped'
    BY <1>7, <2>1, UsersKept DEF FindNone
  <2>4. TablesTyped'
    BY <1>7 DEF FindNone, database, TablesTyped
  <2> QED
    BY <2>1, <2>2, <2>3, <2>4
<1>8. ASSUME NEW h \in Handlers, FollowLevel(h) PROVE TypeOK'
  <2>0. /\ request[h] \in Request /\ request[h].found \in AlertIds
        /\ alerts[request[h].found] \in Alert
    BY <1>8 DEF FollowLevel, HandlersTyped, TablesTyped, Request
  <2>5. LevelUnder(request[h].policy, request[h].value) \in Levels \cup {NoLevel}
    BY LevelUnderType
  <2> DEFINE row == [alerts[request[h].found] EXCEPT !.lastValue = request[h].value,
                    !.lastValueAt = request[h].at,
                    !.severity = LevelUnder(request[h].policy, request[h].value)]
  <2>6. row \in Alert /\ alerts' = [alerts EXCEPT ![request[h].found] = row]
    BY <1>8, <2>0, <2>5 DEF FollowLevel, Alert, Request
  <2> HIDE DEF row
  <2>1. AlertsKept
    BY <2>0, <2>6, NoAlertAssumption DEF AlertsKept, TablesTyped
  <2>2. HandlersTyped'
    <3> DEFINE r == [request[h] EXCEPT !.event = "escalated"]
    <3>1. r \in Request /\ r.found = request[h].found /\ r.event \in Events
      BY <2>0 DEF Request, Events
    <3>2. alerts'[r.found] # NoAlert /\ r.found # NoAlert
      BY <2>0, <2>1, <3>1, NoAlertAssumption DEF AlertsKept
    <3>3. CASE /\ pc' = [pc EXCEPT ![h] = "announce"]
               /\ request' = [request EXCEPT ![h] = r]
      <4> HIDE DEF r
      <4> QED
        BY <2>1, <3>1, <3>2, <3>3, HandlerMoved DEF Steps
    <3>4. CASE Finish(h)
      BY <2>1, <3>4, HandlerFinished
    <3> QED
      BY <1>8, <3>3, <3>4 DEF FollowLevel, HandlersTyped
  <2>3. UsersTyped'
    BY <1>8, <2>1, UsersKept DEF FollowLevel
  <2>4. TablesTyped'
    BY <1>8, <2>6 DEF FollowLevel, TablesTyped
  <2> QED
    BY <2>1, <2>2, <2>3, <2>4
<1>9. ASSUME NEW h \in Handlers, ResolveHealthy(h) PROVE TypeOK'
  <2>0. /\ request[h] \in Request /\ request[h].found \in AlertIds
        /\ alerts[request[h].found] \in Alert
    BY <1>9 DEF ResolveHealthy, HandlersTyped, TablesTyped, Request
  <2>5. LevelUnder(request[h].policy, request[h].value) \in Levels \cup {NoLevel}
    BY LevelUnderType
  <2> DEFINE row == [alerts[request[h].found] EXCEPT !.lastValue = request[h].value,
                    !.lastValueAt = request[h].at, !.status = "resolved"]
  <2>6. row \in Alert /\ alerts' = [alerts EXCEPT ![request[h].found] = row]
    BY <1>9, <2>0, <2>5 DEF ResolveHealthy, Alert, Request
  <2> HIDE DEF row
  <2>1. AlertsKept
    BY <2>0, <2>6, NoAlertAssumption DEF AlertsKept, TablesTyped
  <2>2. HandlersTyped'
    <3> DEFINE r == [request[h] EXCEPT !.event = "resolved"]
    <3>1. r \in Request /\ r.found = request[h].found /\ r.event \in Events
      BY <2>0 DEF Request, Events
    <3>2. alerts'[r.found] # NoAlert /\ r.found # NoAlert
      BY <2>0, <2>1, <3>1, NoAlertAssumption DEF AlertsKept
    <3>3. /\ pc' = [pc EXCEPT ![h] = "announce"]
          /\ request' = [request EXCEPT ![h] = r]
      BY <1>9 DEF ResolveHealthy, HandlersTyped
    <3> HIDE DEF r
    <3> QED
      BY <2>1, <3>1, <3>2, <3>3, HandlerMoved DEF Steps
  <2>3. UsersTyped'
    BY <1>9, <2>1, UsersKept DEF ResolveHealthy
  <2>4. TablesTyped'
    BY <1>9, <2>6 DEF ResolveHealthy, TablesTyped
  <2> QED
    BY <2>1, <2>2, <2>3, <2>4
<1>10. ASSUME NEW h \in Handlers, QueryRecent(h) PROVE TypeOK'
  <2>1. AlertsKept
    BY <1>10 DEF AlertsKept, QueryRecent, database
  <2>2. HandlersTyped'
    <3>1. CASE Finish(h)
      BY <2>1, <3>1, HandlerFinished
    <3>2. CASE Goto(h, "create")
      BY <1>10, <2>1, <3>2, HandlerGoto DEF QueryRecent, Steps, HandlersTyped
    <3> QED
      BY <1>10, <3>1, <3>2 DEF QueryRecent
  <2>3. UsersTyped'
    BY <1>10, <2>1, UsersKept DEF QueryRecent
  <2>4. TablesTyped'
    BY <1>10 DEF QueryRecent, database, TablesTyped
  <2> QED
    BY <2>1, <2>2, <2>3, <2>4
<1>11. ASSUME NEW h \in Handlers, CreateAlert(h) PROVE TypeOK'
  <2>0. request[h] \in Request /\ LevelUnder(request[h].policy, request[h].value) \in Levels
    BY <1>11 DEF CreateAlert, HandlersTyped
  <2> DEFINE row == [series |-> request[h].series, status |-> "open",
                     severity |-> LevelUnder(request[h].policy, request[h].value),
                     lastValue |-> request[h].value, lastValueAt |-> request[h].at,
                     acknowledged |-> FALSE]
  <2>5. row \in Alert
    BY <2>0 DEF Alert, Request
  <2>6. PICK a \in AlertIds :
          /\ alerts' = [alerts EXCEPT ![a] = row]
          /\ request' = [request EXCEPT ![h] = [request[h] EXCEPT !.found = a, !.event = "opened"]]
    BY <1>11 DEF CreateAlert, HandlersTyped
  <2> HIDE DEF row
  <2>1. AlertsKept /\ alerts'[a] # NoAlert
    BY <2>5, <2>6, NoAlertAssumption DEF AlertsKept, TablesTyped
  <2>2. HandlersTyped'
    <3> DEFINE r == [request[h] EXCEPT !.found = a, !.event = "opened"]
    <3>1. r \in Request /\ r.found = a /\ r.event \in Events
      BY <2>0 DEF Request, Events
    <3>2. pc' = [pc EXCEPT ![h] = "announce"] /\ request' = [request EXCEPT ![h] = r]
      BY <1>11, <2>6 DEF CreateAlert
    <3> HIDE DEF r
    <3> QED
      BY <2>1, <3>1, <3>2, HandlerMoved, NoAlertAssumption DEF Steps
  <2>3. UsersTyped'
    BY <1>11, <2>1, UsersKept DEF CreateAlert
  <2>4. TablesTyped'
    BY <1>11, <2>5, <2>6 DEF CreateAlert, TablesTyped
  <2> QED
    BY <2>1, <2>2, <2>3, <2>4
<1>12. ASSUME NEW h \in Handlers, Announce(h) PROVE TypeOK'
  <2>1. AlertsKept
    BY <1>12 DEF AlertsKept, Announce, database
  <2>2. HandlersTyped'
    BY <1>12, <2>1, HandlerFinished DEF Announce
  <2>3. UsersTyped'
    BY <1>12, <2>1, UsersKept DEF Announce
  <2>4. TablesTyped'
    <3>1. /\ request[h] \in Request /\ request[h].event \in Events
          /\ request[h].found # NoAlert
      BY <1>12 DEF Announce, HandlersTyped
    <3>6. request[h].found \in AlertIds
      BY <3>1 DEF Request
    <3>2. LevelUnder(request[h].policy, request[h].value) \in Levels \cup {NoLevel}
      BY LevelUnderType
    <3> DEFINE new == [event |-> request[h].event,
                       level |-> LevelUnder(request[h].policy, request[h].value)]
    <3>4. new \in Announcement
      BY <3>1, <3>2 DEF Announcement
    <3>5. announced' = [announced EXCEPT ![request[h].found] = Append(@, new)]
      BY <1>12 DEF Announce
    <3> HIDE DEF new
    <3>3. announced' \in [AlertIds -> Seq(Announcement)]
      BY <3>4, <3>5, <3>6 DEF TablesTyped
    <3> QED
      BY <1>12, <3>3 DEF Announce, database, TablesTyped
  <2> QED
    BY <2>1, <2>2, <2>3, <2>4
<1>13. ASSUME NEW h \in Handlers, Fail(h) PROVE TypeOK'
  <2>1. AlertsKept
    BY <1>13 DEF AlertsKept, Fail, database
  <2>2. HandlersTyped'
    BY <1>13, <2>1, HandlerFinished DEF Fail
  <2>3. UsersTyped'
    BY <1>13, <2>1, UsersKept DEF Fail
  <2>4. TablesTyped'
    BY <1>13 DEF Fail, database, TablesTyped
  <2> QED
    BY <2>1, <2>2, <2>3, <2>4
<1>14. ASSUME NEW u \in Users, NEW a \in AlertIds, NEW flag \in BOOLEAN, ReadForFlag(u, a, flag) PROVE TypeOK'
  <2>1. AlertsKept
    BY <1>14 DEF AlertsKept, ReadForFlag, UserBegin, database
  <2>2. HandlersTyped'
    BY <1>14, <2>1, HandlersKept DEF ReadForFlag, UserBegin
  <2> DEFINE r == [ids |-> {a}, flag |-> flag, interface |-> HostWide]
  <2>5. r \in UserRequest /\ \A b \in r.ids : alerts[b] # NoAlert
    BY <1>14 DEF ReadForFlag, UserRequest, IsOpen
  <2>6. userPc' = [userPc EXCEPT ![u] = "flag"] /\ userRequest' = [userRequest EXCEPT ![u] = r]
    BY <1>14 DEF ReadForFlag, UserBegin
  <2>7. \A b \in r.ids : alerts'[b] # NoAlert
    BY <1>14, <2>5 DEF ReadForFlag, UserBegin, database
  <2>8. r.interface = HostWide
    OBVIOUS
  <2> HIDE DEF r
  <2>3. UsersTyped'
    BY <2>1, <2>5, <2>6, <2>7, <2>8, UserMoved DEF UserSteps
  <2>4. TablesTyped'
    BY <1>14 DEF ReadForFlag, UserBegin, database, TablesTyped
  <2> QED
    BY <2>1, <2>2, <2>3, <2>4
<1>15. ASSUME NEW u \in Users, NEW a \in AlertIds, ReadForResolve(u, a) PROVE TypeOK'
  <2>1. AlertsKept
    BY <1>15 DEF AlertsKept, ReadForResolve, UserBegin, database
  <2>2. HandlersTyped'
    BY <1>15, <2>1, HandlersKept DEF ReadForResolve, UserBegin
  <2> DEFINE r == [ids |-> {a}, flag |-> FALSE, interface |-> HostWide]
  <2>5. r \in UserRequest /\ \A b \in r.ids : alerts[b] # NoAlert
    BY <1>15 DEF ReadForResolve, UserRequest, IsOpen
  <2>6. userPc' = [userPc EXCEPT ![u] = "resolve"] /\ userRequest' = [userRequest EXCEPT ![u] = r]
    BY <1>15 DEF ReadForResolve, UserBegin
  <2>7. \A b \in r.ids : alerts'[b] # NoAlert
    BY <1>15, <2>5 DEF ReadForResolve, UserBegin, database
  <2>8. r.interface = HostWide
    OBVIOUS
  <2> HIDE DEF r
  <2>3. UsersTyped'
    BY <2>1, <2>5, <2>6, <2>7, <2>8, UserMoved DEF UserSteps
  <2>4. TablesTyped'
    BY <1>15 DEF ReadForResolve, UserBegin, database, TablesTyped
  <2> QED
    BY <2>1, <2>2, <2>3, <2>4
<1>16. ASSUME NEW u \in Users, NEW i \in Interfaces, NEW flag \in BOOLEAN, ReadForToggle(u, i, flag) PROVE TypeOK'
  <2>1. AlertsKept
    BY <1>16 DEF AlertsKept, ReadForToggle, UserBegin, database
  <2>2. HandlersTyped'
    BY <1>16, <2>1, HandlersKept DEF ReadForToggle, UserBegin
  <2> DEFINE r == [ids |-> IF flag THEN {} ELSE
                             {a \in AlertIds : IsOpen(a) /\ InterfaceOf[alerts[a].series] = i}, flag |-> flag, interface |-> i]
  <2>5. r \in UserRequest /\ \A b \in r.ids : alerts[b] # NoAlert
    BY <1>16 DEF ReadForToggle, UserRequest, IsOpen
  <2>6. userPc' = [userPc EXCEPT ![u] = "toggle"] /\ userRequest' = [userRequest EXCEPT ![u] = r]
    BY <1>16 DEF ReadForToggle, UserBegin
  <2>7. \A b \in r.ids : alerts'[b] # NoAlert
    BY <1>16, <2>5 DEF ReadForToggle, UserBegin, database
  <2>8. r.interface = i
    OBVIOUS
  <2> HIDE DEF r
  <2>3. UsersTyped'
    BY <2>1, <2>5, <2>6, <2>7, <2>8, UserMoved DEF UserSteps
  <2>4. TablesTyped'
    BY <1>16 DEF ReadForToggle, UserBegin, database, TablesTyped
  <2> QED
    BY <2>1, <2>2, <2>3, <2>4
<1>17. ASSUME NEW u \in Users, CommitFlag(u) PROVE TypeOK'
  <2>0. /\ userRequest[u] \in UserRequest
        /\ \A a \in userRequest[u].ids : alerts[a] \in Alert
    BY <1>17 DEF CommitFlag, UsersTyped, TablesTyped, UserRequest
  <2>5. \A a \in userRequest[u].ids :
          [alerts[a] EXCEPT !.acknowledged = userRequest[u].flag] \in Alert
    BY <2>0 DEF Alert, UserRequest
  <2>6. alerts' = [a \in AlertIds |->
          IF a \in userRequest[u].ids
          THEN [alerts[a] EXCEPT !.acknowledged = userRequest[u].flag] ELSE alerts[a]]
    BY <1>17 DEF CommitFlag
  <2>1. AlertsKept
    BY <2>5, <2>6, NoAlertAssumption DEF AlertsKept
  <2>2. HandlersTyped'
    BY <1>17, <2>1, HandlersKept DEF CommitFlag
  <2>3. UsersTyped'
    BY <1>17, <2>1, UserFinished DEF CommitFlag
  <2>4. TablesTyped'
    <3>1. alerts' \in [AlertIds -> Alert \cup {NoAlert}]
      BY <2>5, <2>6 DEF TablesTyped
    <3>2. comments' \in [AlertIds -> Seq({"ack", "unack", "resolve"})]
      BY <1>17 DEF CommitFlag, TablesTyped
    <3> QED
      BY <1>17, <3>1, <3>2 DEF CommitFlag, TablesTyped
  <2> QED
    BY <2>1, <2>2, <2>3, <2>4
<1>18. ASSUME NEW u \in Users, CommitResolve(u) PROVE TypeOK'
  <2>0. /\ userRequest[u] \in UserRequest
        /\ \A a \in userRequest[u].ids : alerts[a] # NoAlert
    BY <1>18 DEF CommitResolve, UsersTyped
  <2>5. AlertsKept /\ alerts' \in [AlertIds -> Alert \cup {NoAlert}]
        /\ comments' \in [AlertIds -> Seq({"ack", "unack", "resolve"})]
    BY <1>18, <2>0, HandResolved DEF CommitResolve, TablesTyped
  <2>1. AlertsKept
    BY <2>5
  <2>6. ASSUME userPc' = [userPc EXCEPT ![u] = "announce"], UNCHANGED userRequest
        PROVE  UsersTyped'
    <3>1. userRequest' = [userRequest EXCEPT ![u] = userRequest[u]]
      BY <2>6 DEF UsersTyped
    <3>2. \A a \in userRequest[u].ids : alerts'[a] # NoAlert
      BY <2>0, <2>1 DEF AlertsKept, UserRequest
    <3> QED
      BY <2>0, <2>1, <2>6, <3>1, <3>2, UserMoved DEF UserSteps
  <2>2. HandlersTyped'
    BY <1>18, <2>1, HandlersKept DEF CommitResolve
  <2>3. UsersTyped'
    BY <1>18, <2>6 DEF CommitResolve
  <2>4. TablesTyped'
    BY <1>18, <2>5 DEF CommitResolve, TablesTyped
  <2> QED
    BY <2>1, <2>2, <2>3, <2>4
<1>19. ASSUME NEW u \in Users, CommitToggle(u) PROVE TypeOK'
  <2>0. /\ userRequest[u] \in UserRequest
        /\ \A a \in userRequest[u].ids : alerts[a] # NoAlert
    BY <1>19 DEF CommitToggle, UsersTyped
  <2>5. AlertsKept /\ alerts' \in [AlertIds -> Alert \cup {NoAlert}]
        /\ comments' \in [AlertIds -> Seq({"ack", "unack", "resolve"})]
    BY <1>19, <2>0, HandResolved DEF CommitToggle, TablesTyped
  <2>1. AlertsKept
    BY <2>5
  <2>6. ASSUME userPc' = [userPc EXCEPT ![u] = "announce"], UNCHANGED userRequest
        PROVE  UsersTyped'
    <3>1. userRequest' = [userRequest EXCEPT ![u] = userRequest[u]]
      BY <2>6 DEF UsersTyped
    <3>2. \A a \in userRequest[u].ids : alerts'[a] # NoAlert
      BY <2>0, <2>1 DEF AlertsKept, UserRequest
    <3> QED
      BY <2>0, <2>1, <2>6, <3>1, <3>2, UserMoved DEF UserSteps
  <2>2. HandlersTyped'
    BY <1>19, <2>1, HandlersKept DEF CommitToggle
  <2>3. UsersTyped'
    BY <1>19, <2>1, <2>6, UserFinished DEF CommitToggle
  <2>4. TablesTyped'
    BY <1>19, <2>0, <2>5 DEF CommitToggle, TablesTyped, UserRequest
  <2> QED
    BY <2>1, <2>2, <2>3, <2>4
<1>20. ASSUME NEW u \in Users, AnnounceResolved(u) PROVE TypeOK'
  <2>1. AlertsKept
    BY <1>20 DEF AlertsKept, AnnounceResolved, database
  <2>2. HandlersTyped'
    BY <1>20, <2>1, HandlersKept DEF AnnounceResolved
  <2>3. UsersTyped'
    BY <1>20, <2>1, UserFinished DEF AnnounceResolved
  <2>4. TablesTyped'
    <3>1. \A a \in userRequest[u].ids : alerts[a] \in Alert
      BY <1>20 DEF AnnounceResolved, UsersTyped, TablesTyped, UserRequest
    <3>3. \A a \in userRequest[u].ids :
            [event |-> "resolved", level |-> alerts[a].severity] \in Announcement
      BY <3>1 DEF Alert, Events, Announcement
    <3>2. announced' \in [AlertIds -> Seq(Announcement)]
      BY <1>20, <3>3 DEF AnnounceResolved, TablesTyped
    <3> QED
      BY <1>20, <3>2 DEF AnnounceResolved, database, TablesTyped
  <2> QED
    BY <2>1, <2>2, <2>3, <2>4
<1>21. ASSUME NEW u \in Users, UserFail(u) PROVE TypeOK'
  <2>1. AlertsKept
    BY <1>21 DEF AlertsKept, UserFail, database
  <2>2. HandlersTyped'
    BY <1>21, <2>1, HandlersKept DEF UserFail
  <2>3. UsersTyped'
    BY <1>21, <2>1, UserFinished DEF UserFail
  <2>4. TablesTyped'
    BY <1>21 DEF UserFail, database, TablesTyped
  <2> QED
    BY <2>1, <2>2, <2>3, <2>4
<1>22. ASSUME NEW s \in Series, NEW p \in Policies, SetPolicy(s, p) PROVE TypeOK'
  <2>1. AlertsKept
    BY <1>22 DEF AlertsKept, SetPolicy
  <2>2. HandlersTyped' /\ UsersTyped'
    BY <1>22, <2>1, HandlersKept, UsersKept DEF SetPolicy
  <2>3. TablesTyped'
    BY <1>22 DEF SetPolicy, TablesTyped
  <2> QED
    BY <2>2, <2>3
<1>23. CASE UNCHANGED vars
  <2>1. AlertsKept
    BY <1>23 DEF AlertsKept, vars
  <2>2. HandlersTyped' /\ UsersTyped'
    BY <1>23, <2>1, HandlersKept, UsersKept DEF vars
  <2>3. TablesTyped'
    BY <1>23 DEF vars, TablesTyped
  <2> QED
    BY <2>2, <2>3
<1> QED
  BY <1>1, <1>2, <1>3, <1>4, <1>5, <1>6, <1>7, <1>8, <1>9, <1>10, <1>11, <1>12, <1>13, <1>14, <1>15, <1>16, <1>17, <1>18, <1>19, <1>20, <1>21, <1>22, <1>23 DEF Next, HandlerStep, UserStep

\* Every table and request keeps its shape, and what a request has found is
\* still an alert when it acts on it.
THEOREM TypeCorrect == Spec => []TypeOK
<1> QED
  BY TypeInit, TypeStep, PTL DEF Spec

-----------------------------------------------------------------------------
(* One open alert per series, when requests for a series do not overlap.   *)

LEMMA SerialInit == Init => SerialInv
<1> SUFFICES ASSUME Init PROVE SerialInv
  OBVIOUS
<1>1. TypeOK
  BY TypeInit
<1>2. OneRequestPerSeries /\ CreatesWhereNoneIsOpen /\ OneOpenAlert
  BY DEF Init, OneRequestPerSeries, CreatesWhereNoneIsOpen, OneOpenAlert, IsOpen
<1> QED
  BY <1>1, <1>2 DEF SerialInv

\* A step that opens no alert: what is open afterwards was open before, in the
\* same series.
OpensNone ==
    \A a \in AlertIds :
        alerts'[a] # NoAlert /\ alerts'[a].status = "open" =>
            IsOpen(a) /\ alerts'[a].series = alerts[a].series

\* The requests of a step that begins none: each is idle, or is a request that
\* was there before, for the same series.
BeginsNone ==
    \A h \in Handlers : pc'[h] # "idle" =>
        /\ pc[h] # "idle"
        /\ request'[h].series = request[h].series
        /\ pc'[h] \in {"recent", "create"} =>
              pc[h] \in {"recent", "create"} \/ OpenIn(request[h].series) = {}

LEMMA SerialKept ==
    ASSUME SerialInv, TypeOK', OpensNone, BeginsNone
    PROVE  SerialInv'
<1>1. OneOpenAlert'
  BY DEF SerialInv, OneOpenAlert, OpensNone, IsOpen
<1>2. OneRequestPerSeries'
  BY DEF SerialInv, OneRequestPerSeries, Serving, BeginsNone
<1>3. CreatesWhereNoneIsOpen'
  BY DEF SerialInv, CreatesWhereNoneIsOpen, OpenIn, IsOpen, OpensNone, BeginsNone
<1> QED
  BY <1>1, <1>2, <1>3 DEF SerialInv

LEMMA FinishBeginsNone ==
    ASSUME HandlersTyped, NEW h \in Handlers, Finish(h)
    PROVE  BeginsNone
  BY DEF HandlersTyped, Finish, BeginsNone

LEMMA SerialBegin ==
    ASSUME ~AllowOverlap, SerialInv, TypeOK',
           NEW h \in Handlers, NEW s \in Series, NEW value, NEW at, Begin(h, s, value, at)
    PROVE  SerialInv'
<1> USE DEF SerialInv, TypeOK
<1>1. alerts' = alerts
  BY DEF Begin, database
<1>2. /\ pc'[h] = "admit" /\ request'[h].series = s
      /\ \A g \in Handlers \ {h} : pc'[g] = pc[g] /\ request'[g] = request[g]
  BY DEF Begin, HandlersTyped
<1>3. \A g \in Handlers : ~Serving(g, s)
  BY DEF Begin
<1>4. OneOpenAlert'
  BY <1>1 DEF OneOpenAlert, IsOpen
<1>5. OneRequestPerSeries'
  BY <1>2, <1>3 DEF OneRequestPerSeries, Serving
<1>6. CreatesWhereNoneIsOpen'
  BY <1>1, <1>2 DEF CreatesWhereNoneIsOpen, OpenIn, IsOpen
<1> QED
  BY <1>4, <1>5, <1>6

LEMMA SerialCreate ==
    ASSUME SerialInv, TypeOK', NEW h \in Handlers, CreateAlert(h)
    PROVE  SerialInv'
<1> USE DEF SerialInv, TypeOK
<1>1. /\ pc[h] = "create" /\ pc'[h] = "announce"
      /\ request'[h].series = request[h].series
      /\ \A g \in Handlers \ {h} : pc'[g] = pc[g] /\ request'[g] = request[g]
  BY DEF CreateAlert, HandlersTyped, Request
<1>2. PICK a \in AlertIds :
        /\ alerts'[a].series = request[h].series
        /\ \A b \in AlertIds \ {a} : alerts'[b] = alerts[b]
  BY DEF CreateAlert, TablesTyped
<1>3. OpenIn(request[h].series) = {}
  BY <1>1 DEF CreatesWhereNoneIsOpen
<1>4. OneOpenAlert'
  BY <1>2, <1>3 DEF OneOpenAlert, OpenIn, IsOpen
<1>5. OneRequestPerSeries'
  BY <1>1 DEF OneRequestPerSeries, Serving
<1>6. CreatesWhereNoneIsOpen'
  <2> SUFFICES ASSUME NEW g \in Handlers, pc'[g] \in {"recent", "create"},
                      NEW b \in AlertIds, IsOpen(b)'
               PROVE  alerts'[b].series # request'[g].series
    BY DEF CreatesWhereNoneIsOpen, OpenIn
  <2>1. g # h /\ pc[g] = pc'[g] /\ request'[g] = request[g]
    BY <1>1
  <2>2. CASE b = a
    BY <1>1, <1>2, <2>1, <2>2 DEF OneRequestPerSeries, Serving
  <2>3. CASE b # a
    BY <1>2, <2>1, <2>3 DEF CreatesWhereNoneIsOpen, OpenIn, IsOpen
  <2> QED
    BY <2>2, <2>3
<1> QED
  BY <1>4, <1>5, <1>6

LEMMA ByHandOpensNone ==
    ASSUME TablesTyped, NEW ids, \A a \in ids : alerts[a] # NoAlert, ResolveByHand(ids)
    PROVE  OpensNone
  BY DEF ResolveByHand, OpensNone, IsOpen, TablesTyped, Alert

LEMMA SerialStep == ~AllowOverlap /\ SerialInv /\ [Next]_vars => SerialInv'
<1> SUFFICES ASSUME ~AllowOverlap, SerialInv, [Next]_vars PROVE SerialInv'
  OBVIOUS
<1>0. TypeOK /\ TablesTyped /\ HandlersTyped /\ UsersTyped /\ TypeOK'
  BY TypeStep DEF SerialInv, TypeOK
<1>1. ASSUME NEW h \in Handlers, NEW s \in Series, Submit(h, s) \/ Resend(h, s)
      PROVE  SerialInv'
  <2>1. \E value, at : Begin(h, s, value, at)
    BY <1>1 DEF Submit, Resend
  <2> QED
    BY <1>0, <2>1, SerialBegin
<1>2. ASSUME NEW h \in Handlers, Admit(h)
      PROVE  SerialInv'
  <2>1. OpensNone
    BY <1>2 DEF Admit, database, OpensNone, IsOpen
  <2>2. BeginsNone
    BY <1>2, <1>0 DEF Admit, Goto, BeginsNone, HandlersTyped
  <2> QED
    BY <1>0, <2>1, <2>2, SerialKept
<1>3. ASSUME NEW h \in Handlers, StoreReading(h)
      PROVE  SerialInv'
  <2>1. OpensNone
    BY <1>3 DEF StoreReading, database, OpensNone, IsOpen
  <2>2. BeginsNone
    BY <1>3, <1>0 DEF StoreReading, Goto, BeginsNone, HandlersTyped
  <2> QED
    BY <1>0, <2>1, <2>2, SerialKept
<1>4. ASSUME NEW h \in Handlers, Drop(h)
      PROVE  SerialInv'
  <2>1. OpensNone
    BY <1>4 DEF Drop, database, OpensNone, IsOpen
  <2>2. BeginsNone
    BY <1>4, <1>0, FinishBeginsNone DEF Drop
  <2> QED
    BY <1>0, <2>1, <2>2, SerialKept
<1>5. ASSUME NEW h \in Handlers, Announce(h)
      PROVE  SerialInv'
  <2>1. OpensNone
    BY <1>5 DEF Announce, database, OpensNone, IsOpen
  <2>2. BeginsNone
    BY <1>5, <1>0, FinishBeginsNone DEF Announce
  <2> QED
    BY <1>0, <2>1, <2>2, SerialKept
<1>6. ASSUME NEW h \in Handlers, Fail(h)
      PROVE  SerialInv'
  <2>1. OpensNone
    BY <1>6 DEF Fail, database, OpensNone, IsOpen
  <2>2. BeginsNone
    BY <1>6, <1>0, FinishBeginsNone DEF Fail
  <2> QED
    BY <1>0, <2>1, <2>2, SerialKept
<1>7. ASSUME NEW h \in Handlers, FindNone(h)
      PROVE  SerialInv'
  <2>1. OpensNone
    BY <1>7 DEF FindNone, database, OpensNone, IsOpen
  <2>2. BeginsNone
    <3>1. CASE Finish(h)
      BY <3>1, <1>0, FinishBeginsNone
    <3>2. CASE Goto(h, "recent")
      BY <1>7, <3>2, <1>0 DEF FindNone, Goto, BeginsNone, HandlersTyped
    <3> QED
      BY <1>7, <3>1, <3>2 DEF FindNone
  <2> QED
    BY <1>0, <2>1, <2>2, SerialKept
<1>8. ASSUME NEW h \in Handlers, QueryRecent(h)
      PROVE  SerialInv'
  <2>1. OpensNone
    BY <1>8 DEF QueryRecent, database, OpensNone, IsOpen
  <2>2. BeginsNone
    <3>1. CASE Finish(h)
      BY <3>1, <1>0, FinishBeginsNone
    <3>2. CASE Goto(h, "create")
      BY <1>8, <3>2, <1>0 DEF QueryRecent, Goto, BeginsNone, HandlersTyped
    <3> QED
      BY <1>8, <3>1, <3>2 DEF QueryRecent
  <2> QED
    BY <1>0, <2>1, <2>2, SerialKept
<1>9. ASSUME NEW h \in Handlers, FindOpen(h)
      PROVE  SerialInv'
  <2>1. OpensNone
    BY <1>9 DEF FindOpen, database, OpensNone, IsOpen
  <2>2. BeginsNone
    BY <1>9, <1>0 DEF FindOpen, BeginsNone, HandlersTyped, Request
  <2> QED
    BY <1>0, <2>1, <2>2, SerialKept
<1>10. ASSUME NEW h \in Handlers, FollowLevel(h)
      PROVE  SerialInv'
  <2>0. /\ request[h] \in Request /\ request[h].found \in AlertIds
        /\ alerts[request[h].found] \in Alert
    BY <1>10, <1>0 DEF FollowLevel, HandlersTyped, TablesTyped, Request
  <2>1. OpensNone
    <3>1. /\ alerts'[request[h].found].status = alerts[request[h].found].status
          /\ alerts'[request[h].found].series = alerts[request[h].found].series
          /\ alerts[request[h].found] # NoAlert
      BY <1>10, <1>0, <2>0, NoAlertAssumption DEF FollowLevel, Alert, TablesTyped
    <3>2. \A a \in AlertIds \ {request[h].found} : alerts'[a] = alerts[a]
      BY <1>10, <1>0, <2>0 DEF FollowLevel, TablesTyped
    <3> QED
      BY <3>1, <3>2 DEF OpensNone, IsOpen
  <2>2. BeginsNone
    <3>1. CASE Finish(h)
      BY <3>1, <1>0, FinishBeginsNone
    <3>2. CASE ~Finish(h)
      BY <1>10, <3>2, <2>0, <1>0 DEF FollowLevel, BeginsNone, HandlersTyped, Request
    <3> QED
      BY <3>1, <3>2
  <2> QED
    BY <1>0, <2>1, <2>2, SerialKept
<1>11. ASSUME NEW h \in Handlers, ResolveHealthy(h)
      PROVE  SerialInv'
  <2>0. /\ request[h] \in Request /\ request[h].found \in AlertIds
        /\ alerts[request[h].found] \in Alert
    BY <1>11, <1>0 DEF ResolveHealthy, HandlersTyped, TablesTyped, Request
  <2>1. OpensNone
    BY <1>11, <1>0, <2>0 DEF ResolveHealthy, OpensNone, IsOpen, Alert, TablesTyped
  <2>2. BeginsNone
    BY <1>11, <2>0, <1>0 DEF ResolveHealthy, BeginsNone, HandlersTyped, Request
  <2> QED
    BY <1>0, <2>1, <2>2, SerialKept
<1>12. ASSUME NEW h \in Handlers, CreateAlert(h)
      PROVE  SerialInv'
  BY <1>12, <1>0, SerialCreate
<1>13. ASSUME UNCHANGED <<alerts, pc, request>>
      PROVE  SerialInv'
  <2>1. OpensNone
    BY <1>13 DEF OpensNone, IsOpen
  <2>2. BeginsNone
    BY <1>13 DEF BeginsNone
  <2> QED
    BY <1>0, <2>1, <2>2, SerialKept
<1>14. ASSUME NEW u \in Users, CommitFlag(u)
      PROVE  SerialInv'
  <2>1. OpensNone
    <3>1. \A a \in userRequest[u].ids : alerts[a] \in Alert
      BY <1>14, <1>0 DEF CommitFlag, UsersTyped, TablesTyped, UserRequest
    <3> QED
      BY <1>14, <3>1, NoAlertAssumption DEF CommitFlag, OpensNone, IsOpen, Alert
  <2>2. BeginsNone
    BY <1>14 DEF CommitFlag, BeginsNone
  <2> QED
    BY <1>0, <2>1, <2>2, SerialKept
<1>15. ASSUME NEW u \in Users, CommitResolve(u)
      PROVE  SerialInv'
  <2>1. OpensNone
    BY <1>15, <1>0, ByHandOpensNone DEF CommitResolve, UsersTyped
  <2>2. BeginsNone
    BY <1>15 DEF CommitResolve, BeginsNone
  <2> QED
    BY <1>0, <2>1, <2>2, SerialKept
<1>16. ASSUME NEW u \in Users, CommitToggle(u)
      PROVE  SerialInv'
  <2>1. OpensNone
    BY <1>16, <1>0, ByHandOpensNone DEF CommitToggle, UsersTyped
  <2>2. BeginsNone
    BY <1>16 DEF CommitToggle, BeginsNone
  <2> QED
    BY <1>0, <2>1, <2>2, SerialKept
<1>17. ASSUME NEW u \in Users,
             \/ \E a \in AlertIds, flag \in BOOLEAN : ReadForFlag(u, a, flag)
             \/ \E a \in AlertIds : ReadForResolve(u, a)
             \/ \E i \in Interfaces, flag \in BOOLEAN : ReadForToggle(u, i, flag)
             \/ AnnounceResolved(u) \/ UserFail(u)
      PROVE  SerialInv'
  <2>1. UNCHANGED <<alerts, pc, request>>
    BY <1>17 DEF ReadForFlag, ReadForResolve, ReadForToggle, UserBegin, AnnounceResolved,
                  UserFail, database
  <2> QED
    BY <2>1, <1>13
<1>18. ASSUME (\E s \in Series, p \in Policies : SetPolicy(s, p)) \/ UNCHANGED vars
      PROVE  SerialInv'
  BY <1>18, <1>13 DEF SetPolicy, vars
<1> QED
  BY <1>1, <1>2, <1>3, <1>4, <1>5, <1>6, <1>7, <1>8, <1>9, <1>10, <1>11, <1>12, <1>13, <1>14, <1>15, <1>16, <1>17, <1>18 DEF Next, HandlerStep, UserStep

\* "One alert per (target, metric, interface)": whatever is submitted, however
\* users acknowledge, resolve and stop monitoring meanwhile and wherever a
\* request fails, a series never has two open alerts, provided its requests do
\* not overlap.
THEOREM AtMostOneOpenAlert == ~AllowOverlap => (Spec => []OneOpenAlert)
<1> SUFFICES ASSUME ~AllowOverlap PROVE Spec => []OneOpenAlert
  OBVIOUS
<1>1. Init => SerialInv
  BY SerialInit
<1>2. SerialInv /\ [Next]_vars => SerialInv'
  BY SerialStep
<1>3. SerialInv => OneOpenAlert
  BY DEF SerialInv
<1> QED
  BY <1>1, <1>2, <1>3, PTL DEF Spec

-----------------------------------------------------------------------------
(* What the steps do, field by field, in a well-typed state. *)

ReadingOf(r) == [value |-> r.value, at |-> r.at, policy |-> r.policy]

OthersKept(h) == \A g \in Handlers \ {h} : pc'[g] = pc[g] /\ request'[g] = request[g]

UsersStill == UNCHANGED <<userPc, userRequest>>

\* The request goes on with the same reading.
GoesTo(h, step) ==
    /\ pc'[h] = step
    /\ request'[h].series = request[h].series
    /\ request'[h].value = request[h].value
    /\ request'[h].at = request[h].at
    /\ request'[h].policy = request[h].policy

Begins(h, s) ==
    /\ UNCHANGED <<readings, alerts, comments, announced>> /\ UsersStill
    /\ OthersKept(h)
    /\ ~AllowOverlap => \A g \in Handlers : ~Serving(g, s)
    /\ pc[h] = "idle" /\ pc'[h] = "admit" /\ request'[h].series = s
    /\ request'[h].at = sent'[s].at
    /\ ~AllowResend => sent'[s].at = sent[s].at + 1
    /\ \A t \in Series \ {s} : sent'[t] = sent[t]

Admits(h) ==
    /\ UNCHANGED <<readings, alerts, comments, announced, sent>> /\ UsersStill
    /\ OthersKept(h)
    /\ pc[h] = "admit" /\ GoesTo(h, "store")

\* The request ends before it stored anything, or by a failure.
Leaves(h) ==
    /\ UNCHANGED <<readings, alerts, comments, announced, sent>> /\ UsersStill
    /\ OthersKept(h)
    /\ pc[h] = "admit" \/ AllowFailure
    /\ pc'[h] = "idle"

Stores(h) ==
    LET s == request[h].series IN
    /\ UNCHANGED <<alerts, comments, announced, sent>> /\ UsersStill
    /\ OthersKept(h)
    /\ pc[h] = "store" /\ GoesTo(h, "find")
    /\ s \in Series /\ ReadingOf(request[h]) \in Reading
    /\ readings'[s] = Append(readings[s], ReadingOf(request[h]))
    /\ \A t \in Series \ {s} : readings'[t] = readings[t]

Finds(h) ==
    /\ UNCHANGED <<readings, alerts, comments, announced, sent>> /\ UsersStill
    /\ OthersKept(h)
    /\ pc[h] = "find" /\ GoesTo(h, "update")
    /\ request'[h].found \in OpenIn(request[h].series)
    /\ request'[h].seen = alerts[request'[h].found].severity

FindsNone(h) ==
    /\ UNCHANGED <<readings, alerts, comments, announced, sent>> /\ UsersStill
    /\ OthersKept(h)
    /\ pc[h] = "find"
    /\ OpenIn(request[h].series) = {}
    /\ IF LevelUnder(request[h].policy, request[h].value) = NoLevel
       THEN pc'[h] = "idle" ELSE GoesTo(h, "recent")

Counts(h) ==
    LET s == request[h].series
        n == request[h].policy.consecutiveBreaches
    IN
    /\ UNCHANGED <<readings, alerts, comments, announced, sent>> /\ UsersStill
    /\ OthersKept(h)
    /\ pc[h] = "recent"
    /\ \/ Len(readings[s]) < n /\ pc'[h] = "idle"
       \/ \E I \in Latest(s, n) :
             IF Breaching(s, I, request[h].policy) THEN GoesTo(h, "create") ELSE pc'[h] = "idle"

Follows(h) ==
    LET r == request[h]
        level == LevelUnder(r.policy, r.value)
    IN
    /\ UNCHANGED <<readings, comments, announced, sent>> /\ UsersStill
    /\ OthersKept(h)
    /\ pc[h] = "update" /\ level \in Levels
    /\ r.found \in AlertIds /\ alerts[r.found] \in Alert /\ alerts'[r.found] \in Alert
    /\ alerts'[r.found].series = alerts[r.found].series
    /\ alerts'[r.found].status = alerts[r.found].status
    /\ alerts'[r.found].acknowledged = alerts[r.found].acknowledged
    /\ alerts'[r.found].severity = level
    /\ alerts'[r.found].lastValue = r.value
    /\ alerts'[r.found].lastValueAt = r.at
    /\ \A a \in AlertIds \ {r.found} : alerts'[a] = alerts[a]
    /\ IF level = "critical" /\ r.seen = "warning"
       THEN GoesTo(h, "announce") /\ request'[h].found = r.found
       ELSE pc'[h] = "idle"

Heals(h) ==
    LET r == request[h] IN
    /\ UNCHANGED <<readings, comments, announced, sent>> /\ UsersStill
    /\ OthersKept(h)
    /\ pc[h] = "update" /\ LevelUnder(r.policy, r.value) = NoLevel
    /\ r.found \in AlertIds /\ alerts[r.found] \in Alert /\ alerts'[r.found] \in Alert
    /\ alerts'[r.found].series = alerts[r.found].series
    /\ alerts'[r.found].status = "resolved"
    /\ alerts'[r.found].acknowledged = alerts[r.found].acknowledged
    /\ alerts'[r.found].severity = alerts[r.found].severity
    /\ alerts'[r.found].lastValue = r.value
    /\ alerts'[r.found].lastValueAt = r.at
    /\ \A a \in AlertIds \ {r.found} : alerts'[a] = alerts[a]
    /\ GoesTo(h, "announce") /\ request'[h].found = r.found

Creates(h, a) ==
    LET r == request[h] IN
    /\ UNCHANGED <<readings, comments, announced, sent>> /\ UsersStill
    /\ OthersKept(h)
    /\ pc[h] = "create"
    /\ a \in AlertIds /\ alerts[a] = NoAlert /\ alerts'[a] \in Alert
    /\ alerts'[a].series = r.series
    /\ alerts'[a].status = "open"
    /\ alerts'[a].acknowledged = FALSE
    /\ alerts'[a].severity = LevelUnder(r.policy, r.value)
    /\ alerts'[a].lastValue = r.value
    /\ alerts'[a].lastValueAt = r.at
    /\ \A b \in AlertIds \ {a} : alerts'[b] = alerts[b]
    /\ GoesTo(h, "announce") /\ request'[h].found = a

Announces(h) ==
    LET r == request[h] IN
    /\ UNCHANGED <<readings, alerts, comments, sent>> /\ UsersStill
    /\ OthersKept(h)
    /\ pc[h] = "announce" /\ pc'[h] = "idle"
    /\ r.found \in AlertIds /\ alerts[r.found] # NoAlert
    /\ announced'[r.found] # <<>>
    /\ announced'[r.found][Len(announced'[r.found])].level = LevelUnder(r.policy, r.value)
    /\ \A a \in AlertIds \ {r.found} : announced'[a] = announced[a]

ResolvesByHand(u) ==
    LET ids == userRequest[u].ids IN
    /\ UNCHANGED <<readings, announced, sent, pc, request>>
    /\ \A a \in AlertIds :
          IF a \in ids
          THEN /\ alerts[a] \in Alert /\ alerts'[a] \in Alert
               /\ alerts'[a].series = alerts[a].series
               /\ alerts'[a].status = "resolved"
               /\ alerts'[a].acknowledged = alerts[a].acknowledged
               /\ alerts'[a].severity = alerts[a].severity
               /\ alerts'[a].lastValue = alerts[a].lastValue
               /\ alerts'[a].lastValueAt = alerts[a].lastValueAt
               /\ comments'[a] = Append(comments[a], "resolve")
          ELSE alerts'[a] = alerts[a] /\ comments'[a] = comments[a]
    /\ \A v \in Users : userPc'[v] = "announce" =>
          IF v = u THEN userRequest'[v].ids = ids
          ELSE userPc[v] = "announce" /\ userRequest'[v] = userRequest[v]

Flags(u) ==
    LET r == userRequest[u] IN
    /\ UNCHANGED <<readings, announced, sent, pc, request>>
    /\ r.flag \in BOOLEAN
    /\ \A a \in AlertIds :
          IF a \in r.ids
          THEN /\ alerts[a] \in Alert /\ alerts'[a] \in Alert
               /\ alerts'[a].series = alerts[a].series
               /\ alerts'[a].status = alerts[a].status
               /\ alerts'[a].acknowledged = r.flag
               /\ alerts'[a].severity = alerts[a].severity
               /\ alerts'[a].lastValue = alerts[a].lastValue
               /\ alerts'[a].lastValueAt = alerts[a].lastValueAt
               /\ comments'[a] = Append(comments[a], IF r.flag THEN "ack" ELSE "unack")
          ELSE alerts'[a] = alerts[a] /\ comments'[a] = comments[a]
    /\ \A v \in Users : userPc'[v] = "announce" =>
          userPc[v] = "announce" /\ userRequest'[v] = userRequest[v]

Tells(u) ==
    /\ UNCHANGED <<readings, alerts, comments, sent, pc, request>>
    /\ userPc[u] = "announce"
    /\ \A a \in AlertIds :
          IF a \in userRequest[u].ids THEN alerts[a] # NoAlert ELSE announced'[a] = announced[a]
    /\ \A v \in Users : userPc'[v] = "announce" =>
          userPc[v] = "announce" /\ userRequest'[v] = userRequest[v]

\* A user's request begins or fails, a policy changes, or nothing happens.
WritesNothing ==
    /\ UNCHANGED <<readings, alerts, comments, announced, sent, pc, request>>
    /\ \A v \in Users : userPc'[v] = "announce" =>
          userPc[v] = "announce" /\ userRequest'[v] = userRequest[v]

\* Every step is one of these.
LEMMA StepEffects ==
    ASSUME TypeOK, [Next]_vars
    PROVE  \/ \E h \in Handlers :
                 \/ \E s \in Series : Begins(h, s)
                 \/ Admits(h) \/ Leaves(h) \/ Stores(h) \/ Finds(h) \/ FindsNone(h) \/ Counts(h)
                 \/ Follows(h) \/ Heals(h) \/ (\E a \in AlertIds : Creates(h, a)) \/ Announces(h)
           \/ \E u \in Users : ResolvesByHand(u) \/ Flags(u) \/ Tells(u)
           \/ WritesNothing
<1> USE DEF UsersStill, TypeOK
<1>f. ASSUME NEW h \in Handlers, Finish(h)
      PROVE  OthersKept(h) /\ pc'[h] = "idle"
  BY <1>f DEF Finish, OthersKept, HandlersTyped
<1>g. ASSUME NEW h \in Handlers, NEW step, Goto(h, step)
      PROVE  OthersKept(h) /\ GoesTo(h, step)
  BY <1>g DEF Goto, OthersKept, GoesTo, HandlersTyped
<1>1. ASSUME NEW h \in Handlers, NEW s \in Series, Submit(h, s)
      PROVE  Begins(h, s)
  <2>1. PICK value \in Values :
           /\ Begin(h, s, value, sent[s].at + 1)
           /\ sent' = [sent EXCEPT ![s] = [value |-> value, at |-> sent[s].at + 1]]
    BY <1>1 DEF Submit, TablesTyped
  <2>2. /\ OthersKept(h) /\ pc'[h] = "admit" /\ request'[h].series = s
        /\ request'[h].at = sent[s].at + 1
    BY <2>1 DEF Begin, OthersKept, HandlersTyped
  <2>3. sent'[s].at = sent[s].at + 1 /\ \A t \in Series \ {s} : sent'[t] = sent[t]
    BY <2>1 DEF TablesTyped
  <2> QED
    BY <2>1, <2>2, <2>3 DEF Begin, Begins, database
<1>2. ASSUME NEW h \in Handlers, NEW s \in Series, Resend(h, s)
      PROVE  Begins(h, s)
  <2>2. /\ OthersKept(h) /\ pc'[h] = "admit" /\ request'[h].series = s
        /\ request'[h].at = sent[s].at
    BY <1>2 DEF Resend, Begin, OthersKept, HandlersTyped
  <2> QED
    BY <1>2, <2>2 DEF Resend, Begin, Begins, database
<1>3. ASSUME NEW h \in Handlers, Admit(h) PROVE Admits(h)
  BY <1>3, <1>g DEF Admit, Admits, database
<1>4. ASSUME NEW h \in Handlers, Drop(h) \/ Fail(h) PROVE Leaves(h)
  BY <1>4, <1>f DEF Drop, Fail, Leaves, database
<1>5. ASSUME NEW h \in Handlers, StoreReading(h) PROVE Stores(h)
  <2>1. request[h] \in Request /\ request[h].series \in Series
    BY <1>5 DEF StoreReading, HandlersTyped, Request
  <2>2. ReadingOf(request[h]) \in Reading
    BY <2>1 DEF Request, Reading, ReadingOf
  <2> DEFINE new == ReadingOf(request[h])
  <2>3. readings' = [readings EXCEPT ![request[h].series] = Append(@, new)]
    BY <1>5 DEF StoreReading, ReadingOf
  <2> HIDE DEF new
  <2>4. /\ readings'[request[h].series] = Append(readings[request[h].series], new)
        /\ \A t \in Series \ {request[h].series} : readings'[t] = readings[t]
    BY <2>1, <2>3 DEF TablesTyped
  <2> QED
    BY <1>5, <1>g, <2>1, <2>2, <2>4 DEF StoreReading, Stores, new
<1>6. ASSUME NEW h \in Handlers, FindOpen(h) PROVE Finds(h)
  <2>1. request[h] \in Request
    BY <1>6 DEF FindOpen, HandlersTyped
  <2>2. PICK a \in OpenIn(request[h].series) :
          /\ pc' = [pc EXCEPT ![h] = "update"]
          /\ request' = [request EXCEPT ![h] =
                            [request[h] EXCEPT !.found = a, !.seen = alerts[a].severity]]
    BY <1>6 DEF FindOpen, HandlersTyped
  <2> DEFINE r == [request[h] EXCEPT !.found = a, !.seen = alerts[a].severity]
  <2>3. /\ r.series = request[h].series /\ r.value = request[h].value /\ r.at = request[h].at
        /\ r.policy = request[h].policy /\ r.found = a /\ r.seen = alerts[a].severity
    BY <2>1 DEF Request
  <2> HIDE DEF r
  <2>4. pc'[h] = "update" /\ request'[h] = r /\ OthersKept(h)
    BY <2>2 DEF HandlersTyped, OthersKept, r
  <2> QED
    BY <1>6, <2>2, <2>3, <2>4 DEF FindOpen, Finds, GoesTo, database
<1>7. ASSUME NEW h \in Handlers, FindNone(h) PROVE FindsNone(h)
  BY <1>7, <1>f, <1>g DEF FindNone, FindsNone, database
<1>8. ASSUME NEW h \in Handlers, QueryRecent(h) PROVE Counts(h)
  <2>1. CASE Len(readings[request[h].series]) < request[h].policy.consecutiveBreaches /\ Finish(h)
    BY <1>8, <2>1, <1>f DEF QueryRecent, Counts, database
  <2>2. ASSUME NEW I \in Latest(request[h].series, request[h].policy.consecutiveBreaches),
               IF Breaching(request[h].series, I, request[h].policy)
               THEN Goto(h, "create") ELSE Finish(h)
        PROVE  Counts(h)
    BY <1>8, <2>2, <1>f, <1>g DEF QueryRecent, Counts, database
  <2> QED
    BY <1>8, <2>1, <2>2 DEF QueryRecent
<1>9. ASSUME NEW h \in Handlers, FollowLevel(h) PROVE Follows(h)
  <2>0. /\ request[h] \in Request /\ request[h].found \in AlertIds
        /\ alerts[request[h].found] \in Alert
    BY <1>9 DEF FollowLevel, HandlersTyped, TablesTyped, Request
  <2>5. LevelUnder(request[h].policy, request[h].value) \in Levels
    BY <1>9, LevelUnderType DEF FollowLevel
  <2> DEFINE row == [alerts[request[h].found] EXCEPT !.lastValue = request[h].value,
                    !.lastValueAt = request[h].at,
                    !.severity = LevelUnder(request[h].policy, request[h].value)]
  <2>6. alerts' = [alerts EXCEPT ![request[h].found] = row]
    BY <1>9, <2>0 DEF FollowLevel, TablesTyped
  <2>7. /\ row \in Alert /\ row.series = alerts[request[h].found].series
        /\ row.status = alerts[request[h].found].status
        /\ row.acknowledged = alerts[request[h].found].acknowledged
        /\ row.severity = LevelUnder(request[h].policy, request[h].value)
        /\ row.lastValue = request[h].value
        /\ row.lastValueAt = request[h].at
    BY <2>0, <2>5 DEF Alert, Request
  <2> HIDE DEF row
  <2>8. alerts'[request[h].found] = row
        /\ \A a \in AlertIds \ {request[h].found} : alerts'[a] = alerts[a]
    BY <2>0, <2>6 DEF TablesTyped
  <2> DEFINE r == [request[h] EXCEPT !.event = "escalated"]
  <2>9. /\ r.series = request[h].series /\ r.value = request[h].value /\ r.at = request[h].at
        /\ r.policy = request[h].policy /\ r.found = request[h].found
    BY <2>0 DEF Request
  <2>10. IF /\ LevelUnder(request[h].policy, request[h].value) = "critical"
            /\ request[h].seen = "warning"
         THEN /\ pc' = [pc EXCEPT ![h] = "announce"]
              /\ request' = [request EXCEPT ![h] = r]
         ELSE Finish(h)
    BY <1>9 DEF FollowLevel, HandlersTyped
  <2> HIDE DEF r
  <2>11. ASSUME pc' = [pc EXCEPT ![h] = "announce"], request' = [request EXCEPT ![h] = r]
         PROVE  OthersKept(h) /\ GoesTo(h, "announce") /\ request'[h].found = request[h].found
    BY <2>9, <2>11 DEF HandlersTyped, OthersKept, GoesTo
  <2> QED
    BY <1>9, <1>f, <2>0, <2>5, <2>7, <2>8, <2>10, <2>11 DEF FollowLevel, Follows
<1>10. ASSUME NEW h \in Handlers, ResolveHealthy(h) PROVE Heals(h)
  <2>0. /\ request[h] \in Request /\ request[h].found \in AlertIds
        /\ alerts[request[h].found] \in Alert
    BY <1>10 DEF ResolveHealthy, HandlersTyped, TablesTyped, Request
  <2> DEFINE row == [alerts[request[h].found] EXCEPT !.lastValue = request[h].value,
                    !.lastValueAt = request[h].at, !.status = "resolved"]
  <2>6. alerts' = [alerts EXCEPT ![request[h].found] = row]
    BY <1>10, <2>0 DEF ResolveHealthy, TablesTyped
  <2>7. /\ row \in Alert /\ row.series = alerts[request[h].found].series
        /\ row.status = "resolved"
        /\ row.acknowledged = alerts[request[h].found].acknowledged
        /\ row.severity = alerts[request[h].found].severity
        /\ row.lastValue = request[h].value
        /\ row.lastValueAt = request[h].at
    BY <2>0 DEF Alert, Request
  <2> HIDE DEF row
  <2>8. alerts'[request[h].found] = row
        /\ \A a \in AlertIds \ {request[h].found} : alerts'[a] = alerts[a]
    BY <2>0, <2>6 DEF TablesTyped
  <2> DEFINE r == [request[h] EXCEPT !.event = "resolved"]
  <2>9. /\ r.series = request[h].series /\ r.value = request[h].value /\ r.at = request[h].at
        /\ r.policy = request[h].policy /\ r.found = request[h].found
    BY <2>0 DEF Request
  <2>10. /\ pc' = [pc EXCEPT ![h] = "announce"]
         /\ request' = [request EXCEPT ![h] = r]
    BY <1>10 DEF ResolveHealthy, HandlersTyped
  <2> HIDE DEF r
  <2>11. OthersKept(h) /\ GoesTo(h, "announce") /\ request'[h].found = request[h].found
    BY <2>9, <2>10 DEF HandlersTyped, OthersKept, GoesTo
  <2> QED
    BY <1>10, <2>0, <2>7, <2>8, <2>11 DEF ResolveHealthy, Heals
<1>11. ASSUME NEW h \in Handlers, CreateAlert(h) PROVE \E a \in AlertIds : Creates(h, a)
  <2>0. request[h] \in Request /\ LevelUnder(request[h].policy, request[h].value) \in Levels
    BY <1>11 DEF CreateAlert, HandlersTyped
  <2> DEFINE row == [series |-> request[h].series, status |-> "open",
                     severity |-> LevelUnder(request[h].policy, request[h].value),
                     lastValue |-> request[h].value, lastValueAt |-> request[h].at,
                     acknowledged |-> FALSE]
  <2>5. /\ row \in Alert /\ row.series = request[h].series /\ row.status = "open"
        /\ row.severity = LevelUnder(request[h].policy, request[h].value)
        /\ row.lastValue = request[h].value /\ row.lastValueAt = request[h].at
        /\ row.acknowledged = FALSE
    BY <2>0 DEF Alert, Request
  <2>6. PICK a \in AlertIds :
          /\ alerts[a] = NoAlert
          /\ alerts' = [alerts EXCEPT ![a] = row]
          /\ request' = [request EXCEPT ![h] = [request[h] EXCEPT !.found = a, !.event = "opened"]]
    BY <1>11 DEF CreateAlert, HandlersTyped
  <2> HIDE DEF row
  <2>8. alerts'[a] = row /\ \A b \in AlertIds \ {a} : alerts'[b] = alerts[b]
    BY <2>6 DEF TablesTyped
  <2> DEFINE r == [request[h] EXCEPT !.found = a, !.event = "opened"]
  <2>9. /\ r.series = request[h].series /\ r.value = request[h].value /\ r.at = request[h].at
        /\ r.policy = request[h].policy /\ r.found = a
    BY <2>0 DEF Request
  <2>10. /\ pc' = [pc EXCEPT ![h] = "announce"]
         /\ request' = [request EXCEPT ![h] = r]
    BY <1>11, <2>6 DEF CreateAlert
  <2> HIDE DEF r
  <2>11. OthersKept(h) /\ GoesTo(h, "announce") /\ request'[h].found = a
    BY <2>9, <2>10 DEF HandlersTyped, OthersKept, GoesTo
  <2>12. Creates(h, a)
    BY <1>11, <2>5, <2>6, <2>8, <2>11 DEF CreateAlert, Creates
  <2> QED
    BY <2>12
<1>12. ASSUME NEW h \in Handlers, Announce(h) PROVE Announces(h)
  <2>1. /\ request[h] \in Request /\ request[h].found # NoAlert
        /\ alerts[request[h].found] # NoAlert
    BY <1>12 DEF Announce, HandlersTyped
  <2>2. request[h].found \in AlertIds
    BY <2>1 DEF Request
  <2> DEFINE new == [event |-> request[h].event,
                     level |-> LevelUnder(request[h].policy, request[h].value)]
  <2>3. announced' = [announced EXCEPT ![request[h].found] = Append(@, new)]
    BY <1>12 DEF Announce
  <2>4. new.level = LevelUnder(request[h].policy, request[h].value)
    OBVIOUS
  <2> HIDE DEF new
  <2>5. /\ announced'[request[h].found] = Append(announced[request[h].found], new)
        /\ announced[request[h].found] \in Seq(Announcement)
        /\ \A a \in AlertIds \ {request[h].found} : announced'[a] = announced[a]
    BY <2>2, <2>3 DEF TablesTyped
  <2>6. /\ announced'[request[h].found] # <<>>
        /\ announced'[request[h].found][Len(announced'[request[h].found])] = new
    BY <2>5
  <2> QED
    BY <1>12, <1>f, <2>1, <2>2, <2>4, <2>5, <2>6 DEF Announce, Announces, database
<1>13. ASSUME NEW u \in Users, CommitResolve(u) \/ CommitToggle(u) PROVE ResolvesByHand(u)
  <2>1. /\ userRequest[u] \in UserRequest
        /\ \A a \in userRequest[u].ids : a \in AlertIds /\ alerts[a] \in Alert
    BY <1>13 DEF CommitResolve, CommitToggle, UsersTyped, TablesTyped, UserRequest
  <2>3. ResolveByHand(userRequest[u].ids)
    BY <1>13 DEF CommitResolve, CommitToggle
  <2>4. \A a \in AlertIds :
          IF a \in userRequest[u].ids
          THEN /\ alerts'[a] = [alerts[a] EXCEPT !.status = "resolved"]
               /\ comments'[a] = Append(comments[a], "resolve")
          ELSE alerts'[a] = alerts[a] /\ comments'[a] = comments[a]
    BY <2>3 DEF ResolveByHand
  <2>5. \A v \in Users : userPc'[v] = "announce" =>
          IF v = u THEN userRequest'[v].ids = userRequest[u].ids
          ELSE userPc[v] = "announce" /\ userRequest'[v] = userRequest[v]
    BY <1>13 DEF CommitResolve, CommitToggle, UserFinish, UsersTyped
  <2>6. UNCHANGED <<readings, announced, sent, pc, request>>
    BY <1>13 DEF CommitResolve, CommitToggle
  <2>7. ASSUME NEW a \in AlertIds, a \in userRequest[u].ids
        PROVE  /\ alerts[a] \in Alert /\ alerts'[a] \in Alert
               /\ alerts'[a].series = alerts[a].series
               /\ alerts'[a].status = "resolved"
               /\ alerts'[a].acknowledged = alerts[a].acknowledged
               /\ alerts'[a].severity = alerts[a].severity
               /\ alerts'[a].lastValue = alerts[a].lastValue
               /\ alerts'[a].lastValueAt = alerts[a].lastValueAt
    <3> DEFINE new == [alerts[a] EXCEPT !.status = "resolved"]
    <3>1. alerts'[a] = new /\ alerts[a] \in Alert
      BY <2>1, <2>4, <2>7
    <3>2. /\ new \in Alert /\ new.series = alerts[a].series
          /\ new.status = "resolved"
          /\ new.acknowledged = alerts[a].acknowledged
          /\ new.severity = alerts[a].severity
          /\ new.lastValue = alerts[a].lastValue /\ new.lastValueAt = alerts[a].lastValueAt
      BY <2>1, <3>1 DEF Alert
    <3> HIDE DEF new
    <3> QED
      BY <3>1, <3>2
  <2> QED
    BY <2>4, <2>5, <2>6, <2>7 DEF ResolvesByHand
<1>14. ASSUME NEW u \in Users, CommitFlag(u) PROVE Flags(u)
  <2>1. /\ userRequest[u] \in UserRequest /\ userRequest[u].flag \in BOOLEAN
        /\ \A a \in userRequest[u].ids : a \in AlertIds /\ alerts[a] \in Alert
    BY <1>14 DEF CommitFlag, UsersTyped, TablesTyped, UserRequest
  <2>4. \A a \in AlertIds :
          IF a \in userRequest[u].ids
          THEN /\ alerts'[a] = [alerts[a] EXCEPT !.acknowledged = userRequest[u].flag]
               /\ comments'[a] = Append(comments[a], IF userRequest[u].flag THEN "ack" ELSE "unack")
          ELSE alerts'[a] = alerts[a] /\ comments'[a] = comments[a]
    BY <1>14 DEF CommitFlag
  <2>5. \A v \in Users : userPc'[v] = "announce" =>
          userPc[v] = "announce" /\ userRequest'[v] = userRequest[v]
    BY <1>14 DEF CommitFlag, UserFinish, UsersTyped
  <2>6. UNCHANGED <<readings, announced, sent, pc, request>>
    BY <1>14 DEF CommitFlag
  <2>7. ASSUME NEW a \in AlertIds, a \in userRequest[u].ids
        PROVE  /\ alerts[a] \in Alert /\ alerts'[a] \in Alert
               /\ alerts'[a].series = alerts[a].series
               /\ alerts'[a].status = alerts[a].status
               /\ alerts'[a].acknowledged = userRequest[u].flag
               /\ alerts'[a].severity = alerts[a].severity
               /\ alerts'[a].lastValue = alerts[a].lastValue
               /\ alerts'[a].lastValueAt = alerts[a].lastValueAt
    <3> DEFINE new == [alerts[a] EXCEPT !.acknowledged = userRequest[u].flag]
    <3>1. alerts'[a] = new /\ alerts[a] \in Alert
      BY <2>1, <2>4, <2>7
    <3>2. /\ new \in Alert /\ new.series = alerts[a].series
          /\ new.status = alerts[a].status
          /\ new.acknowledged = userRequest[u].flag
          /\ new.severity = alerts[a].severity
          /\ new.lastValue = alerts[a].lastValue /\ new.lastValueAt = alerts[a].lastValueAt
      BY <2>1, <3>1 DEF Alert
    <3> HIDE DEF new
    <3> QED
      BY <3>1, <3>2
  <2> QED
    BY <2>1, <2>4, <2>5, <2>6, <2>7 DEF Flags
<1>15. ASSUME NEW u \in Users, AnnounceResolved(u) PROVE Tells(u)
  <2>1. \A a \in userRequest[u].ids : alerts[a] # NoAlert
    BY <1>15 DEF AnnounceResolved, UsersTyped
  <2>2. \A v \in Users : userPc'[v] = "announce" =>
          userPc[v] = "announce" /\ userRequest'[v] = userRequest[v]
    BY <1>15 DEF AnnounceResolved, UserFinish, UsersTyped
  <2> QED
    BY <1>15, <2>1, <2>2 DEF AnnounceResolved, Tells, database
<1>16. ASSUME NEW u \in Users,
              \/ \E a \in AlertIds, flag \in BOOLEAN : ReadForFlag(u, a, flag)
              \/ \E a \in AlertIds : ReadForResolve(u, a)
              \/ \E i \in Interfaces, flag \in BOOLEAN : ReadForToggle(u, i, flag)
              \/ UserFail(u)
       PROVE  WritesNothing
  <2>1. ASSUME NEW ids, NEW flag, NEW i,
               UserBegin(u, "flag", ids, flag, i) \/ UserBegin(u, "resolve", ids, flag, i)
               \/ UserBegin(u, "toggle", ids, flag, i)
        PROVE  WritesNothing
    BY <2>1 DEF UserBegin, UsersTyped, WritesNothing, database
  <2>2. CASE UserFail(u)
    BY <2>2 DEF UserFail, UserFinish, UsersTyped, WritesNothing, database
  <2> QED
    BY <1>16, <2>1, <2>2 DEF ReadForFlag, ReadForResolve, ReadForToggle
<1>17. ASSUME (\E s \in Series, p \in Policies : SetPolicy(s, p)) \/ UNCHANGED vars
       PROVE  WritesNothing
  BY <1>17 DEF SetPolicy, vars, WritesNothing
<1> QED
  BY <1>1, <1>2, <1>3, <1>4, <1>5, <1>6, <1>7, <1>8, <1>9, <1>10, <1>11, <1>12, <1>13, <1>14, <1>15, <1>16, <1>17 DEF Next, HandlerStep, UserStep

-----------------------------------------------------------------------------
(* The flag and the comment thread. *)

\* A thread whose last ack or unack comment is an ack.
Flagged(c) ==
    \E i \in DOMAIN c : c[i] = "ack" /\ \A j \in i .. Len(c) : c[j] # "unack"

LEMMA FlaggedAppend ==
    ASSUME NEW c \in Seq({"ack", "unack", "resolve"}), NEW e \in {"ack", "unack", "resolve"}
    PROVE  Flagged(Append(c, e)) <=> e = "ack" \/ (e = "resolve" /\ Flagged(c))
<1> DEFINE n == Len(c)
           d == Append(c, e)
<1>1. /\ n \in Nat /\ DOMAIN c = 1 .. n /\ DOMAIN d = 1 .. n + 1 /\ Len(d) = n + 1
      /\ d[n + 1] = e /\ \A i \in 1 .. n : d[i] = c[i]
  OBVIOUS
<1>2. ASSUME e = "ack" PROVE Flagged(d)
  BY <1>1, <1>2 DEF Flagged
<1>3. ASSUME e = "resolve", Flagged(c) PROVE Flagged(d)
  <2>1. PICK i \in 1 .. n : c[i] = "ack" /\ \A j \in i .. n : c[j] # "unack"
    BY <1>1, <1>3 DEF Flagged
  <2>2. d[i] = "ack" /\ \A j \in i .. n + 1 : d[j] # "unack"
    BY <1>1, <1>3, <2>1
  <2> QED
    BY <1>1, <2>1, <2>2 DEF Flagged
<1>4. ASSUME e # "ack", Flagged(d) PROVE e = "resolve" /\ Flagged(c)
  <2>1. PICK i \in 1 .. n + 1 : d[i] = "ack" /\ \A j \in i .. n + 1 : d[j] # "unack"
    BY <1>1, <1>4 DEF Flagged
  <2>2. i \in 1 .. n /\ e # "unack"
    BY <1>1, <1>4, <2>1
  <2>3. c[i] = "ack" /\ \A j \in i .. n : c[j] # "unack"
    BY <1>1, <2>1, <2>2
  <2> QED
    BY <1>1, <1>4, <2>2, <2>3 DEF Flagged
<1> QED
  BY <1>2, <1>3, <1>4

\* Nobody comments on, or is told of, an alert that is not there yet.
UnopenedIsBare ==
    \A a \in AlertIds : alerts[a] = NoAlert => comments[a] = <<>> /\ announced[a] = <<>>

FlagInv == TypeOK /\ UnopenedIsBare /\ FlagMatchesComments

LEMMA FlagInit == Init => FlagInv
<1> SUFFICES ASSUME Init PROVE FlagInv
  OBVIOUS
<1> QED
  BY TypeInit DEF Init, FlagInv, UnopenedIsBare, FlagMatchesComments

LEMMA FlagStep == FlagInv /\ [Next]_vars => FlagInv'
<1> SUFFICES ASSUME FlagInv, [Next]_vars PROVE FlagInv'
  OBVIOUS
<1> DEFINE Right(a) == alerts[a] # NoAlert => (alerts[a].acknowledged <=> Flagged(comments[a]))
           Bare(a) == alerts[a] = NoAlert => comments[a] = <<>> /\ announced[a] = <<>>
<1>1. TypeOK /\ TypeOK' /\ \A a \in AlertIds : Right(a) /\ Bare(a)
  BY TypeStep DEF FlagInv, FlagMatchesComments, Flagged, UnopenedIsBare
<1>2. /\ \A a \in AlertIds : comments[a] \in Seq({"ack", "unack", "resolve"})
      /\ \A a \in AlertIds : alerts[a] # NoAlert => alerts[a] \in Alert
  BY <1>1 DEF TypeOK, TablesTyped
<1>3. ASSUME NEW a \in AlertIds PROVE Right(a)' /\ Bare(a)'
  <2>1. ASSUME NEW h \in Handlers,
               \/ \E s \in Series : Begins(h, s)
               \/ Admits(h) \/ Leaves(h) \/ Stores(h) \/ Finds(h) \/ FindsNone(h) \/ Counts(h)
        PROVE  UNCHANGED <<alerts, comments, announced>>
    BY <2>1 DEF Begins, Admits, Leaves, Stores, Finds, FindsNone, Counts
  <2>2. ASSUME NEW h \in Handlers, Follows(h) \/ Heals(h)
        PROVE  Right(a)' /\ Bare(a)'
    <3>1. /\ UNCHANGED <<comments, announced>>
          /\ \/ alerts'[a] = alerts[a]
             \/ /\ alerts[a] \in Alert /\ alerts'[a] \in Alert
                /\ alerts'[a].acknowledged = alerts[a].acknowledged
      BY <2>2 DEF Follows, Heals
    <3> QED
      BY <1>1, <3>1, NoAlertAssumption
  <2>3. ASSUME NEW h \in Handlers, NEW b \in AlertIds, Creates(h, b)
        PROVE  Right(a)' /\ Bare(a)'
    <3>1. /\ UNCHANGED <<comments, announced>>
          /\ \/ alerts'[a] = alerts[a]
             \/ /\ alerts[a] = NoAlert /\ alerts'[a] \in Alert
                /\ alerts'[a].acknowledged = FALSE
      BY <2>3 DEF Creates
    <3>2. ~Flagged(<<>>)
      BY DEF Flagged
    <3> QED
      BY <1>1, <3>1, <3>2, NoAlertAssumption
  <2>4. ASSUME NEW h \in Handlers, Announces(h)
        PROVE  Right(a)' /\ Bare(a)'
    BY <1>1, <2>4 DEF Announces
  <2>5. ASSUME NEW u \in Users, ResolvesByHand(u)
        PROVE  Right(a)' /\ Bare(a)'
    <3>1. /\ UNCHANGED announced
          /\ \/ alerts'[a] = alerts[a] /\ comments'[a] = comments[a]
             \/ /\ alerts[a] \in Alert /\ alerts'[a] \in Alert
                /\ alerts'[a].acknowledged = alerts[a].acknowledged
                /\ comments'[a] = Append(comments[a], "resolve")
      BY <2>5 DEF ResolvesByHand
    <3>2. Flagged(Append(comments[a], "resolve")) <=> Flagged(comments[a])
      BY <1>2, FlaggedAppend
    <3> QED
      BY <1>1, <3>1, <3>2, NoAlertAssumption
  <2>6. ASSUME NEW u \in Users, Flags(u)
        PROVE  Right(a)' /\ Bare(a)'
    <3> DEFINE flag == userRequest[u].flag
               word == IF flag THEN "ack" ELSE "unack"
    <3>1. /\ UNCHANGED announced /\ flag \in BOOLEAN
          /\ \/ alerts'[a] = alerts[a] /\ comments'[a] = comments[a]
             \/ /\ alerts[a] \in Alert /\ alerts'[a] \in Alert
                /\ alerts'[a].acknowledged = flag
                /\ comments'[a] = Append(comments[a], word)
      BY <2>6 DEF Flags
    <3>2. Flagged(Append(comments[a], word)) <=> flag
      BY <1>2, <3>1, FlaggedAppend
    <3> HIDE DEF flag, word
    <3> QED
      BY <1>1, <3>1, <3>2, NoAlertAssumption
  <2>7. ASSUME NEW u \in Users, Tells(u)
        PROVE  Right(a)' /\ Bare(a)'
    BY <1>1, <2>7 DEF Tells
  <2>8. ASSUME UNCHANGED <<alerts, comments, announced>>
        PROVE  Right(a)' /\ Bare(a)'
    BY <1>1, <2>8
  <2> QED
    BY <1>1, <2>1, <2>2, <2>3, <2>4, <2>5, <2>6, <2>7, <2>8, StepEffects DEF WritesNothing
<1> QED
  BY <1>1, <1>3 DEF FlagInv, FlagMatchesComments, Flagged, UnopenedIsBare

\* An alert is acknowledged exactly when the last ack or unack comment in its
\* thread is an ack, however the users' requests and the readings interleave
\* and wherever a request fails (updateAlert).
THEOREM FlagIsCommented == Spec => []FlagMatchesComments
<1>1. FlagInv => FlagMatchesComments
  BY DEF FlagInv
<1> QED
  BY FlagInit, FlagStep, <1>1, PTL DEF Spec

-----------------------------------------------------------------------------
(* What an alert shows, when requests for a series do not overlap. *)

Judging == {"find", "update", "recent", "create"}

\* Without overlap the reading a request is judging is its series' newest.
JudgesNewest ==
    \A h \in Handlers : pc[h] \in Judging =>
        /\ readings[request[h].series] # <<>>
        /\ Newest(request[h].series) = ReadingOf(request[h])

\* What a request has found is its series' only open alert, unless somebody
\* resolved it by hand meanwhile, and nobody else changes its severity.
FindingStands(h) ==
    LET id == request[h].found
        s == request[h].series
    IN
    /\ pc[h] \in {"update", "announce"} => alerts[id].series = s
    /\ pc[h] = "update" =>
          /\ OpenIn(s) \subseteq {id}
          /\ IF IsOpen(id) THEN alerts[id].severity = request[h].seen ELSE ResolvedByHand(id)
    /\ pc[h] = "announce" /\ IsOpen(id) =>
          alerts[id].severity = LevelUnder(request[h].policy, request[h].value)

FoundStays == \A h \in Handlers : FindingStands(h)

\* The inductive invariant behind AlertTellsAReading.
TellsInv == SerialInv /\ JudgesNewest /\ FoundStays /\ AlertTellsAReading

LEMMA ReadingAppended ==
    ASSUME NEW s \in Seq(Reading), NEW r \in Reading
    PROVE  /\ Append(s, r) # <<>> /\ Append(s, r)[Len(Append(s, r))] = r
           /\ Len(Append(s, r)) = Len(s) + 1
           /\ Append(s, r)[Len(s) + 1] = r
           /\ \A i \in DOMAIN s : i \in DOMAIN Append(s, r) /\ Append(s, r)[i] = s[i]
  OBVIOUS

LEMMA JudgesNewestStep ==
    ASSUME ~AllowOverlap, TypeOK, OneRequestPerSeries, JudgesNewest, [Next]_vars
    PROVE  JudgesNewest'
<1>1. /\ \A s \in Series : readings[s] \in Seq(Reading)
      /\ \A g \in Handlers : pc[g] # "idle" => request[g].series \in Series
  BY DEF TypeOK, TablesTyped, HandlersTyped, Request
<1>2. \A g, h \in Handlers :
          pc[g] # "idle" /\ pc[h] # "idle" /\ request[h].series = request[g].series => g = h
  BY DEF OneRequestPerSeries, Serving
<1> USE DEF JudgesNewest, Judging, Newest, ReadingOf, GoesTo, OthersKept
<1>3. ASSUME NEW h \in Handlers, \E s \in Series : Begins(h, s) PROVE JudgesNewest'
  BY <1>3 DEF Begins
<1>4. ASSUME NEW h \in Handlers, Admits(h) \/ Leaves(h) PROVE JudgesNewest'
  BY <1>4 DEF Admits, Leaves
<1>5. ASSUME NEW h \in Handlers, Stores(h) PROVE JudgesNewest'
  <2> DEFINE s == request[h].series
             r == ReadingOf(request[h])
  <2>1. /\ readings'[s] = Append(readings[s], r) /\ r \in Reading /\ s \in Series
        /\ \A t \in Series \ {s} : readings'[t] = readings[t]
        /\ pc[h] = "store" /\ GoesTo(h, "find") /\ OthersKept(h)
    BY <1>5 DEF Stores
  <2>2. readings'[s] # <<>> /\ readings'[s][Len(readings'[s])] = r
    BY <1>1, <2>1, ReadingAppended
  <2>3. ReadingOf(request'[h]) = r /\ request'[h].series = s
    BY <2>1
  <2> SUFFICES ASSUME NEW g \in Handlers, pc'[g] \in Judging
               PROVE  /\ readings'[request'[g].series] # <<>>
                      /\ readings'[request'[g].series][Len(readings'[request'[g].series])]
                            = ReadingOf(request'[g])
    OBVIOUS
  <2>4. CASE g = h
    BY <2>2, <2>3, <2>4
  <2>5. CASE g # h
    <3>1. pc[g] = pc'[g] /\ request'[g] = request[g] /\ request[g].series # s
      BY <1>2, <2>1, <2>5
    <3> QED
      BY <1>1, <2>1, <3>1
  <2> QED
    BY <2>4, <2>5
<1>6. ASSUME NEW h \in Handlers, Finds(h) \/ FindsNone(h) PROVE JudgesNewest'
  BY <1>6 DEF Finds, FindsNone
<1>7. ASSUME NEW h \in Handlers, Counts(h) PROVE JudgesNewest'
  BY <1>7 DEF Counts
<1>8. ASSUME NEW h \in Handlers, Follows(h) PROVE JudgesNewest'
  BY <1>8 DEF Follows
<1>9. ASSUME NEW h \in Handlers, Heals(h) PROVE JudgesNewest'
  BY <1>9 DEF Heals
<1>10. ASSUME NEW h \in Handlers, \E a \in AlertIds : Creates(h, a) PROVE JudgesNewest'
  BY <1>10 DEF Creates
<1>11. ASSUME NEW h \in Handlers, Announces(h) PROVE JudgesNewest'
  BY <1>11 DEF Announces
<1>12. ASSUME UNCHANGED <<readings, pc, request>> PROVE JudgesNewest'
  BY <1>12
<1> QED
  BY <1>3, <1>4, <1>5, <1>6, <1>7, <1>8, <1>9, <1>10, <1>11, <1>12, StepEffects DEF ResolvesByHand, Flags, Tells, WritesNothing

LEMMA ByHandStays ==
    ASSUME TypeOK, NEW a \in AlertIds, NEW word \in {"ack", "unack", "resolve"},
           \/ comments'[a] = comments[a]
           \/ comments'[a] = Append(comments[a], word)
    PROVE  ResolvedByHand(a) => ResolvedByHand(a)'
<1>1. comments[a] \in Seq({"ack", "unack", "resolve"})
  BY DEF TypeOK, TablesTyped
<1> QED
  BY <1>1 DEF ResolvedByHand

LEMMA ByHandWritten ==
    ASSUME TypeOK, NEW a \in AlertIds, comments'[a] = Append(comments[a], "resolve")
    PROVE  ResolvedByHand(a)'
<1>1. comments[a] \in Seq({"ack", "unack", "resolve"})
  BY DEF TypeOK, TablesTyped
<1> QED
  BY <1>1 DEF ResolvedByHand

\* No step takes a resolve comment back.
LEMMA ByHandKept ==
    ASSUME TypeOK, [Next]_vars, NEW a \in AlertIds, ResolvedByHand(a)
    PROVE  ResolvedByHand(a)'
<1>1. \E word \in {"ack", "unack", "resolve"} :
         comments'[a] = comments[a] \/ comments'[a] = Append(comments[a], word)
  BY StepEffects DEF Begins, Admits, Leaves, Stores, Finds, FindsNone, Counts, Follows, Heals,
       Creates, Announces, ResolvesByHand, Flags, Tells, WritesNothing
<1> QED
  BY <1>1, ByHandStays

LEMMA FoundStaysStep ==
    ASSUME ~AllowOverlap, SerialInv, FoundStays, [Next]_vars
    PROVE  FoundStays'
<1>1. TypeOK /\ OneRequestPerSeries /\ OneOpenAlert /\ CreatesWhereNoneIsOpen
  BY DEF SerialInv
<1>2. \A g \in Handlers : pc[g] \in {"update", "announce"} =>
          request[g].found \in AlertIds /\ alerts[request[g].found] \in Alert
  BY <1>1 DEF TypeOK, TablesTyped, HandlersTyped, Request
<1>3. \A g, h \in Handlers :
          pc[g] # "idle" /\ pc[h] # "idle" /\ request[h].series = request[g].series => g = h
  BY <1>1 DEF OneRequestPerSeries, Serving
<1>4. \A a \in AlertIds : ResolvedByHand(a) => ResolvedByHand(a)'
  BY <1>1, ByHandKept
<1> USE DEF FoundStays, FindingStands, GoesTo, OthersKept
<1>5. ASSUME NEW h \in Handlers, UNCHANGED <<alerts, comments>>, OthersKept(h),
             pc'[h] \notin {"update", "announce"}
      PROVE  FoundStays'
  BY <1>2, <1>5 DEF OpenIn, IsOpen, ResolvedByHand
<1>6. ASSUME NEW h \in Handlers, Finds(h) PROVE FoundStays'
  <2>1. /\ UNCHANGED <<alerts, comments>> /\ OthersKept(h)
        /\ pc'[h] = "update" /\ request'[h].found \in OpenIn(request[h].series)
        /\ request'[h].series = request[h].series
        /\ request'[h].seen = alerts[request'[h].found].severity
    BY <1>6 DEF Finds
  <2>2. OpenIn(request[h].series) \subseteq {request'[h].found}
    BY <1>1, <2>1 DEF OneOpenAlert, OpenIn
  <2> QED
    BY <1>2, <2>1, <2>2 DEF OpenIn, IsOpen, ResolvedByHand
<1>7. ASSUME NEW h \in Handlers, Follows(h) PROVE FoundStays'
  <2> DEFINE id == request[h].found
  <2>1. /\ UNCHANGED comments /\ pc[h] = "update" /\ OthersKept(h)
        /\ id \in AlertIds /\ alerts[id] \in Alert /\ alerts'[id] \in Alert
        /\ alerts'[id].series = alerts[id].series
        /\ alerts'[id].status = alerts[id].status
        /\ alerts'[id].severity = LevelUnder(request[h].policy, request[h].value)
        /\ \A a \in AlertIds \ {id} : alerts'[a] = alerts[a]
        /\ \/ GoesTo(h, "announce") /\ request'[h].found = id
           \/ pc'[h] = "idle"
    BY <1>7 DEF Follows
  <2>2. \A a \in AlertIds : (IsOpen(a)' <=> IsOpen(a)) /\ (IsOpen(a) => alerts'[a].series = alerts[a].series)
    BY <2>1, NoAlertAssumption DEF IsOpen
  <2>3. \A s : OpenIn(s)' = OpenIn(s)
    BY <2>2 DEF OpenIn
  <2>4. ASSUME NEW g \in Handlers \ {h}, pc'[g] \in {"update", "announce"}
        PROVE  request[g].found # id
    BY <1>3, <2>1, <2>4
  <2>6. alerts[id].series = request[h].series
    BY <2>1
  <2> HIDE DEF id
  <2>5. ASSUME NEW g \in Handlers PROVE FindingStands(g)'
    <3>1. CASE g = h
      BY <2>1, <2>2, <2>6, <3>1
    <3>2. CASE g # h
      BY <1>2, <1>4, <2>1, <2>2, <2>3, <2>4, <3>2
    <3> QED
      BY <3>1, <3>2
  <2> QED
    BY <2>5
<1>8. ASSUME NEW h \in Handlers, Heals(h) PROVE FoundStays'
  <2> DEFINE id == request[h].found
  <2>1. /\ UNCHANGED comments /\ pc[h] = "update" /\ OthersKept(h)
        /\ id \in AlertIds /\ alerts[id] \in Alert /\ alerts'[id] \in Alert
        /\ alerts'[id].series = alerts[id].series
        /\ alerts'[id].status = "resolved"
        /\ \A a \in AlertIds \ {id} : alerts'[a] = alerts[a]
        /\ GoesTo(h, "announce") /\ request'[h].found = id
    BY <1>8 DEF Heals
  <2>2. /\ \A a \in AlertIds \ {id} : IsOpen(a)' <=> IsOpen(a)
        /\ \A a \in AlertIds : a = id => ~IsOpen(a)'
    BY <2>1 DEF IsOpen
  <2>3. \A s : OpenIn(s)' \subseteq OpenIn(s)
    BY <2>1, <2>2 DEF OpenIn
  <2>4. ASSUME NEW g \in Handlers \ {h}, pc'[g] \in {"update", "announce"}
        PROVE  request[g].found # id
    BY <1>3, <2>1, <2>4
  <2>6. alerts[id].series = request[h].series
    BY <2>1
  <2> HIDE DEF id
  <2>5. ASSUME NEW g \in Handlers PROVE FindingStands(g)'
    <3>1. CASE g = h
      BY <2>1, <2>2, <2>6, <3>1
    <3>2. CASE g # h
      BY <1>2, <1>4, <2>1, <2>2, <2>3, <2>4, <3>2
    <3> QED
      BY <3>1, <3>2
  <2> QED
    BY <2>5
<1>9. ASSUME NEW h \in Handlers, NEW b \in AlertIds, Creates(h, b) PROVE FoundStays'
  <2>1. /\ UNCHANGED comments /\ pc[h] = "create" /\ OthersKept(h)
        /\ alerts[b] = NoAlert /\ alerts'[b] \in Alert
        /\ alerts'[b].series = request[h].series
        /\ alerts'[b].severity = LevelUnder(request[h].policy, request[h].value)
        /\ \A a \in AlertIds \ {b} : alerts'[a] = alerts[a]
        /\ GoesTo(h, "announce") /\ request'[h].found = b
    BY <1>9 DEF Creates
  <2>2. \A a \in AlertIds \ {b} : IsOpen(a)' <=> IsOpen(a)
    BY <2>1 DEF IsOpen
  <2>3. ASSUME NEW g \in Handlers \ {h}, pc'[g] \in {"update", "announce"}
        PROVE  /\ request[g].found # b
               /\ pc[g] = "update" => OpenIn(request[g].series)' \subseteq OpenIn(request[g].series)
    <3>1. request[g].series # request[h].series
      BY <1>3, <2>1, <2>3
    <3> QED
      BY <1>2, <2>1, <2>2, <2>3, <3>1, NoAlertAssumption DEF OpenIn
  <2> QED
    BY <1>2, <1>4, <2>1, <2>2, <2>3
<1>10. ASSUME UNCHANGED <<pc, request>>,
              \A a \in AlertIds :
                 \/ alerts'[a] = alerts[a]
                 \/ /\ alerts[a] \in Alert /\ alerts'[a] \in Alert
                    /\ alerts'[a].series = alerts[a].series
                    /\ alerts'[a].severity = alerts[a].severity
                    /\ alerts'[a].status = alerts[a].status
                          \/ (alerts'[a].status = "resolved" /\ ResolvedByHand(a)')
       PROVE  FoundStays'
  <2>1. \A a \in AlertIds : IsOpen(a)' => IsOpen(a) /\ alerts'[a].series = alerts[a].series
    BY <1>10, NoAlertAssumption DEF IsOpen
  <2>2. \A s : OpenIn(s)' \subseteq OpenIn(s)
    BY <2>1 DEF OpenIn
  <2>3. \A a \in AlertIds : IsOpen(a) /\ ~IsOpen(a)' => ResolvedByHand(a)'
    BY <1>10, NoAlertAssumption DEF IsOpen
  <2> QED
    BY <1>2, <1>4, <1>10, <2>1, <2>2, <2>3
<1>11. ASSUME NEW u \in Users, ResolvesByHand(u) PROVE FoundStays'
  <2>1. \A a \in AlertIds : a \in userRequest[u].ids => ResolvedByHand(a)'
    BY <1>1, <1>11, ByHandWritten DEF ResolvesByHand
  <2> QED
    BY <1>10, <1>11, <2>1 DEF ResolvesByHand
<1>12. ASSUME NEW u \in Users, Flags(u) PROVE FoundStays'
  BY <1>10, <1>12 DEF Flags
<1>13. ASSUME NEW h \in Handlers,
              \/ \E s \in Series : Begins(h, s)
              \/ Admits(h) \/ Leaves(h) \/ Stores(h) \/ FindsNone(h) \/ Counts(h) \/ Announces(h)
       PROVE  FoundStays'
  BY <1>5, <1>13 DEF Begins, Admits, Leaves, Stores, FindsNone, Counts, Announces
<1>14. ASSUME UNCHANGED <<alerts, pc, request>> PROVE FoundStays'
  BY <1>10, <1>14
<1> QED
  BY <1>1, <1>6, <1>7, <1>8, <1>9, <1>11, <1>12, <1>13, <1>14, StepEffects DEF Tells, WritesNothing

\* Readings are never changed or removed.
LEMMA ReadingsGrow ==
    ASSUME TypeOK, [Next]_vars, NEW s \in Series, NEW i \in DOMAIN readings[s]
    PROVE  i \in DOMAIN readings'[s] /\ readings'[s][i] = readings[s][i]
<1>1. readings[s] \in Seq(Reading)
  BY DEF TypeOK, TablesTyped
<1>2. \/ readings'[s] = readings[s]
      \/ \E r \in Reading : readings'[s] = Append(readings[s], r)
  BY StepEffects DEF Begins, Admits, Leaves, Stores, Finds, FindsNone, Counts, Follows, Heals,
       Creates, Announces, ResolvesByHand, Flags, Tells, WritesNothing
<1> QED
  BY <1>1, <1>2, ReadingAppended

LEMMA TellsStep ==
    ASSUME ~AllowOverlap, SerialInv, JudgesNewest, FoundStays, AlertTellsAReading, [Next]_vars
    PROVE  AlertTellsAReading'
<1> DEFINE Shows(a, i) ==
              LET reading == readings[alerts[a].series][i]
                  level == LevelUnder(reading.policy, reading.value)
              IN  /\ i \in DOMAIN readings[alerts[a].series]
                  /\ reading.value = alerts[a].lastValue
                  /\ reading.at = alerts[a].lastValueAt
                  /\ IF IsOpen(a) THEN level = alerts[a].severity
                     ELSE level = NoLevel \/ ResolvedByHand(a)
           Told(a) == alerts[a] # NoAlert => \E i : Shows(a, i)
<1>1. TypeOK
  BY DEF SerialInv
<1>2. \A a \in AlertIds : alerts[a] # NoAlert => alerts[a] \in Alert /\ alerts[a].series \in Series
  BY <1>1 DEF TypeOK, TablesTyped, Alert
<1>3. \A a \in AlertIds : ResolvedByHand(a) => ResolvedByHand(a)'
  BY <1>1, ByHandKept
<1>4. \A s \in Series : \A i \in DOMAIN readings[s] :
          i \in DOMAIN readings'[s] /\ readings'[s][i] = readings[s][i]
  BY <1>1, ReadingsGrow
<1>5. \A a \in AlertIds : Told(a)
  BY DEF AlertTellsAReading, ResolvedByHand
<1>6. ASSUME NEW h \in Handlers, pc[h] \in Judging
      PROVE  \E i : /\ i \in DOMAIN readings'[request[h].series]
                    /\ readings'[request[h].series][i].value = request[h].value
                    /\ readings'[request[h].series][i].at = request[h].at
                    /\ readings'[request[h].series][i].policy = request[h].policy
  <2>1. request[h].series \in Series /\ readings[request[h].series] \in Seq(Reading)
    BY <1>1, <1>6 DEF TypeOK, TablesTyped, HandlersTyped, Request, Judging
  <2>2. /\ readings[request[h].series] # <<>>
        /\ Newest(request[h].series) = ReadingOf(request[h])
    BY <1>6 DEF JudgesNewest
  <2>3. Len(readings[request[h].series]) \in DOMAIN readings[request[h].series]
    BY <2>1, <2>2
  <2> QED
    BY <1>4, <2>1, <2>2, <2>3 DEF Newest, ReadingOf
<1>7. ASSUME NEW a \in AlertIds PROVE Told(a)'
  <2>1. ASSUME alerts[a] \in Alert, alerts'[a] \in Alert,
               alerts'[a].series = alerts[a].series,
               alerts'[a].severity = alerts[a].severity,
               alerts'[a].lastValue = alerts[a].lastValue,
               alerts'[a].lastValueAt = alerts[a].lastValueAt,
               \/ alerts'[a].status = alerts[a].status
               \/ alerts'[a].status = "resolved" /\ ResolvedByHand(a)'
        PROVE  Told(a)'
    <3>1. PICK i : Shows(a, i)
      BY <1>5, <2>1, NoAlertAssumption
    <3>2. /\ i \in DOMAIN readings'[alerts'[a].series]
          /\ readings'[alerts'[a].series][i] = readings[alerts[a].series][i]
      BY <1>2, <1>4, <2>1, <3>1, NoAlertAssumption
    <3>3. IsOpen(a)' => IsOpen(a)
      BY <2>1, NoAlertAssumption DEF IsOpen
    <3>4. IsOpen(a) /\ ~IsOpen(a)' => ResolvedByHand(a)'
      BY <2>1, NoAlertAssumption DEF IsOpen
    <3>5. Shows(a, i)'
      BY <1>3, <2>1, <3>1, <3>2, <3>3, <3>4
    <3> QED
      BY <3>5
  <2>2. ASSUME alerts'[a] = alerts[a] PROVE Told(a)'
    <3>1. CASE alerts[a] = NoAlert
      BY <2>2, <3>1
    <3>2. CASE alerts[a] # NoAlert
      BY <1>2, <2>1, <2>2, <3>2
    <3> QED
      BY <3>1, <3>2
  <2>3. ASSUME NEW h \in Handlers, Follows(h), a = request[h].found PROVE Told(a)'
    <3>1. /\ pc[h] = "update" /\ alerts'[a] \in Alert /\ alerts[a] \in Alert
          /\ alerts'[a].series = alerts[a].series
          /\ alerts'[a].status = alerts[a].status
          /\ alerts'[a].severity = LevelUnder(request[h].policy, request[h].value)
          /\ alerts'[a].lastValue = request[h].value
          /\ alerts'[a].lastValueAt = request[h].at
      BY <2>3 DEF Follows
    <3>2. alerts[a].series = request[h].series /\ (IsOpen(a) \/ ResolvedByHand(a))
      BY <2>3, <3>1 DEF FoundStays, FindingStands
    <3>3. IsOpen(a)' <=> IsOpen(a)
      BY <3>1, NoAlertAssumption DEF IsOpen
    <3>4. PICK i : /\ i \in DOMAIN readings'[request[h].series]
                    /\ readings'[request[h].series][i].value = request[h].value
                    /\ readings'[request[h].series][i].at = request[h].at
                    /\ readings'[request[h].series][i].policy = request[h].policy
      BY <1>6, <3>1 DEF Judging
    <3>5. Shows(a, i)'
      BY <1>3, <3>1, <3>2, <3>3, <3>4
    <3> QED
      BY <3>5
  <2>4. ASSUME NEW h \in Handlers, Heals(h), a = request[h].found PROVE Told(a)'
    <3>1. /\ pc[h] = "update" /\ alerts'[a].series = alerts[a].series
          /\ alerts'[a].status = "resolved"
          /\ LevelUnder(request[h].policy, request[h].value) = NoLevel
          /\ alerts'[a].lastValue = request[h].value
          /\ alerts'[a].lastValueAt = request[h].at
      BY <2>4 DEF Heals
    <3>2. alerts[a].series = request[h].series
      BY <2>4, <3>1 DEF FoundStays, FindingStands
    <3>3. ~IsOpen(a)'
      BY <3>1 DEF IsOpen
    <3>4. PICK i : /\ i \in DOMAIN readings'[request[h].series]
                    /\ readings'[request[h].series][i].value = request[h].value
                    /\ readings'[request[h].series][i].at = request[h].at
                    /\ readings'[request[h].series][i].policy = request[h].policy
      BY <1>6, <3>1 DEF Judging
    <3>5. Shows(a, i)'
      BY <3>1, <3>2, <3>3, <3>4
    <3> QED
      BY <3>5
  <2>5. ASSUME NEW h \in Handlers, Creates(h, a) PROVE Told(a)'
    <3>1. /\ pc[h] = "create" /\ alerts'[a].series = request[h].series
          /\ alerts'[a] \in Alert /\ alerts'[a].status = "open"
          /\ alerts'[a].severity = LevelUnder(request[h].policy, request[h].value)
          /\ alerts'[a].lastValue = request[h].value
          /\ alerts'[a].lastValueAt = request[h].at
      BY <2>5 DEF Creates
    <3>2. IsOpen(a)'
      BY <3>1, NoAlertAssumption DEF IsOpen
    <3>3. PICK i : /\ i \in DOMAIN readings'[request[h].series]
                    /\ readings'[request[h].series][i].value = request[h].value
                    /\ readings'[request[h].series][i].at = request[h].at
                    /\ readings'[request[h].series][i].policy = request[h].policy
      BY <1>6, <3>1 DEF Judging
    <3>4. Shows(a, i)'
      BY <3>1, <3>2, <3>3
    <3> QED
      BY <3>4
  <2>6. ASSUME NEW u \in Users, ResolvesByHand(u) PROVE Told(a)'
    <3>1. a \in userRequest[u].ids => ResolvedByHand(a)'
      BY <1>1, <2>6, ByHandWritten DEF ResolvesByHand
    <3> QED
      BY <2>1, <2>2, <2>6, <3>1 DEF ResolvesByHand
  <2>7. ASSUME NEW u \in Users, Flags(u) PROVE Told(a)'
    BY <2>1, <2>2, <2>7 DEF Flags
  <2>8. \/ alerts'[a] = alerts[a]
        \/ \E h \in Handlers : \/ (Follows(h) \/ Heals(h)) /\ a = request[h].found
                               \/ Creates(h, a)
        \/ \E u \in Users : ResolvesByHand(u) \/ Flags(u)
    <3>1. ASSUME NEW h \in Handlers, Follows(h) \/ Heals(h), a # request[h].found
          PROVE  alerts'[a] = alerts[a]
      BY <3>1 DEF Follows, Heals
    <3>2. ASSUME NEW h \in Handlers, NEW b \in AlertIds, Creates(h, b), a # b
          PROVE  alerts'[a] = alerts[a]
      BY <3>2 DEF Creates
    <3>3. ASSUME NEW h \in Handlers,
                 \/ \E s \in Series : Begins(h, s)
                 \/ Admits(h) \/ Leaves(h) \/ Stores(h) \/ Finds(h) \/ FindsNone(h) \/ Counts(h)
                 \/ Announces(h)
          PROVE  alerts' = alerts
      BY <3>3 DEF Begins, Admits, Leaves, Stores, Finds, FindsNone, Counts, Announces
    <3>4. ASSUME (\E u \in Users : Tells(u)) \/ WritesNothing
          PROVE  alerts' = alerts
      BY <3>4 DEF Tells, WritesNothing
    <3> QED
      BY <1>1, <3>1, <3>2, <3>3, <3>4, StepEffects
  <2> HIDE DEF Told
  <2> QED
    BY <2>2, <2>3, <2>4, <2>5, <2>6, <2>7, <2>8
<1> QED
  BY <1>7 DEF AlertTellsAReading, ResolvedByHand

LEMMA TellsInvInit == Init => TellsInv
<1> SUFFICES ASSUME Init PROVE TellsInv
  OBVIOUS
<1>1. SerialInv
  BY SerialInit
<1> QED
  BY <1>1 DEF Init, TellsInv, JudgesNewest, Judging, FoundStays, FindingStands, AlertTellsAReading

LEMMA TellsInvStep == ~AllowOverlap /\ TellsInv /\ [Next]_vars => TellsInv'
<1> SUFFICES ASSUME ~AllowOverlap, TellsInv, [Next]_vars PROVE TellsInv'
  OBVIOUS
<1>1. SerialInv' /\ TypeOK /\ OneRequestPerSeries
  BY SerialStep DEF TellsInv, SerialInv
<1>2. JudgesNewest'
  BY <1>1, JudgesNewestStep DEF TellsInv
<1>3. FoundStays'
  BY FoundStaysStep DEF TellsInv
<1>4. AlertTellsAReading'
  BY TellsStep DEF TellsInv
<1> QED
  BY <1>1, <1>2, <1>3, <1>4 DEF TellsInv

\* An open alert shows the level, value and time of a reading that was stored,
\* and a resolved one either shows a healthy reading or was resolved by hand,
\* whatever users do and wherever a request fails, provided requests for a
\* series do not overlap (recordValue, resolveAlert, setInterfaceMonitored).
THEOREM ShowsAReading == ~AllowOverlap => (Spec => []AlertTellsAReading)
<1> SUFFICES ASSUME ~AllowOverlap PROVE Spec => []AlertTellsAReading
  OBVIOUS
<1>1. TellsInv => AlertTellsAReading
  BY DEF TellsInv
<1> QED
  BY TellsInvInit, TellsInvStep, <1>1, PTL DEF Spec

-----------------------------------------------------------------------------
(* AlertLifecycle implements AlertContract. *)

LEMMA OpenOnBoard ==
    \A a \in AlertIds : Board[a].status = "open" <=> IsOpen(a)
  BY DEF Board, IsOpen

\* The row the board shows of an alert.
LEMMA RowOnBoard ==
    ASSUME NEW a \in AlertIds, alerts[a] \in Alert
    PROVE  /\ Board[a] \in Contract!Row
           /\ Board[a].series = alerts[a].series /\ Board[a].status = alerts[a].status
           /\ Board[a].severity = alerts[a].severity
  BY NoAlertAssumption DEF Board, Contract!Row, Alert

\* A step that writes one alert rewrites that row of the board only.
LEMMA RowRewritten ==
    ASSUME NEW a \in AlertIds, alerts'[a] \in Alert,
           \A b \in AlertIds \ {a} : alerts'[b] = alerts[b]
    PROVE  /\ Board'[a] \in Contract!Row
           /\ Board' = [Board EXCEPT ![a] = Board'[a]]
           /\ Board'[a].series = alerts'[a].series /\ Board'[a].status = alerts'[a].status
           /\ Board'[a].severity = alerts'[a].severity
<1>1. /\ Board'[a] \in Contract!Row
      /\ Board'[a].series = alerts'[a].series /\ Board'[a].status = alerts'[a].status
      /\ Board'[a].severity = alerts'[a].severity
  BY NoAlertAssumption DEF Board, Contract!Row, Alert
<1>2. \A b \in AlertIds \ {a} : Board'[b] = Board[b]
  BY DEF Board
<1>3. /\ Board = [b \in AlertIds |-> Board[b]]
      /\ Board' = [b \in AlertIds |-> Board'[b]]
  BY DEF Board
<1>4. Board' = [Board EXCEPT ![a] = Board'[a]]
  BY <1>2, <1>3
<1> QED
  BY <1>1, <1>4

\* A step that leaves every alert as it was, its flag aside, leaves the board.
LEMMA BoardKept ==
    ASSUME \A a \in AlertIds :
              \/ alerts'[a] = alerts[a]
              \/ /\ alerts[a] \in Alert /\ alerts'[a] \in Alert
                 /\ alerts'[a].series = alerts[a].series
                 /\ alerts'[a].status = alerts[a].status
                 /\ alerts'[a].severity = alerts[a].severity
                 /\ alerts'[a].lastValue = alerts[a].lastValue
                 /\ alerts'[a].lastValueAt = alerts[a].lastValueAt
    PROVE  Board' = Board
  BY NoAlertAssumption DEF Board

\* A request that neither enters nor leaves its update.
LEMMA JudgedKept ==
    ASSUME NEW h \in Handlers, OthersKept(h), pc[h] # "update", pc'[h] # "update"
    PROVE  Judged' = Judged
  BY DEF Judged, OthersKept

\* A request that leaves it.
LEMMA JudgedCleared ==
    ASSUME NEW h \in Handlers, OthersKept(h), pc[h] = "update", pc'[h] # "update"
    PROVE  /\ Judged[h] = request[h].found
           /\ Judged' = [Judged EXCEPT ![h] = NoAlert]
<1>1. Judged'[h] = NoAlert /\ \A g \in Handlers \ {h} : Judged'[g] = Judged[g]
  BY DEF Judged, OthersKept
<1>2. Judged' = [Judged EXCEPT ![h] = NoAlert]
  BY <1>1 DEF Judged
<1> QED
  BY <1>2 DEF Judged

\* A request finds the open alert of its series, which no other is judging:
\* that one would be of the same series.
LEMMA FindsOnBoard ==
    ASSUME TellsInv, NEW h \in Handlers, Finds(h)
    PROVE  \E a \in AlertIds : Contract!Judge(h, a)
<1> DEFINE id == request'[h].found
<1>1. /\ TypeOK /\ OneRequestPerSeries /\ FoundStays
      /\ id \in AlertIds /\ IsOpen(id) /\ alerts[id].series = request[h].series
      /\ UNCHANGED alerts /\ OthersKept(h) /\ pc[h] = "find" /\ pc'[h] = "update"
  BY DEF TellsInv, SerialInv, Finds, OpenIn, GoesTo
<1>2. Judged[h] = NoAlert /\ Judged' = [Judged EXCEPT ![h] = id]
  <2>1. Judged'[h] = id /\ \A g \in Handlers \ {h} : Judged'[g] = Judged[g]
    BY <1>1 DEF Judged, OthersKept
  <2>2. Judged' = [Judged EXCEPT ![h] = id]
    BY <2>1 DEF Judged
  <2> QED
    BY <1>1, <2>2 DEF Judged
<1>3. \A g \in Handlers : Judged[g] # id
  <2> SUFFICES ASSUME NEW g \in Handlers, Judged[g] = id PROVE FALSE
    OBVIOUS
  <2>1. pc[g] = "update" /\ request[g].found = id
    BY <1>1, NoAlertAssumption DEF Judged
  <2>2. alerts[id].series = request[g].series
    BY <1>1, <2>1 DEF FoundStays, FindingStands
  <2> QED
    BY <1>1, <2>1, <2>2 DEF OneRequestPerSeries, Serving
<1>4. Board' = Board
  BY <1>1, BoardKept
<1>5. id \in Contract!OpenAlerts
  BY <1>1, OpenOnBoard DEF Contract!OpenAlerts
<1> HIDE DEF id
<1>6. Contract!Judge(h, id)
  BY <1>2, <1>3, <1>4, <1>5 DEF Contract!Judge
<1> QED
  BY <1>1, <1>6

LEMMA FollowsOnBoard ==
    ASSUME TypeOK, NEW h \in Handlers, Follows(h) \/ Heals(h)
    PROVE  Contract!Follow(h) \/ Contract!Recover(h)
<1> DEFINE id == request[h].found
<1>1. /\ id \in AlertIds /\ id # NoAlert /\ alerts[id] \in Alert /\ alerts'[id] \in Alert
      /\ \A a \in AlertIds \ {id} : alerts'[a] = alerts[a]
      /\ alerts'[id].series = alerts[id].series
      /\ OthersKept(h) /\ pc[h] = "update" /\ pc'[h] # "update"
  BY NoAlertAssumption DEF Follows, Heals, GoesTo
<1>2. \/ alerts'[id].status = alerts[id].status
      \/ alerts'[id].status = "resolved" /\ alerts'[id].severity = alerts[id].severity
  BY DEF Follows, Heals
<1> HIDE DEF id
<1>3. Judged[h] = id /\ Judged' = [Judged EXCEPT ![h] = NoAlert]
  BY <1>1, JudgedCleared DEF id
<1>4. /\ Board[id].series = alerts[id].series /\ Board[id].status = alerts[id].status
      /\ Board[id].severity = alerts[id].severity
  BY <1>1, RowOnBoard
<1>5. /\ Board'[id] \in Contract!Row /\ Board' = [Board EXCEPT ![id] = Board'[id]]
      /\ Board'[id].series = alerts'[id].series /\ Board'[id].status = alerts'[id].status
      /\ Board'[id].severity = alerts'[id].severity
  BY <1>1, RowRewritten
<1> QED
  BY <1>1, <1>2, <1>3, <1>4, <1>5 DEF Contract!Follow, Contract!Recover, Contract!Rewrites

LEMMA CreatesOnBoard ==
    ASSUME TellsInv, NEW h \in Handlers, NEW a \in AlertIds, Creates(h, a)
    PROVE  \E s \in Series : Contract!Raise(a, s)
<1> DEFINE s == request[h].series
<1>1. /\ TypeOK /\ OpenIn(s) = {} /\ alerts[a] = NoAlert
      /\ alerts'[a] \in Alert /\ \A b \in AlertIds \ {a} : alerts'[b] = alerts[b]
      /\ alerts'[a].series = s /\ alerts'[a].status = "open"
      /\ OthersKept(h) /\ pc[h] # "update" /\ pc'[h] # "update"
  BY DEF TellsInv, SerialInv, CreatesWhereNoneIsOpen, Creates, GoesTo
<1>2. s \in Series
  BY <1>1 DEF TypeOK, HandlersTyped, Request, Creates
<1> HIDE DEF s
<1>3. /\ Board'[a] \in Contract!Row /\ Board' = [Board EXCEPT ![a] = Board'[a]]
      /\ Board'[a].series = s /\ Board'[a].status = "open"
  BY <1>1, RowRewritten
<1>4. Board[a] = Contract!Unopened
  BY <1>1 DEF Board, Contract!Unopened
<1>5. \A b \in Contract!OpenAlerts : Board[b].series # s
  <2> SUFFICES ASSUME NEW b \in Contract!OpenAlerts PROVE Board[b].series # s
    OBVIOUS
  <2>1. b \in AlertIds /\ IsOpen(b)
    BY OpenOnBoard DEF Contract!OpenAlerts
  <2>2. Board[b].series = alerts[b].series
    BY <2>1 DEF Board, IsOpen
  <2> QED
    BY <1>1, <2>1, <2>2 DEF OpenIn
<1>6. Judged' = Judged
  BY <1>1, JudgedKept
<1>7. Contract!Raise(a, s)
  BY <1>3, <1>4, <1>5, <1>6 DEF Contract!Raise, Contract!Rewrites
<1> QED
  BY <1>2, <1>7

LEMMA ByHandOnBoard ==
    ASSUME NEW u \in Users, ResolvesByHand(u)
    PROVE  \E closed \in SUBSET AlertIds : Contract!Resolve(closed)
<1> DEFINE closed == {a \in AlertIds : a \in userRequest[u].ids /\ IsOpen(a)}
<1>1. closed \in SUBSET AlertIds /\ closed \subseteq Contract!OpenAlerts
  BY OpenOnBoard DEF Contract!OpenAlerts
<1>2. ASSUME NEW a \in AlertIds
      PROVE  Board'[a] = IF a \in closed THEN [Board[a] EXCEPT !.status = "resolved"] ELSE Board[a]
  <2>1. CASE a \in closed
    <3>1. /\ alerts[a] \in Alert /\ alerts'[a] \in Alert
          /\ alerts'[a].series = alerts[a].series
          /\ alerts'[a].status = "resolved"
          /\ alerts'[a].severity = alerts[a].severity
          /\ alerts'[a].lastValue = alerts[a].lastValue
          /\ alerts'[a].lastValueAt = alerts[a].lastValueAt
      BY <2>1 DEF ResolvesByHand
    <3> QED
      BY <2>1, <3>1, NoAlertAssumption DEF Board
  <2>2. CASE a \notin closed /\ a \in userRequest[u].ids
    <3>1. /\ alerts[a] \in Alert /\ alerts'[a] \in Alert
          /\ alerts'[a].series = alerts[a].series
          /\ alerts'[a].status = alerts[a].status
          /\ alerts'[a].severity = alerts[a].severity
          /\ alerts'[a].lastValue = alerts[a].lastValue
          /\ alerts'[a].lastValueAt = alerts[a].lastValueAt
      BY <2>2, NoAlertAssumption DEF ResolvesByHand, IsOpen, Alert
    <3> QED
      BY <2>2, <3>1, NoAlertAssumption DEF Board
  <2>3. CASE a \notin userRequest[u].ids
    BY <2>3 DEF ResolvesByHand, Board
  <2> QED
    BY <2>1, <2>2, <2>3
<1>3. Board' = [a \in AlertIds |->
                  IF a \in closed THEN [Board[a] EXCEPT !.status = "resolved"] ELSE Board[a]]
  <2> HIDE DEF closed
  <2> QED
    BY <1>2 DEF Board
<1>4. Judged' = Judged
  BY DEF ResolvesByHand, Judged
<1> HIDE DEF closed
<1>5. Contract!Resolve(closed)
  BY <1>1, <1>3, <1>4 DEF Contract!Resolve
<1> QED
  BY <1>1, <1>5

LEMMA ContractInit == Init => Contract!Init
  BY DEF Init, Contract!Init, Contract!Unopened, Board, Judged

LEMMA ContractStep ==
    TellsInv /\ [Next]_vars => [Contract!Next]_(Contract!shown)
<1> SUFFICES ASSUME TellsInv, [Next]_vars
             PROVE  Contract!Next \/ (Board' = Board /\ Judged' = Judged)
  BY DEF Contract!shown
<1>0. TypeOK
  BY DEF TellsInv, SerialInv
<1>1. ASSUME NEW h \in Handlers, Finds(h) PROVE Contract!Next
  BY <1>1, FindsOnBoard DEF Contract!Next
<1>2. ASSUME NEW h \in Handlers, Follows(h) \/ Heals(h) PROVE Contract!Next
  BY <1>0, <1>2, FollowsOnBoard DEF Contract!Next
<1>3. ASSUME NEW h \in Handlers, NEW a \in AlertIds, Creates(h, a) PROVE Contract!Next
  BY <1>3, CreatesOnBoard DEF Contract!Next
<1>4. ASSUME NEW u \in Users, ResolvesByHand(u) PROVE Contract!Next
  BY <1>4, ByHandOnBoard DEF Contract!Next
<1>5. ASSUME NEW h \in Handlers, Leaves(h), pc[h] = "update" PROVE Contract!Next
  <2>1. request[h].found \in AlertIds
    BY <1>0, <1>5 DEF TypeOK, HandlersTyped, Request
  <2>2. Judged[h] # NoAlert /\ Judged' = [Judged EXCEPT ![h] = NoAlert]
    BY <1>5, <2>1, JudgedCleared, NoAlertAssumption DEF Leaves
  <2>3. Board' = Board
    BY <1>5 DEF Leaves, Board
  <2> QED
    BY <2>2, <2>3 DEF Contract!GiveUp, Contract!Next
<1>6. ASSUME NEW h \in Handlers,
             \/ \E s \in Series : Begins(h, s)
             \/ Admits(h) \/ Stores(h) \/ FindsNone(h) \/ Counts(h) \/ Announces(h)
             \/ Leaves(h) /\ pc[h] # "update"
      PROVE  Board' = Board /\ Judged' = Judged
  <2>1. UNCHANGED alerts /\ OthersKept(h) /\ pc[h] # "update" /\ pc'[h] # "update"
    BY <1>6 DEF Begins, Admits, Stores, FindsNone, Counts, Announces, Leaves, GoesTo
  <2> QED
    BY <2>1, BoardKept, JudgedKept
<1>7. ASSUME NEW u \in Users, Flags(u) PROVE Board' = Board /\ Judged' = Judged
  <2>1. Board' = Board
    BY <1>7, BoardKept DEF Flags
  <2> QED
    BY <1>7, <2>1 DEF Flags, Judged
<1>8. ASSUME (\E u \in Users : Tells(u)) \/ WritesNothing
      PROVE  Board' = Board /\ Judged' = Judged
  BY <1>8 DEF Tells, WritesNothing, Board, Judged
<1> QED
  BY <1>0, <1>1, <1>2, <1>3, <1>4, <1>5, <1>6, <1>7, <1>8, StepEffects

\* The alerts table implements the contract of the alert board, values of
\* resolved alerts included: every step of every request, of every user and of
\* every failure is a step the contract allows, provided requests for a series
\* do not overlap.  So once resolved an alert is never open again, and only the
\* reading being judged at that moment may still change what it shows.
THEOREM ContractImplemented == ~AllowOverlap => (Spec => ImplementsContract)
<1> SUFFICES ASSUME ~AllowOverlap PROVE Spec => Contract!Spec
  BY DEF ImplementsContract
<1>1. Init => TellsInv /\ Contract!Init
  BY TellsInvInit, ContractInit
<1>2. TellsInv /\ [Next]_vars => TellsInv'
  BY TellsInvStep
<1>3. TellsInv /\ [Next]_vars => [Contract!Next]_(Contract!shown)
  BY ContractStep
<1> QED
  BY <1>1, <1>2, <1>3, PTL DEF Spec, Contract!Spec

-----------------------------------------------------------------------------
(* What follows from a reading, when moreover no request fails half-way. *)

\* No request is judging a reading of the series.
Settled(s) == \A h \in Handlers : ~(pc[h] \in Judging /\ request[h].series = s)

\* Once a series is settled its open alert shows its newest reading, a breach.
FollowsNewest(a) ==
    \A s \in Series : IsOpen(a) /\ alerts[a].series = s /\ Settled(s) =>
        /\ readings[s] # <<>>
        /\ LevelUnder(Newest(s).policy, Newest(s).value) # NoLevel
        /\ alerts[a].lastValueAt = Newest(s).at

\* Unless its announcement is yet to be made, an open critical alert was last
\* announced at critical.
CriticalTold(a) ==
    /\ IsOpen(a) /\ alerts[a].severity = "critical"
    /\ \A h \in Handlers : ~(pc[h] = "announce" /\ request[h].found = a)
    => announced[a] # <<>> /\ announced[a][Len(announced[a])].level = "critical"

\* What a user's request announces as resolved is not open.
ResolvedTold(u) == userPc[u] = "announce" => \A a \in userRequest[u].ids : ~IsOpen(a)

\* The inductive invariant behind HealthyResolves and CriticalWasAnnounced.
FollowInv ==
    /\ TellsInv
    /\ \A a \in AlertIds : FollowsNewest(a) /\ CriticalTold(a)
    /\ \A u \in Users : ResolvedTold(u)

LEMMA SettledBefore ==
    ASSUME NEW h \in Handlers, OthersKept(h), NEW t,
           \/ pc[h] \notin Judging
           \/ request[h].series # t
           \/ pc'[h] \in Judging /\ request'[h].series = request[h].series,
           Settled(t)'
    PROVE  Settled(t)
  BY DEF Settled, OthersKept

\* A resolved alert is never opened again.
LEMMA NeverReopened ==
    ASSUME TypeOK, [Next]_vars, NEW a \in AlertIds, alerts[a] # NoAlert, IsOpen(a)'
    PROVE  /\ IsOpen(a)
           /\ alerts'[a].series = alerts[a].series
<1>1. ASSUME NEW h \in Handlers, Follows(h) \/ Heals(h) \/ (\E b \in AlertIds : Creates(h, b))
      PROVE  IsOpen(a) /\ alerts'[a].series = alerts[a].series
  BY <1>1, NoAlertAssumption DEF Follows, Heals, Creates, IsOpen
<1>2. ASSUME NEW u \in Users, ResolvesByHand(u) \/ Flags(u)
      PROVE  IsOpen(a) /\ alerts'[a].series = alerts[a].series
  BY <1>2 DEF ResolvesByHand, Flags, IsOpen
<1>3. ASSUME alerts' = alerts
      PROVE  IsOpen(a) /\ alerts'[a].series = alerts[a].series
  BY <1>3 DEF IsOpen
<1> QED
  BY <1>1, <1>2, <1>3, StepEffects DEF Begins, Admits, Leaves, Stores, Finds, FindsNone, Counts,
       Announces, Tells, WritesNothing

LEMMA ResolvedToldStep ==
    ASSUME TypeOK, [Next]_vars, \A u \in Users : ResolvedTold(u)
    PROVE  \A u \in Users : ResolvedTold(u)'
<1> SUFFICES ASSUME NEW v \in Users, userPc'[v] = "announce",
                    NEW a \in userRequest'[v].ids, IsOpen(a)'
             PROVE  FALSE
  BY DEF ResolvedTold
<1>1. userPc[v] = "announce" /\ userRequest'[v] = userRequest[v] => FALSE
  <2>1. userPc[v] = "announce" => \A b \in userRequest[v].ids : b \in AlertIds /\ alerts[b] # NoAlert
    BY DEF TypeOK, UsersTyped, UserRequest
  <2> QED
    BY <2>1, NeverReopened DEF ResolvedTold
<1>2. ASSUME NEW h \in Handlers, \/ \E s \in Series : Begins(h, s)
                                 \/ Admits(h) \/ Leaves(h) \/ Stores(h) \/ Finds(h)
                                 \/ FindsNone(h) \/ Counts(h) \/ Follows(h) \/ Heals(h)
                                 \/ (\E b \in AlertIds : Creates(h, b)) \/ Announces(h)
      PROVE  FALSE
  BY <1>1, <1>2 DEF Begins, Admits, Leaves, Stores, Finds, FindsNone, Counts, Follows, Heals,
       Creates, Announces, UsersStill
<1>3. ASSUME NEW u \in Users, ResolvesByHand(u) PROVE FALSE
  <2>1. CASE v = u
    <3>1. userPc'[u] = "announce" => userRequest'[u].ids = userRequest[u].ids
      BY <1>3 DEF ResolvesByHand
    <3>2. a \in AlertIds
      BY <2>1, TypeStep DEF TypeOK, UsersTyped, UserRequest
    <3>3. alerts'[a].status = "resolved"
      BY <1>3, <2>1, <3>1, <3>2 DEF ResolvesByHand
    <3> QED
      BY <3>3 DEF IsOpen
  <2>2. CASE v # u
    BY <1>1, <1>3, <2>2 DEF ResolvesByHand
  <2> QED
    BY <2>1, <2>2
<1>4. ASSUME (\E u \in Users : Flags(u) \/ Tells(u)) \/ WritesNothing PROVE FALSE
  BY <1>1, <1>4 DEF Flags, Tells, WritesNothing
<1> QED
  BY <1>2, <1>3, <1>4, StepEffects

LEMMA FollowsNewestStep ==
    ASSUME ~AllowOverlap, ~AllowFailure, TellsInv, [Next]_vars,
           NEW a \in AlertIds, FollowsNewest(a)
    PROVE  FollowsNewest(a)'
<1>1. TypeOK /\ SerialInv /\ JudgesNewest /\ FoundStays /\ CreatesWhereNoneIsOpen
  BY DEF TellsInv, SerialInv
<1>2. ASSUME NEW h \in Handlers, pc[h] \in Judging
      PROVE  /\ request[h].series \in Series
             /\ readings[request[h].series] # <<>>
             /\ Newest(request[h].series).policy = request[h].policy
             /\ Newest(request[h].series).value = request[h].value
             /\ Newest(request[h].series).at = request[h].at
  <2>1. request[h] \in Request
    BY <1>1, <1>2 DEF TypeOK, HandlersTyped, Judging
  <2>2. /\ readings[request[h].series] # <<>>
        /\ Newest(request[h].series) = ReadingOf(request[h])
    BY <1>1, <1>2 DEF JudgesNewest
  <2> QED
    BY <2>1, <2>2 DEF Request, ReadingOf
<1>3. ASSUME NEW t \in Series, alerts'[a] = alerts[a], readings'[t] = readings[t],
             Settled(t)' => Settled(t), IsOpen(a)', alerts'[a].series = t, Settled(t)'
      PROVE  /\ readings'[t] # <<>>
             /\ LevelUnder(Newest(t)'.policy, Newest(t)'.value) # NoLevel
             /\ alerts'[a].lastValueAt = Newest(t)'.at
  BY <1>3 DEF FollowsNewest, Newest, IsOpen
<1> SUFFICES ASSUME NEW t \in Series, IsOpen(a)', alerts'[a].series = t, Settled(t)'
             PROVE  /\ readings'[t] # <<>>
                    /\ LevelUnder(Newest(t)'.policy, Newest(t)'.value) # NoLevel
                    /\ alerts'[a].lastValueAt = Newest(t)'.at
  BY DEF FollowsNewest
<1> DEFINE Goal == /\ readings'[t] # <<>>
                   /\ LevelUnder(Newest(t)'.policy, Newest(t)'.value) # NoLevel
                   /\ alerts'[a].lastValueAt = Newest(t)'.at
<1> USE DEF GoesTo
<1>5. ASSUME NEW h \in Handlers,
             (\E s \in Series : Begins(h, s)) \/ Admits(h) \/ Leaves(h) \/ Finds(h) \/ Announces(h)
      PROVE  Goal
  <2>1. /\ UNCHANGED <<readings, alerts>> /\ OthersKept(h)
        /\ \/ pc[h] \notin Judging
           \/ pc'[h] \in Judging /\ request'[h].series = request[h].series
    BY <1>5 DEF Begins, Admits, Leaves, Finds, Announces, Judging
  <2> QED
    BY <1>3, <2>1, SettledBefore
<1>6. ASSUME NEW h \in Handlers, Stores(h) PROVE Goal
  <2>1. /\ pc'[h] \in Judging /\ request'[h].series = request[h].series
        /\ OthersKept(h) /\ pc[h] \notin Judging
        /\ alerts' = alerts
        /\ \A s \in Series \ {request[h].series} : readings'[s] = readings[s]
    BY <1>6 DEF Stores, Judging
  <2>2. t # request[h].series
    BY <2>1 DEF Settled
  <2> QED
    BY <1>3, <2>1, <2>2, SettledBefore
<1>7. ASSUME NEW h \in Handlers, FindsNone(h) \/ Counts(h) PROVE Goal
  <2>1. /\ OthersKept(h) /\ UNCHANGED <<alerts, readings>>
        /\ OpenIn(request[h].series) = {}
    BY <1>1, <1>7 DEF FindsNone, Counts, CreatesWhereNoneIsOpen
  <2>2. t # request[h].series
    BY <2>1 DEF OpenIn, IsOpen
  <2> QED
    BY <1>3, <2>1, <2>2, SettledBefore
<1>8. ASSUME NEW h \in Handlers, Follows(h) PROVE Goal
  <2>1. /\ OthersKept(h) /\ UNCHANGED readings /\ pc[h] = "update"
        /\ request[h].found \in AlertIds
        /\ alerts'[request[h].found].series = alerts[request[h].found].series
        /\ alerts'[request[h].found].lastValueAt = request[h].at
        /\ LevelUnder(request[h].policy, request[h].value) \in Levels
        /\ \A b \in AlertIds \ {request[h].found} : alerts'[b] = alerts[b]
    BY <1>8 DEF Follows
  <2>2. CASE a = request[h].found
    <3>1. t = request[h].series
      BY <1>1, <2>1, <2>2 DEF FoundStays, FindingStands
    <3>2. Newest(t)' = Newest(t)
      BY <2>1 DEF Newest
    <3> QED
      BY <1>2, <2>1, <2>2, <3>1, <3>2 DEF Judging, Levels, NoLevel
  <2>3. CASE a # request[h].found
    <3>1. alerts'[a] = alerts[a] /\ IsOpen(a)
      BY <2>1, <2>3 DEF IsOpen
    <3>2. t # request[h].series
      BY <1>1, <2>1, <2>3, <3>1 DEF FoundStays, FindingStands, OpenIn
    <3> QED
      BY <1>3, <2>1, <3>1, <3>2, SettledBefore
  <2> QED
    BY <2>2, <2>3
<1>9. ASSUME NEW h \in Handlers, Heals(h) PROVE Goal
  <2>1. /\ OthersKept(h) /\ UNCHANGED readings /\ pc[h] = "update"
        /\ request[h].found \in AlertIds
        /\ alerts'[request[h].found].status = "resolved"
        /\ \A b \in AlertIds \ {request[h].found} : alerts'[b] = alerts[b]
    BY <1>9 DEF Heals
  <2>2. a # request[h].found
    BY <2>1 DEF IsOpen
  <2>3. alerts'[a] = alerts[a] /\ IsOpen(a)
    BY <2>1, <2>2 DEF IsOpen
  <2>4. t # request[h].series
    BY <1>1, <2>1, <2>2, <2>3 DEF FoundStays, FindingStands, OpenIn
  <2> QED
    BY <1>3, <2>1, <2>3, <2>4, SettledBefore
<1>10. ASSUME NEW h \in Handlers, NEW b \in AlertIds, Creates(h, b) PROVE Goal
  <2>1. /\ OthersKept(h) /\ UNCHANGED readings /\ pc[h] = "create"
        /\ alerts'[b].series = request[h].series
        /\ alerts'[b].lastValueAt = request[h].at
        /\ \A c \in AlertIds \ {b} : alerts'[c] = alerts[c]
    BY <1>10 DEF Creates
  <2>2. CASE a = b
    <3>1. LevelUnder(request[h].policy, request[h].value) \in Levels
      BY <1>1, <2>1 DEF TypeOK, HandlersTyped
    <3>2. Newest(t)' = Newest(t)
      BY <2>1 DEF Newest
    <3> QED
      BY <1>2, <2>1, <2>2, <3>1, <3>2 DEF Judging, Levels, NoLevel
  <2>3. CASE a # b
    <3>1. alerts'[a] = alerts[a] /\ IsOpen(a)
      BY <2>1, <2>3 DEF IsOpen
    <3>2. t # request[h].series
      BY <1>1, <2>1, <3>1 DEF CreatesWhereNoneIsOpen, OpenIn
    <3> QED
      BY <1>3, <2>1, <3>1, <3>2, SettledBefore
  <2> QED
    BY <2>2, <2>3
<1>11. ASSUME NEW u \in Users, ResolvesByHand(u) \/ Flags(u) PROVE Goal
  <2>1. /\ UNCHANGED <<readings, pc, request>>
        /\ alerts'[a].series = alerts[a].series
        /\ alerts'[a].lastValueAt = alerts[a].lastValueAt
        /\ IsOpen(a)
    BY <1>11, NoAlertAssumption DEF ResolvesByHand, Flags, IsOpen
  <2>2. Settled(t) /\ Newest(t)' = Newest(t)
    BY <2>1 DEF Settled, Newest
  <2> QED
    BY <2>1, <2>2 DEF FollowsNewest
<1>12. ASSUME UNCHANGED <<readings, alerts, pc, request>> PROVE Goal
  <2>1. Settled(t)
    BY <1>12 DEF Settled
  <2> QED
    BY <1>3, <1>12, <2>1
<1> QED
  BY <1>1, <1>5, <1>6, <1>7, <1>8, <1>9, <1>10, <1>11, <1>12, StepEffects DEF Tells, WritesNothing

LEMMA CriticalToldStep ==
    ASSUME ~AllowFailure, TellsInv, \A u \in Users : ResolvedTold(u), [Next]_vars,
           NEW a \in AlertIds, CriticalTold(a)
    PROVE  CriticalTold(a)'
<1>1. TypeOK /\ FoundStays
  BY DEF TellsInv, SerialInv
<1> SUFFICES ASSUME IsOpen(a)', alerts'[a].severity = "critical",
                    \A h \in Handlers : ~(pc'[h] = "announce" /\ request'[h].found = a)
             PROVE  announced'[a] # <<>> /\ announced'[a][Len(announced'[a])].level = "critical"
  BY DEF CriticalTold
<1> DEFINE Goal == announced'[a] # <<>> /\ announced'[a][Len(announced'[a])].level = "critical"
<1>2. ASSUME announced'[a] = announced[a], IsOpen(a), alerts[a].severity = "critical",
             NEW h \in Handlers, OthersKept(h),
             ~(pc[h] = "announce" /\ request[h].found = a)
      PROVE  Goal
  BY <1>2 DEF CriticalTold, OthersKept
<1>3. ASSUME NEW h \in Handlers,
             \/ \E s \in Series : Begins(h, s)
             \/ Admits(h) \/ Leaves(h) \/ Stores(h) \/ Finds(h) \/ FindsNone(h) \/ Counts(h)
      PROVE  Goal
  <2>1. UNCHANGED <<alerts, announced>> /\ OthersKept(h) /\ pc[h] # "announce"
    BY <1>3 DEF Begins, Admits, Leaves, Stores, Finds, FindsNone, Counts
  <2> QED
    BY <1>2, <2>1 DEF IsOpen
<1>4. ASSUME NEW h \in Handlers, Follows(h) PROVE Goal
  <2>1. /\ OthersKept(h) /\ UNCHANGED announced /\ pc[h] = "update"
        /\ request[h].found \in AlertIds /\ alerts[request[h].found] \in Alert
        /\ alerts'[request[h].found].status = alerts[request[h].found].status
        /\ alerts'[request[h].found].severity = LevelUnder(request[h].policy, request[h].value)
        /\ \A b \in AlertIds \ {request[h].found} : alerts'[b] = alerts[b]
        /\ IF LevelUnder(request[h].policy, request[h].value) = "critical" /\ request[h].seen = "warning"
           THEN pc'[h] = "announce" /\ request'[h].found = request[h].found
           ELSE pc'[h] = "idle"
    BY <1>4 DEF Follows, GoesTo
  <2>2. CASE a = request[h].found
    <3>1. IsOpen(a) /\ alerts[a].severity \in Levels
      BY <2>1, <2>2, NoAlertAssumption DEF IsOpen, Alert
    <3>2. alerts[a].severity = request[h].seen /\ request[h].seen # "warning"
      BY <1>1, <2>1, <2>2, <3>1 DEF FoundStays, FindingStands
    <3> QED
      BY <1>2, <2>1, <3>1, <3>2 DEF Levels
  <2>3. CASE a # request[h].found
    BY <1>2, <2>1, <2>3 DEF IsOpen
  <2> QED
    BY <2>2, <2>3
<1>5. ASSUME NEW h \in Handlers, Heals(h) PROVE Goal
  <2>1. /\ OthersKept(h) /\ UNCHANGED announced /\ pc[h] = "update"
        /\ request[h].found \in AlertIds
        /\ alerts'[request[h].found].status = "resolved"
        /\ \A b \in AlertIds \ {request[h].found} : alerts'[b] = alerts[b]
    BY <1>5 DEF Heals
  <2> QED
    BY <1>2, <2>1 DEF IsOpen
<1>6. ASSUME NEW h \in Handlers, NEW b \in AlertIds, Creates(h, b) PROVE Goal
  <2>1. /\ OthersKept(h) /\ UNCHANGED announced /\ pc[h] = "create"
        /\ pc'[h] = "announce" /\ request'[h].found = b
        /\ \A c \in AlertIds \ {b} : alerts'[c] = alerts[c]
    BY <1>6 DEF Creates, GoesTo
  <2> QED
    BY <1>2, <2>1 DEF IsOpen
<1>7. ASSUME NEW h \in Handlers, Announces(h) PROVE Goal
  <2>1. /\ OthersKept(h) /\ UNCHANGED alerts /\ pc[h] = "announce"
        /\ announced'[request[h].found] # <<>>
        /\ announced'[request[h].found][Len(announced'[request[h].found])].level
               = LevelUnder(request[h].policy, request[h].value)
        /\ \A b \in AlertIds \ {request[h].found} : announced'[b] = announced[b]
    BY <1>7 DEF Announces
  <2>2. CASE a = request[h].found
    <3>1. alerts[a].severity = LevelUnder(request[h].policy, request[h].value)
      BY <1>1, <2>1, <2>2 DEF FoundStays, FindingStands, IsOpen
    <3> QED
      BY <2>1, <2>2, <3>1
  <2>3. CASE a # request[h].found
    BY <1>2, <2>1, <2>3 DEF IsOpen
  <2> QED
    BY <2>2, <2>3
<1>8. ASSUME UNCHANGED <<pc, request>>, announced'[a] = announced[a],
             IsOpen(a), alerts[a].severity = "critical"
      PROVE  Goal
  BY <1>8 DEF CriticalTold
<1>9. ASSUME NEW u \in Users, ResolvesByHand(u) \/ Flags(u) PROVE Goal
  <2>1. /\ UNCHANGED <<announced, pc, request>>
        /\ IsOpen(a) /\ alerts[a].severity = "critical"
    BY <1>9, NoAlertAssumption DEF ResolvesByHand, Flags, IsOpen
  <2> QED
    BY <1>8, <2>1
<1>10. ASSUME NEW u \in Users, Tells(u) PROVE Goal
  <2>1. /\ UNCHANGED <<alerts, pc, request>> /\ IsOpen(a)
        /\ userPc[u] = "announce"
        /\ a \notin userRequest[u].ids => announced'[a] = announced[a]
    BY <1>10 DEF Tells, IsOpen
  <2> QED
    BY <1>8, <2>1 DEF ResolvedTold
<1>11. ASSUME WritesNothing PROVE Goal
  BY <1>8, <1>11 DEF WritesNothing, IsOpen
<1> QED
  BY <1>1, <1>3, <1>4, <1>5, <1>6, <1>7, <1>9, <1>10, <1>11, StepEffects

LEMMA FollowInit == Init => FollowInv
<1> SUFFICES ASSUME Init PROVE FollowInv
  OBVIOUS
<1>1. TellsInv
  BY TellsInvInit
<1> QED
  BY <1>1 DEF Init, FollowInv, FollowsNewest, CriticalTold, ResolvedTold, IsOpen

LEMMA FollowStep == ~AllowOverlap /\ ~AllowFailure /\ FollowInv /\ [Next]_vars => FollowInv'
<1> SUFFICES ASSUME ~AllowOverlap, ~AllowFailure, FollowInv, [Next]_vars PROVE FollowInv'
  OBVIOUS
<1>1. TellsInv' /\ TypeOK
  BY TellsInvStep DEF FollowInv, TellsInv, SerialInv
<1>2. \A a \in AlertIds : FollowsNewest(a)'
  BY FollowsNewestStep DEF FollowInv
<1>3. \A a \in AlertIds : CriticalTold(a)'
  BY CriticalToldStep DEF FollowInv
<1>4. \A u \in Users : ResolvedTold(u)'
  BY <1>1, ResolvedToldStep DEF FollowInv
<1> QED
  BY <1>1, <1>2, <1>3, <1>4 DEF FollowInv

LEMMA QuietIsSettled == \A s \in Series : Quiet(s) => Settled(s)
  BY DEF Quiet, Settled, Serving, Judging

LEMMA FollowConclusions == FollowInv => HealthyResolves /\ CriticalWasAnnounced
<1> SUFFICES ASSUME FollowInv, NEW a \in AlertIds, IsOpen(a), Quiet(alerts[a].series)
             PROVE  /\ LevelUnder(Newest(alerts[a].series).policy, Newest(alerts[a].series).value) # NoLevel
                    /\ alerts[a].severity = "critical" =>
                          announced[a] # <<>> /\ announced[a][Len(announced[a])].level = "critical"
  BY DEF HealthyResolves, CriticalWasAnnounced
<1>1. alerts[a].series \in Series
  BY DEF FollowInv, TellsInv, SerialInv, TypeOK, TablesTyped, IsOpen, Alert
<1>2. Settled(alerts[a].series)
  BY <1>1, QuietIsSettled
<1>3. \A h \in Handlers : ~(pc[h] = "announce" /\ request[h].found = a)
  BY DEF FollowInv, TellsInv, FoundStays, FindingStands, Quiet, Serving
<1> QED
  BY <1>1, <1>2, <1>3 DEF FollowInv, FollowsNewest, CriticalTold

\* A single healthy reading resolves the alert: none is open in a series at
\* rest whose newest reading was healthy, provided requests for a series do not
\* overlap and none fails half-way (recordValue).
THEOREM HealthyReadingResolves ==
    ~AllowOverlap /\ ~AllowFailure => (Spec => []HealthyResolves)
<1> SUFFICES ASSUME ~AllowOverlap, ~AllowFailure PROVE Spec => []HealthyResolves
  OBVIOUS
<1>1. FollowInv => HealthyResolves
  BY FollowConclusions
<1> QED
  BY FollowInit, FollowStep, <1>1, PTL DEF Spec

\* The last announcement of an open critical alert was made at critical, under
\* the same conditions (recordValue's opened and escalated notifications).
THEOREM CriticalIsAnnounced ==
    ~AllowOverlap /\ ~AllowFailure => (Spec => []CriticalWasAnnounced)
<1> SUFFICES ASSUME ~AllowOverlap, ~AllowFailure PROVE Spec => []CriticalWasAnnounced
  OBVIOUS
<1>1. FollowInv => CriticalWasAnnounced
  BY FollowConclusions
<1> QED
  BY FollowInit, FollowStep, <1>1, PTL DEF Spec

-----------------------------------------------------------------------------
(* The readings behind an alert, when none is sent again. *)

\* The readings of a series are stored in the order they were collected.
StoredInOrder(s) ==
    /\ \A i, j \in DOMAIN readings[s] : i < j => readings[s][i].at < readings[s][j].at
    /\ \A i \in DOMAIN readings[s] : readings[s][i].at <= sent[s].at

\* A request that is yet to store its reading brings the one sent last.
BringsLast(h) ==
    pc[h] \in {"admit", "store"} =>
        /\ request[h].at = sent[request[h].series].at
        /\ \A i \in DOMAIN readings[request[h].series] :
              readings[request[h].series][i].at < request[h].at

CreatesOnStreak(h) ==
    \A s \in Series, p \in Policies :
        pc[h] = "create" /\ request[h].series = s /\ request[h].policy = p => OnStreak(s, p)

\* The inductive invariant behind OpensOnStreak.
OrderInv ==
    /\ TellsInv
    /\ \A s \in Series : StoredInOrder(s)
    /\ \A h \in Handlers : BringsLast(h) /\ CreatesOnStreak(h)

LEMMA TimesAreNumbers ==
    ASSUME NEW q \in Seq(Reading), NEW i \in DOMAIN q
    PROVE  q[i].at \in Nat
<1>1. q[i] \in Reading
  OBVIOUS
<1> QED
  BY <1>1 DEF Reading

LEMMA StreakKept ==
    ASSUME NEW s, NEW p, readings'[s] = readings[s]
    PROVE  OnStreak(s, p)' <=> OnStreak(s, p)
  BY DEF OnStreak

\* With readings stored in order, the last n of them are the n stored last.
LEMMA LatestAreLast ==
    ASSUME TypeOK, NEW s \in Series, StoredInOrder(s), NEW n \in Nat \ {0}, NEW I \in Latest(s, n)
    PROVE  /\ n <= Len(readings[s])
           /\ I = Len(readings[s]) - n + 1 .. Len(readings[s])
<1> DEFINE L == Len(readings[s])
           m == L - n + 1
<1>1. /\ L \in Nat /\ DOMAIN readings[s] = 1 .. L
      /\ \A i \in 1 .. L : readings[s][i].at \in Nat
  <2>1. readings[s] \in Seq(Reading)
    BY DEF TypeOK, TablesTyped
  <2> QED
    BY <2>1, TimesAreNumbers
<1>2. /\ I \subseteq 1 .. L /\ Cardinality(I) = n
      /\ \A i \in I, j \in (1 .. L) \ I : readings[s][j].at <= readings[s][i].at
  BY <1>1 DEF Latest
<1>3. \A i, j \in 1 .. L : i < j => readings[s][i].at < readings[s][j].at
  BY <1>1 DEF StoredInOrder
<1> HIDE DEF L
<1>4. \A i \in I, j \in 1 .. L : i < j => j \in I
  BY <1>1, <1>2, <1>3
<1>5. IsFiniteSet(1 .. L) /\ Cardinality(1 .. L) = L
  BY <1>1, FS_Interval
<1>6. n <= L /\ m \in 1 .. L
  BY <1>1, <1>2, <1>5, FS_Subset
<1>7. IsFiniteSet(m .. L) /\ Cardinality(m .. L) = n
  BY <1>1, <1>6, FS_Interval
<1>8. I \subseteq m .. L
  <2> SUFFICES ASSUME NEW i \in I, i < m PROVE FALSE
    BY <1>1, <1>2, <1>6
  <2>1. i \in 1 .. L /\ i .. L \subseteq I
    BY <1>1, <1>2, <1>4
  <2>2. i \in Int /\ L \in Int /\ i <= L
    BY <1>1, <2>1
  <2>3. Cardinality(i .. L) = L - i + 1
    BY <2>2, FS_Interval
  <2>4. IsFiniteSet(I)
    BY <1>2, <1>5, FS_Subset
  <2>5. Cardinality(i .. L) <= Cardinality(I)
    BY <2>1, <2>4, FS_Subset
  <2> QED
    BY <1>1, <1>2, <2>1, <2>3, <2>5
<1>9. I = m .. L
  BY <1>2, <1>7, <1>8, FS_Subset
<1> QED
  BY <1>6, <1>9 DEF L

LEMMA OrderInit == Init => OrderInv
<1> SUFFICES ASSUME Init PROVE OrderInv
  OBVIOUS
<1>1. TellsInv
  BY TellsInvInit
<1> QED
  BY <1>1 DEF Init, OrderInv, StoredInOrder, BringsLast, CreatesOnStreak

LEMMA OrderStep == ~AllowOverlap /\ ~AllowResend /\ OrderInv /\ [Next]_vars => OrderInv'
<1> SUFFICES ASSUME ~AllowOverlap, ~AllowResend, OrderInv, [Next]_vars PROVE OrderInv'
  OBVIOUS
<1>1. TellsInv' /\ TypeOK /\ OneRequestPerSeries
  BY TellsInvStep DEF OrderInv, TellsInv, SerialInv
<1>2. /\ \A s \in Series : readings[s] \in Seq(Reading) /\ sent[s].at \in Nat
      /\ \A g \in Handlers : pc[g] # "idle" =>
            /\ request[g].series \in Series /\ request[g].at \in Nat
            /\ request[g].policy.consecutiveBreaches \in Nat \ {0}
  BY <1>1, PolicyAssumption DEF TypeOK, TablesTyped, HandlersTyped, Request
<1>3. \A g, h \in Handlers :
          pc[g] # "idle" /\ pc[h] # "idle" /\ request[h].series = request[g].series => g = h
  BY <1>1 DEF OneRequestPerSeries, Serving
<1>4. \A s \in Series : \A i \in DOMAIN readings[s] : readings[s][i].at \in Nat
  BY <1>2, TimesAreNumbers
<1> DEFINE Good == /\ \A s \in Series : StoredInOrder(s)'
                   /\ \A g \in Handlers : BringsLast(g)' /\ CreatesOnStreak(g)'
<1> USE DEF GoesTo, OthersKept
<1>5. ASSUME NEW h \in Handlers, NEW s \in Series, Begins(h, s) PROVE Good
  <2>1. /\ readings' = readings /\ OthersKept(h)
        /\ \A g \in Handlers : ~Serving(g, s)
        /\ pc'[h] = "admit" /\ request'[h].series = s
        /\ request'[h].at = sent'[s].at /\ sent'[s].at = sent[s].at + 1
        /\ \A t \in Series \ {s} : sent'[t] = sent[t]
    BY <1>5 DEF Begins
  <2>2. \A t \in Series : StoredInOrder(t)'
    BY <1>2, <1>4, <2>1 DEF OrderInv, StoredInOrder
  <2>3. BringsLast(h)' /\ CreatesOnStreak(h)'
    BY <1>2, <1>4, <2>1 DEF OrderInv, StoredInOrder, BringsLast, CreatesOnStreak
  <2>4. ASSUME NEW g \in Handlers \ {h} PROVE BringsLast(g)' /\ CreatesOnStreak(g)'
    <3>1. pc'[g] = pc[g] /\ request'[g] = request[g]
      BY <2>1
    <3>2. pc[g] # "idle" => sent'[request[g].series] = sent[request[g].series]
      BY <1>2, <2>1 DEF Serving
    <3> QED
      BY <2>1, <3>1, <3>2, StreakKept DEF OrderInv, BringsLast, CreatesOnStreak
  <2> QED
    BY <2>2, <2>3, <2>4
<1>6. ASSUME NEW h \in Handlers, Stores(h) PROVE Good
  <2> DEFINE s == request[h].series
             r == ReadingOf(request[h])
  <2>1. /\ readings'[s] = Append(readings[s], r) /\ r \in Reading /\ s \in Series
        /\ \A t \in Series \ {s} : readings'[t] = readings[t]
        /\ pc[h] = "store" /\ pc'[h] = "find" /\ OthersKept(h)
        /\ sent' = sent
    BY <1>6 DEF Stores
  <2>2. r.at = sent[s].at /\ \A i \in DOMAIN readings[s] : readings[s][i].at < r.at
    BY <2>1 DEF OrderInv, BringsLast, ReadingOf
  <2>3. /\ DOMAIN readings'[s] = 1 .. Len(readings[s]) + 1
        /\ DOMAIN readings[s] = 1 .. Len(readings[s])
        /\ readings'[s][Len(readings[s]) + 1] = r
        /\ \A i \in 1 .. Len(readings[s]) : readings'[s][i] = readings[s][i]
    BY <1>2, <2>1
  <2>4. BringsLast(h)' /\ CreatesOnStreak(h)'
    BY <2>1 DEF BringsLast, CreatesOnStreak
  <2>5. ASSUME NEW g \in Handlers \ {h} PROVE BringsLast(g)' /\ CreatesOnStreak(g)'
    <3>1. pc'[g] = pc[g] /\ request'[g] = request[g]
      BY <2>1
    <3>2. pc[g] # "idle" => readings'[request[g].series] = readings[request[g].series]
      BY <1>2, <1>3, <2>1
    <3>3. BringsLast(g)'
      BY <2>1, <3>1, <3>2 DEF OrderInv, BringsLast
    <3>4. CreatesOnStreak(g)'
      BY <3>1, <3>2, StreakKept DEF OrderInv, CreatesOnStreak
    <3> QED
      BY <3>3, <3>4
  <2> HIDE DEF s, r
  <2>6. ASSUME NEW t \in Series PROVE StoredInOrder(t)'
    <3>1. CASE t = s
      <4>1. Len(readings[s]) \in Nat /\ r.at \in Nat /\ sent[s].at \in Nat /\ StoredInOrder(s)
        BY <1>2, <2>1, <2>2 DEF OrderInv
      <4>2. \A i \in 1 .. Len(readings[s]) : readings[s][i].at \in Nat
        BY <1>4, <2>1, <2>3
      <4>3. \A i \in DOMAIN readings'[s] : readings'[s][i].at <= sent[s].at
        BY <2>2, <2>3, <4>1, <4>2 DEF StoredInOrder
      <4>4. \A i, j \in DOMAIN readings'[s] : i < j => readings'[s][i].at < readings'[s][j].at
        <5> SUFFICES ASSUME NEW i \in DOMAIN readings'[s], NEW j \in DOMAIN readings'[s], i < j
                     PROVE  readings'[s][i].at < readings'[s][j].at
          OBVIOUS
        <5>1. i \in 1 .. Len(readings[s])
          BY <2>3, <4>1
        <5>2. CASE j = Len(readings[s]) + 1
          BY <2>2, <2>3, <5>1, <5>2
        <5>3. CASE j \in 1 .. Len(readings[s])
          BY <2>3, <4>1, <5>1, <5>3 DEF StoredInOrder
        <5> QED
          BY <2>3, <4>1, <5>2, <5>3
      <4> QED
        BY <2>1, <3>1, <4>3, <4>4 DEF StoredInOrder
    <3>2. CASE t # s
      BY <2>1, <3>2 DEF OrderInv, StoredInOrder
    <3> QED
      BY <3>1, <3>2
  <2> QED
    BY <2>4, <2>5, <2>6
<1>7. ASSUME NEW h \in Handlers, Counts(h) PROVE Good
  <2> DEFINE s == request[h].series
             p == request[h].policy
  <2>1. /\ UNCHANGED <<readings, sent>> /\ OthersKept(h) /\ pc[h] = "recent"
        /\ \/ pc'[h] = "idle"
           \/ /\ pc'[h] = "create" /\ request'[h].series = s /\ request'[h].policy = p
              /\ \E I \in Latest(s, p.consecutiveBreaches) : Breaching(s, I, p)
    BY <1>7 DEF Counts
  <2>2. s \in Series /\ p.consecutiveBreaches \in Nat \ {0} /\ StoredInOrder(s)
    BY <1>2, <2>1 DEF OrderInv
  <2>3. ASSUME pc'[h] = "create" PROVE OnStreak(s, p)
    <3>1. PICK I \in Latest(s, p.consecutiveBreaches) : Breaching(s, I, p)
      BY <2>1, <2>3
    <3> QED
      BY <1>1, <2>2, <3>1, LatestAreLast DEF OnStreak, Breaching
  <2>4. BringsLast(h)' /\ CreatesOnStreak(h)'
    BY <2>1, <2>3, StreakKept DEF BringsLast, CreatesOnStreak
  <2> QED
    BY <2>1, <2>4, StreakKept DEF OrderInv, StoredInOrder, BringsLast, CreatesOnStreak
<1>8. ASSUME UNCHANGED <<readings, sent>>,
             \A g \in Handlers : pc'[g] \in {"admit", "store", "create"} =>
                /\ pc[g] \in {"admit", "store"} <=> pc'[g] \in {"admit", "store"}
                /\ pc[g] = "create" <=> pc'[g] = "create"
                /\ request'[g].series = request[g].series
                /\ request'[g].at = request[g].at
                /\ request'[g].policy = request[g].policy
      PROVE  Good
  <2>1. \A s \in Series : StoredInOrder(s)'
    BY <1>8 DEF OrderInv, StoredInOrder
  <2>2. \A g \in Handlers : BringsLast(g)'
    BY <1>8 DEF OrderInv, BringsLast
  <2>3. \A g \in Handlers : CreatesOnStreak(g)'
    BY <1>8, StreakKept DEF OrderInv, CreatesOnStreak
  <2> QED
    BY <2>1, <2>2, <2>3
<1>9. ASSUME NEW h \in Handlers,
             \/ Admits(h) \/ Leaves(h) \/ Finds(h) \/ FindsNone(h) \/ Follows(h) \/ Heals(h)
             \/ (\E a \in AlertIds : Creates(h, a)) \/ Announces(h)
      PROVE  Good
  <2>1. /\ UNCHANGED <<readings, sent>> /\ OthersKept(h)
        /\ \/ pc'[h] \notin {"admit", "store", "create"}
           \/ pc[h] = "admit" /\ GoesTo(h, "store")
    BY <1>9 DEF Admits, Leaves, Finds, FindsNone, Follows, Heals, Creates, Announces
  <2> QED
    BY <1>8, <2>1
<1>10. ASSUME UNCHANGED <<readings, sent, pc, request>> PROVE Good
  BY <1>8, <1>10
<1>11. Good
  BY <1>1, <1>5, <1>6, <1>7, <1>9, <1>10, StepEffects DEF ResolvesByHand, Flags, Tells, WritesNothing
<1> QED
  BY <1>1, <1>11 DEF OrderInv

\* An alert opens only when the last consecutiveBreaches readings stored breach
\* the policy of the newest, provided requests for a series do not overlap and
\* no reading is sent again (recordValue's allBreached).
THEOREM AlertsOpenOnStreaks == ~AllowOverlap /\ ~AllowResend => (Spec => OpensOnStreak)
<1> SUFFICES ASSUME ~AllowOverlap, ~AllowResend PROVE Spec => OpensOnStreak
  OBVIOUS
<1>1. ASSUME OrderInv, [Next]_vars
      PROVE  [\A a \in AlertIds : alerts[a] = NoAlert /\ alerts'[a] # NoAlert =>
                 LET s == alerts'[a].series
                 IN  readings[s] # <<>> /\ OnStreak(s, Newest(s).policy)]_vars
  <2> SUFFICES ASSUME NEW a \in AlertIds, alerts[a] = NoAlert, alerts'[a] # NoAlert
               PROVE  /\ readings[alerts'[a].series] # <<>>
                      /\ OnStreak(alerts'[a].series, Newest(alerts'[a].series).policy)
    OBVIOUS
  <2>1. TypeOK /\ JudgesNewest
    BY <1>1 DEF OrderInv, TellsInv, SerialInv
  <2>2. ASSUME NEW h \in Handlers, Creates(h, a)
        PROVE  /\ readings[alerts'[a].series] # <<>>
               /\ OnStreak(alerts'[a].series, Newest(alerts'[a].series).policy)
    <3>1. pc[h] = "create" /\ alerts'[a].series = request[h].series
      BY <2>2 DEF Creates
    <3>2. request[h] \in Request
      BY <2>1, <3>1 DEF TypeOK, HandlersTyped
    <3>3. request[h].series \in Series /\ request[h].policy \in Policies
      BY <3>2 DEF Request
    <3>4. OnStreak(request[h].series, request[h].policy)
      BY <1>1, <3>1, <3>3 DEF OrderInv, CreatesOnStreak
    <3>5. /\ readings[request[h].series] # <<>>
          /\ Newest(request[h].series) = ReadingOf(request[h])
      BY <2>1, <3>1 DEF JudgesNewest, Judging
    <3>6. Newest(request[h].series).policy = request[h].policy
      BY <3>5 DEF ReadingOf
    <3> QED
      BY <3>1, <3>4, <3>5, <3>6
  <2>3. ASSUME NEW h \in Handlers,
               \/ \E s \in Series : Begins(h, s)
               \/ Admits(h) \/ Leaves(h) \/ Stores(h) \/ Finds(h) \/ FindsNone(h) \/ Counts(h)
               \/ Follows(h) \/ Heals(h) \/ (\E b \in AlertIds : b # a /\ Creates(h, b))
               \/ Announces(h)
        PROVE  FALSE
    BY <2>3, NoAlertAssumption DEF Begins, Admits, Leaves, Stores, Finds, FindsNone, Counts,
         Follows, Heals, Creates, Announces
  <2>4. ASSUME (\E u \in Users : ResolvesByHand(u) \/ Flags(u) \/ Tells(u)) \/ WritesNothing
        PROVE  FALSE
    BY <2>4, NoAlertAssumption DEF ResolvesByHand, Flags, Tells, WritesNothing
  <2> QED
    BY <1>1, <2>1, <2>2, <2>3, <2>4, StepEffects
<1>2. OrderInv /\ [Next]_vars => OrderInv'
  BY OrderStep
<1> QED
  BY OrderInit, <1>1, <1>2, PTL DEF Spec, OpensOnStreak

-----------------------------------------------------------------------------
(* No breach is missed, when no request fails and no reading is sent again. *)

\* The alert answers the streak the newest reading ends.
Answers(a, s) ==
    /\ alerts[a] # NoAlert
    /\ alerts[a].series = s
    /\ IsOpen(a) \/ (ResolvedByHand(a) /\ alerts[a].lastValueAt = Newest(s).at)

StreakAnswered(s) ==
    Settled(s) /\ readings[s] # <<>> /\ OnStreak(s, Newest(s).policy) =>
        \E a \in AlertIds : Answers(a, s)

\* The inductive invariant behind StreakHasAlert.
StreakInv == FollowInv /\ OrderInv /\ \A s \in Series : StreakAnswered(s)

\* What an alert answers it still answers, unless a request was judging the
\* series.
LEMMA AnswerKept ==
    ASSUME TypeOK, [Next]_vars, NEW s \in Series, NEW a \in AlertIds, Answers(a, s),
           FollowsNewest(a), Settled(s),
           readings'[s] = readings[s],
           alerts'[a] = alerts[a] \/ \E u \in Users : ResolvesByHand(u) \/ Flags(u)
    PROVE  Answers(a, s)'
<1>1. Newest(s)' = Newest(s)
  BY DEF Newest
<1>2. ResolvedByHand(a) => ResolvedByHand(a)'
  BY ByHandKept
<1>3. CASE alerts'[a] = alerts[a]
  BY <1>1, <1>2, <1>3 DEF Answers, IsOpen
<1>4. ASSUME NEW u \in Users, ResolvesByHand(u) \/ Flags(u), alerts'[a] # alerts[a]
      PROVE  Answers(a, s)'
  <2>1. /\ alerts[a] \in Alert /\ alerts'[a] \in Alert
        /\ alerts'[a].series = alerts[a].series
        /\ alerts'[a].lastValueAt = alerts[a].lastValueAt
        /\ \/ alerts'[a].status = alerts[a].status
           \/ comments'[a] = Append(comments[a], "resolve")
    BY <1>4 DEF ResolvesByHand, Flags
  <2>2. IsOpen(a) => IsOpen(a)' \/ ResolvedByHand(a)'
    BY <2>1, ByHandWritten, NoAlertAssumption DEF IsOpen
  <2>3. IsOpen(a) => alerts[a].lastValueAt = Newest(s).at
    BY DEF FollowsNewest, Answers
  <2> QED
    BY <1>1, <1>2, <2>1, <2>2, <2>3, NoAlertAssumption DEF Answers
<1> QED
  BY <1>3, <1>4

LEMMA StreakStep ==
    ASSUME ~AllowOverlap, ~AllowFailure, FollowInv, OrderInv, [Next]_vars,
           NEW s \in Series, StreakAnswered(s)
    PROVE  StreakAnswered(s)'
<1>1. /\ TypeOK /\ JudgesNewest /\ FoundStays /\ CreatesWhereNoneIsOpen
      /\ \A a \in AlertIds : FollowsNewest(a)
      /\ StoredInOrder(s)
  BY DEF FollowInv, TellsInv, SerialInv, OrderInv
<1>2. ASSUME NEW h \in Handlers, pc[h] \in Judging, request[h].series = s
      PROVE  /\ readings[s] # <<>>
             /\ Newest(s).policy = request[h].policy
             /\ Newest(s).value = request[h].value
             /\ Newest(s).at = request[h].at
             /\ request[h].policy.consecutiveBreaches \in Nat \ {0}
  <2>1. request[h] \in Request
    BY <1>1, <1>2 DEF TypeOK, HandlersTyped, Judging
  <2>2. readings[s] # <<>> /\ Newest(s) = ReadingOf(request[h])
    BY <1>1, <1>2 DEF JudgesNewest
  <2>3. request[h].policy \in Policies
    BY <2>1 DEF Request
  <2> QED
    BY <2>2, <2>3, PolicyAssumption DEF ReadingOf
<1>3. readings[s] \in Seq(Reading)
  BY <1>1 DEF TypeOK, TablesTyped
<1> SUFFICES ASSUME Settled(s)', readings'[s] # <<>>, OnStreak(s, Newest(s).policy)'
             PROVE  \E a \in AlertIds : Answers(a, s)'
  BY DEF StreakAnswered
<1> DEFINE Goal == \E a \in AlertIds : Answers(a, s)'
<1>4. ASSUME readings'[s] = readings[s], Settled(s),
             \A a \in AlertIds : alerts[a] # NoAlert /\ alerts[a].series = s =>
                 alerts'[a] = alerts[a] \/ \E u \in Users : ResolvesByHand(u) \/ Flags(u)
      PROVE  Goal
  <2>1. OnStreak(s, Newest(s).policy)
    BY <1>4 DEF OnStreak, Newest
  <2>2. PICK a \in AlertIds : Answers(a, s)
    BY <1>4, <2>1 DEF StreakAnswered
  <2>3. Answers(a, s)'
    BY <1>1, <1>4, <2>2, AnswerKept DEF Answers
  <2> QED
    BY <2>3
\* The newest reading breaches its policy, as the streak ends with it.
<1>5. ASSUME NEW h \in Handlers, pc[h] \in Judging, request[h].series = s,
             readings'[s] = readings[s]
      PROVE  /\ LevelUnder(request[h].policy, request[h].value) # NoLevel
             /\ OnStreak(s, request[h].policy)
  <2>1. OnStreak(s, request[h].policy)
    BY <1>2, <1>5 DEF OnStreak, Newest
  <2>2. LevelUnder(request[h].policy, readings[s][Len(readings[s])].value) # NoLevel
    BY <1>2, <1>3, <1>5, <2>1 DEF OnStreak
  <2> QED
    BY <1>2, <1>5, <2>1, <2>2 DEF Newest
<1> USE DEF GoesTo
<1>6. ASSUME NEW h \in Handlers,
             (\E t \in Series : Begins(h, t)) \/ Admits(h) \/ Leaves(h) \/ Finds(h) \/ Announces(h)
      PROVE  Goal
  <2>1. /\ UNCHANGED <<readings, alerts>> /\ OthersKept(h)
        /\ \/ pc[h] \notin Judging
           \/ pc'[h] \in Judging /\ request'[h].series = request[h].series
    BY <1>6 DEF Begins, Admits, Leaves, Finds, Announces, Judging
  <2> QED
    BY <1>4, <2>1, SettledBefore
<1>7. ASSUME NEW h \in Handlers, Stores(h) PROVE Goal
  <2>1. /\ pc'[h] \in Judging /\ request'[h].series = request[h].series
        /\ OthersKept(h) /\ pc[h] \notin Judging
        /\ alerts' = alerts
        /\ \A t \in Series \ {request[h].series} : readings'[t] = readings[t]
    BY <1>7 DEF Stores, Judging
  <2>2. s # request[h].series
    BY <2>1 DEF Settled
  <2> QED
    BY <1>4, <2>1, <2>2, SettledBefore
<1>8. ASSUME NEW h \in Handlers, FindsNone(h) PROVE Goal
  <2>1. /\ UNCHANGED <<readings, alerts>> /\ OthersKept(h) /\ pc[h] = "find"
        /\ IF LevelUnder(request[h].policy, request[h].value) = NoLevel
           THEN pc'[h] = "idle"
           ELSE pc'[h] = "recent" /\ request'[h].series = request[h].series
    BY <1>8 DEF FindsNone
  <2>2. CASE request[h].series = s /\ pc'[h] = "idle"
    BY <1>5, <2>1, <2>2 DEF Judging
  <2>3. CASE request[h].series # s \/ pc'[h] # "idle"
    BY <1>4, <2>1, <2>3, SettledBefore DEF Judging
  <2> QED
    BY <2>2, <2>3
<1>9. ASSUME NEW h \in Handlers, Counts(h) PROVE Goal
  <2> DEFINE t == request[h].series
             p == request[h].policy
  <2>1. /\ UNCHANGED <<readings, alerts>> /\ OthersKept(h) /\ pc[h] = "recent"
        /\ \/ pc'[h] = "create" /\ request'[h].series = request[h].series
           \/ /\ pc'[h] = "idle"
              /\ \/ Len(readings[t]) < p.consecutiveBreaches
                 \/ \E I \in Latest(t, p.consecutiveBreaches) : ~Breaching(t, I, p)
    BY <1>9 DEF Counts
  <2>2. CASE t = s /\ pc'[h] = "idle"
    <3>1. OnStreak(s, p) /\ p.consecutiveBreaches \in Nat \ {0}
      BY <1>2, <1>5, <2>1, <2>2 DEF Judging
    <3>2. PICK I \in Latest(s, p.consecutiveBreaches) : ~Breaching(s, I, p)
      BY <1>3, <2>1, <2>2, <3>1 DEF OnStreak
    <3>3. I = Len(readings[s]) - p.consecutiveBreaches + 1 .. Len(readings[s])
      BY <1>1, <3>1, LatestAreLast
    <3> QED
      BY <3>1, <3>2, <3>3 DEF OnStreak, Breaching
  <2>3. CASE t # s \/ pc'[h] # "idle"
    BY <1>4, <2>1, <2>3, SettledBefore DEF Judging
  <2> QED
    BY <2>2, <2>3
<1>10. ASSUME NEW h \in Handlers, Follows(h) PROVE Goal
  <2>1. /\ OthersKept(h) /\ UNCHANGED <<readings, comments>> /\ pc[h] = "update"
        /\ request[h].found \in AlertIds /\ alerts[request[h].found] \in Alert
        /\ alerts'[request[h].found] \in Alert
        /\ alerts'[request[h].found].series = alerts[request[h].found].series
        /\ alerts'[request[h].found].status = alerts[request[h].found].status
        /\ alerts'[request[h].found].lastValueAt = request[h].at
        /\ \A b \in AlertIds \ {request[h].found} : alerts'[b] = alerts[b]
    BY <1>10 DEF Follows
  <2>2. /\ alerts[request[h].found].series = request[h].series
        /\ IsOpen(request[h].found) \/ ResolvedByHand(request[h].found)
    BY <1>1, <2>1 DEF FoundStays, FindingStands
  <2>3. CASE request[h].series = s
    <3>1. PICK a \in AlertIds : a = request[h].found
      BY <2>1
    <3>2. Newest(s)' = Newest(s)
      BY <2>1 DEF Newest
    <3>3. /\ alerts'[a] # NoAlert /\ alerts'[a].series = s
          /\ alerts'[a].lastValueAt = Newest(s).at
      BY <1>2, <2>1, <2>2, <2>3, <3>1, NoAlertAssumption DEF Judging
    <3>4. IsOpen(a)' \/ ResolvedByHand(a)'
      BY <2>1, <2>2, <3>1, NoAlertAssumption DEF IsOpen, ResolvedByHand
    <3>5. Answers(a, s)'
      BY <3>2, <3>3, <3>4 DEF Answers
    <3> QED
      BY <3>5
  <2>4. CASE request[h].series # s
    BY <1>4, <2>1, <2>2, <2>4, SettledBefore
  <2> QED
    BY <2>3, <2>4
<1>11. ASSUME NEW h \in Handlers, Heals(h) PROVE Goal
  <2>1. /\ OthersKept(h) /\ UNCHANGED readings /\ pc[h] = "update"
        /\ LevelUnder(request[h].policy, request[h].value) = NoLevel
        /\ request[h].found \in AlertIds
        /\ \A b \in AlertIds \ {request[h].found} : alerts'[b] = alerts[b]
    BY <1>11 DEF Heals
  <2>2. alerts[request[h].found].series = request[h].series
    BY <1>1, <2>1 DEF FoundStays, FindingStands
  <2>3. CASE request[h].series = s
    BY <1>5, <2>1, <2>3 DEF Judging
  <2>4. CASE request[h].series # s
    BY <1>4, <2>1, <2>2, <2>4, SettledBefore
  <2> QED
    BY <2>3, <2>4
<1>12. ASSUME NEW h \in Handlers, NEW b \in AlertIds, Creates(h, b) PROVE Goal
  <2>1. /\ OthersKept(h) /\ UNCHANGED readings /\ pc[h] = "create"
        /\ alerts[b] = NoAlert /\ alerts'[b] \in Alert
        /\ alerts'[b].series = request[h].series /\ alerts'[b].status = "open"
        /\ \A a \in AlertIds \ {b} : alerts'[a] = alerts[a]
    BY <1>12 DEF Creates
  <2>2. CASE request[h].series = s
    <3>1. Answers(b, s)'
      BY <2>1, <2>2, NoAlertAssumption DEF Answers, IsOpen
    <3> QED
      BY <3>1
  <2>3. CASE request[h].series # s
    BY <1>4, <2>1, <2>3, SettledBefore
  <2> QED
    BY <2>2, <2>3
<1>13. ASSUME NEW u \in Users, ResolvesByHand(u) \/ Flags(u) PROVE Goal
  <2>1. UNCHANGED <<readings, pc, request>>
    BY <1>13 DEF ResolvesByHand, Flags
  <2>2. Settled(s)
    BY <2>1 DEF Settled
  <2> QED
    BY <1>4, <1>13, <2>1, <2>2
<1>14. ASSUME UNCHANGED <<readings, alerts, pc, request>> PROVE Goal
  <2>1. Settled(s)
    BY <1>14 DEF Settled
  <2> QED
    BY <1>4, <1>14, <2>1
<1> QED
  BY <1>1, <1>6, <1>7, <1>8, <1>9, <1>10, <1>11, <1>12, <1>13, <1>14, StepEffects DEF Tells, WritesNothing

\* No breach is missed: a series at rest whose last readings form a streak has
\* an alert open, or one somebody resolved by hand after the newest of them,
\* provided requests for a series do not overlap, none fails half-way and no
\* reading is sent again (recordValue's consecutive_breaches).
THEOREM NoStreakMissed ==
    ~AllowOverlap /\ ~AllowFailure /\ ~AllowResend => (Spec => []StreakHasAlert)
<1> SUFFICES ASSUME ~AllowOverlap, ~AllowFailure, ~AllowResend PROVE Spec => []StreakHasAlert
  OBVIOUS
<1>1. Init => StreakInv
  BY FollowInit, OrderInit DEF Init, StreakInv, StreakAnswered
<1>2. ASSUME StreakInv, [Next]_vars PROVE StreakInv'
  BY <1>2, FollowStep, OrderStep, StreakStep DEF StreakInv
<1>3. StreakInv => StreakHasAlert
  BY QuietIsSettled DEF StreakInv, StreakAnswered, Answers, StreakHasAlert
<1> QED
  BY <1>1, <1>2, <1>3, PTL DEF Spec
=============================================================================
