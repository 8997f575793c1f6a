------------------------ MODULE NotificationDelivery ------------------------
(***************************************************************************)
(* How the changes of one alert are announced (notifications.service.ts)   *)
(* while administrators change rules, destinations and the e-mail server   *)
(* (NotificationSettings).  Each announcement runs beside the request that *)
(* changed the alert: it reads the alert, finds the destinations, loads    *)
(* the e-mail server and sends to all destinations at once.  The wording   *)
(* of messages is left out.                                                *)
(***************************************************************************)
EXTENDS NotificationSettings, Integers

CONSTANTS
    AlertTeam, AlertPriority,   \* copied into the alert when it opens
    MaxEvents                   \* bounds the announcements

ASSUME DeliveryAssumption ==
    /\ AlertTeam \in Teams \cup {Null} /\ AlertPriority \in 1..4
    /\ MaxEvents \in Nat

VARIABLES
    alert,              \* status, severity and how often it changed
    announced,          \* announcements begun
    deliveries,         \* by announcement
    transport           \* the mail client that is kept, with the updatedAt it was built for

deliveryVars == <<alert, announced, deliveries, transport>>
vars == <<settingsVars, deliveryVars>>

Events == 1..MaxEvents

NoAlert == [status |-> "none", severity |-> "none", version |-> 0]

NotBegun == [stage |-> "none"]
Done == [stage |-> "done"]

DInit ==
    /\ Init
    /\ alert = NoAlert
    /\ announced = 0
    /\ deliveries = [e \in Events |-> NotBegun]
    /\ transport = Null

-----------------------------------------------------------------------------
(* The alert; AlertLifecycle has the details. *)

\* notifyAlert, called once the change is saved.
Announce(event, changed) ==
    /\ announced < MaxEvents
    /\ alert' = changed
    /\ announced' = announced + 1
    /\ deliveries' = [deliveries EXCEPT ![announced'] =
          [stage |-> "called", event |-> event, version |-> changed.version]]
    /\ UNCHANGED <<settingsVars, transport>>

Open(severity) ==
    /\ alert.status = "none"
    /\ Announce("opened", [status |-> "open", severity |-> severity, version |-> 1])

Escalate ==
    /\ alert.status = "open" /\ alert.severity = "warning"
    /\ Announce("escalated", [alert EXCEPT !.severity = "critical", !.version = @ + 1])

\* Back to warning, which is not announced.
Drop ==
    /\ announced < MaxEvents
    /\ alert.status = "open" /\ alert.severity = "critical"
    /\ alert' = [alert EXCEPT !.severity = "warning", !.version = @ + 1]
    /\ UNCHANGED <<settingsVars, announced, deliveries, transport>>

Resolve ==
    /\ alert.status = "open"
    /\ Announce("resolved", [alert EXCEPT !.status = "resolved", !.version = @ + 1])

-----------------------------------------------------------------------------
(* One announcement. *)

\* matchingRules: the enabled rules for the alert's team and priority.
Matches(rule) ==
    /\ rule.enabled
    /\ rule.teams = {} \/ AlertTeam \in rule.teams
    /\ rule.minPriority = Null \/ rule.minPriority >= AlertPriority

Picked == {d \in DestinationIds : \E r \in RulesTo(d) : Matches(rules[r])}

\* Mutant: the message is made of the alert as it was before the change.
MutantReadAlert(e) ==
    /\ deliveries[e].stage = "called"
    /\ deliveries' = [deliveries EXCEPT ![e] =
          [stage |-> "read", event |-> @.event, version |-> @.version,
           message |-> [alert EXCEPT !.version = deliveries[e].version - 1]]]
    /\ UNCHANGED <<settingsVars, alert, announced, transport>>

ReadAlert(e) ==
    /\ deliveries[e].stage = "called"
    /\ deliveries' = [deliveries EXCEPT ![e] =
          [stage |-> "read", event |-> @.event, version |-> @.version, message |-> alert]]
    /\ UNCHANGED <<settingsVars, alert, announced, transport>>

\* A destination is found with its recipients, and once however many rules
\* pick it.
FindDestinations(e) ==
    /\ deliveries[e].stage = "read"
    /\ deliveries' = [deliveries EXCEPT ![e] =
          IF Picked = {} THEN Done
          ELSE [stage |-> "found", event |-> @.event, version |-> @.version, message |-> @.message,
                to |-> [d \in Picked |-> destinations[d]]]]
    /\ UNCHANGED <<settingsVars, alert, announced, transport>>

Sending(e, d) == deliveries[e].stage = "sending" /\ d \in DOMAIN deliveries[e].send

\* What cannot be sent at all: mail without a server or a recipient, and a URL
\* that is missing or was saved before the rule for URLs existed.
RefusedMail(dest, loaded) == loaded = Null \/ Recipients(dest) = {}
RefusedWebhook(dest) == dest.url = Null \/ ~FitsUrl(dest.kind, dest.url)

Refused(dest, loaded) ==
    IF dest.kind = "email" THEN RefusedMail(dest, loaded) ELSE RefusedWebhook(dest)

\* Mutant: a client that was built once is kept for good.
MutantTransporterFor(loaded) ==
    IF transport # Null THEN transport
    ELSE [updatedAt |-> loaded.updatedAt, account |-> loaded.account, password |-> loaded.password]

\* transporterFor: the kept client if it was built for this save of the server.
\* The one it replaces is closed, which lets the mails it has begun end.
TransporterFor(loaded) ==
    IF transport # Null /\ transport.updatedAt = loaded.updatedAt THEN transport
    ELSE [updatedAt |-> loaded.updatedAt, account |-> loaded.account, password |-> loaded.password]

\* The server is loaded once, and only for e-mail; with no await in between,
\* every destination is refused or its first attempt is on its way.
LoadServerAndSend(e) ==
    LET to == deliveries[e].to
        mailTo == {d \in DOMAIN to : to[d].kind = "email"}
        loaded == IF mailTo = {} THEN Null ELSE server
        mails == \E d \in mailTo : ~Refused(to[d], loaded) IN
    /\ deliveries[e].stage = "found"
    /\ transport' = IF mails THEN TransporterFor(loaded) ELSE transport
    /\ deliveries' = [deliveries EXCEPT ![e] =
          [stage |-> "sending", loaded |-> loaded, via |-> IF mails THEN transport' ELSE Null,
           lost |-> [d \in DOMAIN to |-> FALSE],
           got |-> [d \in DOMAIN to |-> 0],
           send |-> [d \in DOMAIN to |-> IF Refused(to[d], loaded) THEN "failed" ELSE "first"]]]
    /\ UNCHANGED <<settingsVars, alert, announced>>

\* An attempt is answered: delivered, or refused for good.
Answered(e, d) ==
    /\ Sending(e, d) /\ deliveries[e].send[d] \in {"first", "second"}
    /\ \/ deliveries' = [deliveries EXCEPT ![e].send[d] = "sent", ![e].got[d] = @ + 1]
       \/ deliveries' = [deliveries EXCEPT ![e].send[d] = "failed"]
    /\ UNCHANGED <<settingsVars, alert, announced, transport>>

\* Mutant: an attempt that may pass is made again and again.
MutantNotAnswered(e, d) ==
    /\ Sending(e, d) /\ deliveries[e].send[d] \in {"first", "second"}
    /\ \E through \in BOOLEAN :
          deliveries' = [deliveries EXCEPT
                ![e].send[d] = "pause",
                ![e].lost[d] = @ \/ through,
                ![e].got[d] = IF through THEN @ + 1 ELSE @]
    /\ UNCHANGED <<settingsVars, alert, announced, transport>>

\* An attempt fails in a way that may pass, or its answer is lost after the
\* message got through: one retry.
NotAnswered(e, d) ==
    /\ Sending(e, d) /\ deliveries[e].send[d] \in {"first", "second"}
    /\ \E through \in BOOLEAN :
          deliveries' = [deliveries EXCEPT
                ![e].send[d] = IF @ = "first" THEN "pause" ELSE "failed",
                ![e].lost[d] = @ \/ through,
                ![e].got[d] = IF through THEN @ + 1 ELSE @]
    /\ UNCHANGED <<settingsVars, alert, announced, transport>>

Retry(e, d) ==
    /\ Sending(e, d) /\ deliveries[e].send[d] = "pause"
    /\ deliveries' = [deliveries EXCEPT ![e].send[d] = "second"]
    /\ UNCHANGED <<settingsVars, alert, announced, transport>>

\* The outcome is noted at the destination, if that still exists, for the page
\* to show (left out); the last one ends the announcement.
Record(e, d) ==
    LET f == [deliveries[e] EXCEPT !.send[d] = "recorded"] IN
    /\ Sending(e, d) /\ deliveries[e].send[d] \in {"sent", "failed"}
    /\ deliveries' = [deliveries EXCEPT ![e] =
          IF \A x \in DOMAIN f.send : f.send[x] = "recorded" THEN Done ELSE f]
    /\ UNCHANGED <<settingsVars, alert, announced, transport>>

\* The API restarts: announcements and the kept client are lost with it.
Crash ==
    /\ \E e \in Events : deliveries[e].stage \notin {"none", "done"}
    /\ deliveries' = [e \in Events |->
          IF deliveries[e].stage = "none" THEN NotBegun ELSE Done]
    /\ transport' = Null
    /\ requests' = [q \in Requests |-> Idle]
    /\ UNCHANGED <<settings, asked, alert, announced>>

SendStep(e, d) ==
    Answered(e, d) \/ NotAnswered(e, d) \/ Retry(e, d) \/ Record(e, d)

DeliveryStep(e) == ReadAlert(e) \/ FindDestinations(e) \/ LoadServerAndSend(e)

DNext ==
    \/ Administer /\ UNCHANGED deliveryVars
    \/ \E severity \in {"warning", "critical"} : Open(severity)
    \/ Escalate \/ Drop \/ Resolve
    \/ \E e \in Events : DeliveryStep(e) \/ \E d \in DestinationIds : SendStep(e, d)
    \/ Crash

DSpec == DInit /\ [][DNext]_vars

-----------------------------------------------------------------------------
(* Properties. *)

Client == [updatedAt : Nat, account : Accounts, password : Accounts \cup {Null}]
AlertState == [status : {"none", "open", "resolved"}, severity : {"none", "warning", "critical"},
               version : Nat]
SendStates == {"first", "pause", "second", "sent", "failed", "recorded"}
EventNames == {"opened", "escalated", "resolved"}

DeliveryTyped(f) ==
    \/ f \in {NotBegun, Done}
    \/ f \in [stage : {"called"}, event : EventNames, version : Nat]
    \/ f \in [stage : {"read"}, event : EventNames, version : Nat, message : AlertState]
    \/ \E to \in (SUBSET DestinationIds) \ {{}} :
          \/ f \in [stage : {"found"}, event : EventNames, version : Nat, message : AlertState,
                    to : [to -> Destination]]
          \/ f \in [stage : {"sending"}, loaded : Server \cup {Null}, via : Client \cup {Null},
                    lost : [to -> BOOLEAN], got : [to -> Nat], send : [to -> SendStates]]

\* Type correctness of the settings, of the alert and of its announcements.
TypeOK ==
    /\ SettingsTyped
    /\ alert \in AlertState
    /\ announced \in 0..MaxEvents
    /\ DOMAIN deliveries = Events /\ \A e \in Events : DeliveryTyped(deliveries[e])
    /\ transport \in Client \cup {Null}

\* Every mail of an announcement goes through the account, and with the
\* password, that the announcement loaded, whichever other announcements and
\* saves of the server use or replace the kept client meanwhile
\* (transporterFor: "Rebuilt only when an admin saves the server").
MailGoesThroughLoadedServer ==
    \A e \in Events :
        deliveries[e].stage = "sending" /\ deliveries[e].via # Null =>
            /\ deliveries[e].via.account = deliveries[e].loaded.account
            /\ deliveries[e].via.password \in {Null, deliveries[e].loaded.account}

\* A message tells of its change or of a later one, and of a resolved alert
\* whenever it announces the resolution ("Delivery runs after the alert is
\* saved", notifications.service.ts:13).
MessageIsNotOlder ==
    \A e \in Events : deliveries[e].stage \in {"read", "found"} =>
        /\ deliveries[e].message.version >= deliveries[e].version
        /\ deliveries[e].event = "resolved" => deliveries[e].message.status = "resolved"

\* "one message" per announcement and destination (notifications.service.ts:11):
\* a second one only where the first was received and its answer lost.
OneMessageEach ==
    \A e \in Events, d \in DestinationIds :
        Sending(e, d) =>
            /\ deliveries[e].got[d] <= 2
            /\ deliveries[e].got[d] = 2 => deliveries[e].lost[d]
=============================================================================
