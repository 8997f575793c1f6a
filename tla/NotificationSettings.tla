------------------------ MODULE NotificationSettings ------------------------
(***************************************************************************)
(* What administrators set up for notifications: rules                     *)
(* (rules.service.ts), destinations (destinations.service.ts) and the      *)
(* e-mail server (email-server.service.ts), by requests that check first   *)
(* and write later.  Ids are never given out twice.  Names are left out;   *)
(* p1..p4 are 1..4.                                                        *)
(***************************************************************************)
EXTENDS Naturals, FiniteSets

CONSTANTS
    RuleIds, DestinationIds, Teams, Addresses, Users,
    Urls, FitsUrl(_, _),        \* which URL a kind of webhook takes (urlKindError)
    Accounts, SignsIn(_),       \* host, port, security and user name of a mail server;
                                \* whether the user name is set
    Requests,                   \* administrators' requests that may be in progress together
    NewRules, RulePatches, NewDestinations, DestinationPatches,
                                \* what requests carry
    SavedRules, SavedDestinations, SavedServers,
                                \* what was set up before, one of SavedServers
    Null, Gone,                 \* not created yet, deleted
    MaxRequests                 \* bounds the requests

Kinds == {"discord", "slack", "generic", "email"}

Rule == [teams : SUBSET Teams, minPriority : 1..4 \cup {Null}, enabled : BOOLEAN,
         to : SUBSET DestinationIds]
Destination == [kind : Kinds, url : Urls \cup {Null},
                addresses : SUBSET Addresses, users : SUBSET Users]
Server == [account : Accounts, password : Accounts \cup {Null}, updatedAt : Nat]

ASSUME SettingsAssumption ==
    /\ NewRules \subseteq Rule /\ NewDestinations \subseteq Destination
    /\ SavedRules \in [RuleIds -> Rule \cup {Null}]
    /\ SavedDestinations \in [DestinationIds -> Destination \cup {Null}]
    /\ \A r \in RuleIds : SavedRules[r] # Null =>
          \A d \in SavedRules[r].to : SavedDestinations[d] # Null
    /\ SavedServers \subseteq Server \cup {Null}
    /\ \A s \in SavedServers : s # Null => s.password \in {Null, s.account} /\ s.updatedAt = 0
    /\ \A patch \in RulePatches :
          /\ DOMAIN patch \subseteq {"teams", "minPriority", "enabled", "to"}
          /\ "to" \in DOMAIN patch => patch.to \subseteq DestinationIds /\ patch.to # {}
          /\ "teams" \in DOMAIN patch => patch.teams \subseteq Teams
          /\ "minPriority" \in DOMAIN patch => patch.minPriority \in 1..4 \cup {Null}
          /\ "enabled" \in DOMAIN patch => patch.enabled \in BOOLEAN
    /\ \A patch \in DestinationPatches :
          /\ DOMAIN patch \subseteq {"url", "addresses", "users"}
          /\ "url" \in DOMAIN patch => patch.url \in Urls
          /\ "addresses" \in DOMAIN patch => patch.addresses \subseteq Addresses
          /\ "users" \in DOMAIN patch => patch.users \subseteq Users
    /\ Null # Gone
    /\ {Null, Gone} \cap (Rule \cup Destination \cup Server \cup Urls \cup Accounts \cup 1..4) = {}
    /\ MaxRequests \in Nat

VARIABLES
    rules, destinations,
    users,              \* who may be a recipient
    server,             \* the row of the e-mail server, Null while mail is off
    saves,              \* of the server; stands for its updatedAt, so two saves never
                        \* share a millisecond
    requests,           \* between a request's check and its write
    asked

settings == <<rules, destinations, users, server, saves>>
settingsVars == <<rules, destinations, users, server, saves, requests, asked>>

Idle == [op |-> "idle"]

Init ==
    /\ rules = SavedRules
    /\ destinations = SavedDestinations
    /\ users = Users
    /\ server \in SavedServers
    /\ saves = 0
    /\ requests = [q \in Requests |-> Idle]
    /\ asked = 0

-----------------------------------------------------------------------------

RuleExists(r) == rules[r] \notin {Null, Gone}
DestinationExists(d) == destinations[d] \notin {Null, Gone}

\* A patch replaces the fields it has.
Patched(record, patch) ==
    [f \in DOMAIN record |-> IF f \in DOMAIN patch THEN patch[f] ELSE record[f]]

RulesTo(d) == {r \in RuleIds : RuleExists(r) /\ d \in rules[r].to}

Recipients(dest) == dest.addresses \cup dest.users

Counted == asked < MaxRequests /\ asked' = asked + 1

Begin(q, request) ==
    /\ Counted
    /\ requests[q] = Idle
    /\ requests' = [requests EXCEPT ![q] = request]
    /\ UNCHANGED settings

End(q) == requests' = [requests EXCEPT ![q] = Idle] /\ UNCHANGED asked

-----------------------------------------------------------------------------
(* Rules.  destinationLinks wants every destination to exist when it looks; *)
(* a destination that is gone by the time of the write makes it fail.       *)

AllExist(to) == \A d \in to : DestinationExists(d)

BeginCreateRule(q, rule) ==
    /\ AllExist(rule.to)
    /\ Begin(q, [op |-> "createRule", rule |-> rule])

CreateRule(q, r) ==
    /\ requests[q].op = "createRule"
    /\ End(q)
    /\ rules[r] = Null
    /\ rules' = IF AllExist(requests[q].rule.to)
                THEN [rules EXCEPT ![r] = requests[q].rule] ELSE rules
    /\ UNCHANGED <<destinations, users, server, saves>>

BeginUpdateRule(q, r, patch) ==
    /\ RuleExists(r)
    /\ "to" \in DOMAIN patch => AllExist(patch.to)
    /\ Begin(q, [op |-> "updateRule", rule |-> r, patch |-> patch])

UpdateRule(q) ==
    LET r == requests[q].rule  patch == requests[q].patch IN
    /\ requests[q].op = "updateRule"
    /\ End(q)
    /\ rules' = IF RuleExists(r) /\ ("to" \in DOMAIN patch => AllExist(patch.to))
                THEN [rules EXCEPT ![r] = Patched(@, patch)] ELSE rules
    /\ UNCHANGED <<destinations, users, server, saves>>

DeleteRule(r) ==
    /\ Counted
    /\ RuleExists(r)
    /\ rules' = [rules EXCEPT ![r] = Gone]
    /\ UNCHANGED <<destinations, users, server, saves, requests>>

-----------------------------------------------------------------------------
(* Destinations. *)

\* createDestination and updateDestination: checkUrl, checkRecipients.
Accepted(dest) ==
    IF dest.kind = "email" THEN Recipients(dest) # {} /\ dest.users \subseteq users
    ELSE FitsUrl(dest.kind, dest.url)

BeginCreateDestination(q, dest) ==
    /\ Accepted(dest)
    /\ Begin(q, [op |-> "createDestination", destination |-> dest])

\* A recipient who was removed meanwhile makes the write fail.
CreateDestination(q, d) ==
    LET dest == requests[q].destination IN
    /\ requests[q].op = "createDestination"
    /\ End(q)
    /\ destinations[d] = Null
    /\ destinations' = IF dest.users \subseteq users
                       THEN [destinations EXCEPT ![d] = dest] ELSE destinations
    /\ UNCHANGED <<rules, users, server, saves>>

\* Mutant: the patch is checked without what it leaves alone.
MutantBeginUpdateDestination(q, d, patch) ==
    /\ DestinationExists(d)
    /\ DOMAIN patch \subseteq (IF destinations[d].kind = "email" THEN {"addresses", "users"} ELSE {"url"})
    /\ "users" \in DOMAIN patch => patch.users \subseteq users
    /\ Begin(q, [op |-> "updateDestination", destination |-> d, patch |-> patch,
                 read |-> destinations[d]])

\* Fields of the other kind are refused, and the destination as it will be is
\* checked, unless the patch has its name only.
BeginUpdateDestination(q, d, patch) ==
    /\ DestinationExists(d)
    /\ DOMAIN patch \subseteq (IF destinations[d].kind = "email" THEN {"addresses", "users"} ELSE {"url"})
    /\ DOMAIN patch # {} => Accepted(Patched(destinations[d], patch))
    /\ Begin(q, [op |-> "updateDestination", destination |-> d, patch |-> patch,
                 read |-> destinations[d]])

UpdateDestination(q) ==
    LET d == requests[q].destination  patch == requests[q].patch IN
    /\ requests[q].op = "updateDestination"
    /\ End(q)
    /\ destinations' = IF DestinationExists(d) /\ ("users" \in DOMAIN patch => patch.users \subseteq users)
                       THEN [destinations EXCEPT ![d] = Patched(@, patch)] ELSE destinations
    /\ UNCHANGED <<rules, users, server, saves>>

\* Refused while a rule sends to it.
BeginDeleteDestination(q, d) ==
    /\ DestinationExists(d)
    /\ RulesTo(d) = {}
    /\ Begin(q, [op |-> "deleteDestination", destination |-> d])

\* Mutant: the links of rules stay behind.
MutantDeleteDestination(q) ==
    /\ requests[q].op = "deleteDestination"
    /\ End(q)
    /\ destinations' = [destinations EXCEPT ![requests[q].destination] = Gone]
    /\ UNCHANGED <<rules, users, server, saves>>

\* The database takes the links of rules along.
DeleteDestination(q) ==
    LET d == requests[q].destination IN
    /\ requests[q].op = "deleteDestination"
    /\ End(q)
    /\ destinations' = [destinations EXCEPT ![d] = Gone]
    /\ rules' = [r \in RuleIds |-> IF r \in RulesTo(d) THEN [rules[r] EXCEPT !.to = @ \ {d}]
                                   ELSE rules[r]]
    /\ UNCHANGED <<users, server, saves>>

\* A user is removed; the database takes the user's recipient rows along.
RemoveUser(u) ==
    /\ Counted
    /\ u \in users
    /\ users' = users \ {u}
    /\ destinations' = [d \in DestinationIds |->
                           IF DestinationExists(d) THEN [destinations[d] EXCEPT !.users = @ \ {u}]
                           ELSE destinations[d]]
    /\ UNCHANGED <<rules, server, saves, requests>>

-----------------------------------------------------------------------------
(* The e-mail server.  A password is known by the account it was typed for. *)

Stored(account, password) ==
    /\ server' = [account |-> account, updatedAt |-> saves + 1,
                  password |-> IF SignsIn(account) THEN password ELSE Null]
    /\ saves' = saves + 1

\* With a password typed in, or for a server that needs none.
SaveEmailServer(account) ==
    /\ Counted
    /\ Stored(account, account)
    /\ UNCHANGED <<rules, destinations, users, requests>>

\* With the saved password, which only the same account keeps.
BeginKeepPassword(q, account) ==
    /\ SignsIn(account)
    /\ server # Null /\ server.password # Null /\ server.account = account
    /\ Begin(q, [op |-> "keepPassword", account |-> account, password |-> server.password])

\* Mutant: the write leaves the password of the row as it is by then.
MutantKeepPassword(q) ==
    /\ requests[q].op = "keepPassword"
    /\ End(q)
    /\ Stored(requests[q].account, IF server = Null THEN Null ELSE server.password)
    /\ UNCHANGED <<rules, destinations, users>>

KeepPassword(q) ==
    /\ requests[q].op = "keepPassword"
    /\ End(q)
    /\ Stored(requests[q].account, requests[q].password)
    /\ UNCHANGED <<rules, destinations, users>>

DeleteEmailServer ==
    /\ Counted
    /\ server # Null
    /\ server' = Null
    /\ UNCHANGED <<rules, destinations, users, saves, requests>>

-----------------------------------------------------------------------------

Ask(q) ==
    \/ \E rule \in NewRules : BeginCreateRule(q, rule)
    \/ \E r \in RuleIds, patch \in RulePatches : BeginUpdateRule(q, r, patch)
    \/ \E dest \in NewDestinations : BeginCreateDestination(q, dest)
    \/ \E d \in DestinationIds, patch \in DestinationPatches : BeginUpdateDestination(q, d, patch)
    \/ \E d \in DestinationIds : BeginDeleteDestination(q, d)
    \/ \E account \in Accounts : BeginKeepPassword(q, account)

Finish(q) ==
    \/ \E r \in RuleIds : CreateRule(q, r)
    \/ \E d \in DestinationIds : CreateDestination(q, d)
    \/ UpdateRule(q)
    \/ UpdateDestination(q)
    \/ DeleteDestination(q)
    \/ KeepPassword(q)

Administer ==
    \/ \E q \in Requests : Ask(q) \/ Finish(q)
    \/ \E r \in RuleIds : DeleteRule(r)
    \/ \E u \in Users : RemoveUser(u)
    \/ \E account \in Accounts : SaveEmailServer(account)
    \/ DeleteEmailServer

-----------------------------------------------------------------------------
(* Properties. *)

Request ==
    {Idle} \cup [op : {"createRule"}, rule : NewRules]
    \cup [op : {"updateRule"}, rule : RuleIds, patch : RulePatches]
    \cup [op : {"createDestination"}, destination : NewDestinations]
    \cup [op : {"updateDestination"}, destination : DestinationIds,
          patch : DestinationPatches, read : Destination]
    \cup [op : {"deleteDestination"}, destination : DestinationIds]
    \cup [op : {"keepPassword"}, account : Accounts, password : Accounts]

\* Type correctness of what is saved and of the requests at work; a rule sends
\* only to destinations that exist, and recipients are users that exist.
SettingsTyped ==
    /\ rules \in [RuleIds -> Rule \cup {Null, Gone}]
    /\ destinations \in [DestinationIds -> Destination \cup {Null, Gone}]
    /\ users \subseteq Users
    /\ server \in Server \cup {Null}
    /\ saves \in Nat
    /\ requests \in [Requests -> Request]
    /\ asked \in 0..MaxRequests
    /\ \A r \in RuleIds : RuleExists(r) => AllExist(rules[r].to)
    /\ \A d \in DestinationIds : DestinationExists(d) => destinations[d].users \subseteq users

\* "so it can't be sent to a server an admin just typed in, or in the clear
\* after a switch to none" (email-server.service.ts:35-36): the saved password
\* is one that was typed in for the very account it is saved with, whatever
\* other saves came between a save's look at the old row and its write.
PasswordIsTheAccounts ==
    server # Null /\ server.password # Null => server.password = server.account

\* An e-mail destination is left without recipients only by the removal of a
\* user, or by a patch that was checked against recipients that have changed
\* since (checkRecipients: "add at least one recipient").
LosesRecipientsOnlyByRace ==
    [][\A d \in DestinationIds :
          /\ DestinationExists(d) /\ DestinationExists(d)'
          /\ destinations[d].kind = "email" /\ Recipients(destinations[d]) # {}
          /\ Recipients(destinations'[d]) = {}
          => \/ users' # users
             \/ \E q \in Requests :
                   /\ requests[q].op = "updateDestination" /\ requests'[q] = Idle
                   /\ requests[q].read # destinations[d]]_settingsVars
=============================================================================
