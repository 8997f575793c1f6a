------------------------- MODULE NotificationProofs -------------------------
(***************************************************************************)
(* Theorems about NotificationSettings and NotificationDelivery, for every *)
(* value of their constants: what requests that check first and write      *)
(* later keep, and what an announcement sends while they change things.    *)
(***************************************************************************)
EXTENDS NotificationDelivery, TLAPS

(* What requests carry from their check to their write. *)

\* What the check of a request in progress found, and the write relies on.
Checked(request) ==
    /\ request.op = "keepPassword" => request.password = request.account
    /\ request.op = "updateDestination" /\ request.read.kind = "email" /\ DOMAIN request.patch # {} =>
          Recipients(Patched(request.read, request.patch)) # {}

RequestsChecked == \A q \in Requests : Checked(requests[q])

SettingsInv == SettingsTyped /\ PasswordIsTheAccounts /\ RequestsChecked

\* A request is of the shape its operation says.
LEMMA RequestShapes ==
    ASSUME NEW request \in Request
    PROVE  /\ request.op = "createRule" => request.rule \in NewRules
           /\ request.op = "updateRule" => request.rule \in RuleIds /\ request.patch \in RulePatches
           /\ request.op = "createDestination" => request.destination \in NewDestinations
           /\ request.op = "updateDestination" =>
                 /\ request.destination \in DestinationIds
                 /\ request.patch \in DestinationPatches
                 /\ request.read \in Destination
           /\ request.op = "deleteDestination" => request.destination \in DestinationIds
           /\ request.op = "keepPassword" => request.account \in Accounts /\ request.password \in Accounts
  BY DEF Request, Idle

LEMMA IdleRequest == Idle \in Request /\ Checked(Idle)
  BY DEF Request, Idle, Checked

\* A patch leaves a rule a rule, and a destination a destination of its kind.
LEMMA PatchedRule ==
    ASSUME NEW rule \in Rule, NEW patch \in RulePatches
    PROVE  /\ Patched(rule, patch) \in Rule
           /\ Patched(rule, patch).to = IF "to" \in DOMAIN patch THEN patch.to ELSE rule.to
<1>1. /\ DOMAIN rule = {"teams", "minPriority", "enabled", "to"}
      /\ rule = [teams |-> rule.teams, minPriority |-> rule.minPriority,
                 enabled |-> rule.enabled, to |-> rule.to]
  BY DEF Rule
<1>2. /\ DOMAIN patch \subseteq {"teams", "minPriority", "enabled", "to"}
      /\ "to" \in DOMAIN patch => patch.to \in SUBSET DestinationIds
      /\ "teams" \in DOMAIN patch => patch.teams \in SUBSET Teams
      /\ "minPriority" \in DOMAIN patch => patch.minPriority \in 1..4 \cup {Null}
      /\ "enabled" \in DOMAIN patch => patch.enabled \in BOOLEAN
  BY SettingsAssumption
<1>3. Patched(rule, patch) = [teams |-> Patched(rule, patch).teams,
          minPriority |-> Patched(rule, patch).minPriority,
          enabled |-> Patched(rule, patch).enabled, to |-> Patched(rule, patch).to]
  BY <1>1 DEF Patched
<1>4. /\ Patched(rule, patch).teams \in SUBSET Teams
      /\ Patched(rule, patch).minPriority \in 1..4 \cup {Null}
      /\ Patched(rule, patch).enabled \in BOOLEAN
      /\ Patched(rule, patch).to \in SUBSET DestinationIds
      /\ Patched(rule, patch).to = IF "to" \in DOMAIN patch THEN patch.to ELSE rule.to
  BY <1>1, <1>2 DEF Patched, Rule
<1> QED
  BY <1>3, <1>4 DEF Rule

LEMMA PatchedDestination ==
    ASSUME NEW dest \in Destination, NEW patch \in DestinationPatches
    PROVE  /\ Patched(dest, patch) \in Destination
           /\ Patched(dest, patch).kind = dest.kind
           /\ Patched(dest, patch).users = IF "users" \in DOMAIN patch THEN patch.users ELSE dest.users
<1>1. /\ DOMAIN dest = {"kind", "url", "addresses", "users"}
      /\ dest = [kind |-> dest.kind, url |-> dest.url, addresses |-> dest.addresses, users |-> dest.users]
  BY DEF Destination
<1>2. /\ DOMAIN patch \subseteq {"url", "addresses", "users"}
      /\ "url" \in DOMAIN patch => patch.url \in Urls
      /\ "addresses" \in DOMAIN patch => patch.addresses \in SUBSET Addresses
      /\ "users" \in DOMAIN patch => patch.users \in SUBSET Users
  BY SettingsAssumption
<1>3. Patched(dest, patch) = [kind |-> Patched(dest, patch).kind, url |-> Patched(dest, patch).url,
          addresses |-> Patched(dest, patch).addresses, users |-> Patched(dest, patch).users]
  BY <1>1 DEF Patched
<1>4. /\ Patched(dest, patch).kind = dest.kind
      /\ Patched(dest, patch).url \in Urls \cup {Null}
      /\ Patched(dest, patch).addresses \in SUBSET Addresses
      /\ Patched(dest, patch).users \in SUBSET Users
      /\ Patched(dest, patch).users = IF "users" \in DOMAIN patch THEN patch.users ELSE dest.users
  BY <1>1, <1>2 DEF Patched, Destination
<1> QED
  BY <1>3, <1>4 DEF Destination

\* What exists is a rule, a destination.
LEMMA Existing ==
    ASSUME SettingsTyped
    PROVE  /\ \A r \in RuleIds : RuleExists(r) => rules[r] \in Rule
           /\ \A d \in DestinationIds : DestinationExists(d) => destinations[d] \in Destination
  BY DEF SettingsTyped, RuleExists, DestinationExists

-----------------------------------------------------------------------------
(* The settings keep their shape, whatever requests come between the check *)
(* and the write of one.                                                    *)

LEMMA SettingsInit == DInit => SettingsInv
<1> SUFFICES ASSUME DInit PROVE SettingsInv
  OBVIOUS
<1>0. Init
  BY DEF DInit
<1>1. /\ rules \in [RuleIds -> Rule \cup {Null, Gone}]
      /\ destinations \in [DestinationIds -> Destination \cup {Null, Gone}]
  BY <1>0, SettingsAssumption DEF Init
<1>2. \A r \in RuleIds : RuleExists(r) => AllExist(rules[r].to)
  <2> SUFFICES ASSUME NEW r \in RuleIds, RuleExists(r), NEW d \in rules[r].to
               PROVE  DestinationExists(d)
    BY DEF AllExist
  <2>1. rules[r] \in Rule /\ d \in DestinationIds
    BY <1>1 DEF RuleExists, Rule
  <2>2. destinations[d] # Null
    BY <1>0, SettingsAssumption DEF Init, RuleExists
  <2>3. destinations[d] \in Destination \cup {Null}
    BY <1>0, <2>1, SettingsAssumption DEF Init
  <2>4. Gone \notin Destination
    BY SettingsAssumption
  <2> QED
    BY <2>2, <2>3, <2>4, SettingsAssumption DEF DestinationExists
<1>3. \A d \in DestinationIds : DestinationExists(d) => destinations[d].users \subseteq users
  BY <1>0, <1>1 DEF Init, DestinationExists, Destination
<1>4. SettingsTyped
  BY <1>0, <1>1, <1>2, <1>3, IdleRequest, SettingsAssumption DEF Init, SettingsTyped
<1> QED
  BY <1>0, <1>4, IdleRequest, SettingsAssumption
     DEF Init, SettingsInv, PasswordIsTheAccounts, RequestsChecked

\* A request that begins has been checked.
LEMMA Asked ==
    ASSUME SettingsInv, NEW q \in Requests, Ask(q)
    PROVE  \E request \in Request : Begin(q, request) /\ Checked(request)
<1>0. SettingsTyped /\ PasswordIsTheAccounts
  BY DEF SettingsInv
<1>1. ASSUME NEW rule \in NewRules, BeginCreateRule(q, rule)
      PROVE  \E request \in Request : Begin(q, request) /\ Checked(request)
  <2>1. [op |-> "createRule", rule |-> rule] \in Request
    BY DEF Request
  <2> QED
    BY <1>1, <2>1 DEF BeginCreateRule, Checked
<1>2. ASSUME NEW r \in RuleIds, NEW patch \in RulePatches, BeginUpdateRule(q, r, patch)
      PROVE  \E request \in Request : Begin(q, request) /\ Checked(request)
  <2>1. [op |-> "updateRule", rule |-> r, patch |-> patch] \in Request
    BY DEF Request
  <2> QED
    BY <1>2, <2>1 DEF BeginUpdateRule, Checked
<1>3. ASSUME NEW dest \in NewDestinations, BeginCreateDestination(q, dest)
      PROVE  \E request \in Request : Begin(q, request) /\ Checked(request)
  <2>1. [op |-> "createDestination", destination |-> dest] \in Request
    BY DEF Request
  <2> QED
    BY <1>3, <2>1 DEF BeginCreateDestination, Checked
<1>4. ASSUME NEW d \in DestinationIds, NEW patch \in DestinationPatches,
             BeginUpdateDestination(q, d, patch)
      PROVE  \E request \in Request : Begin(q, request) /\ Checked(request)
  <2> DEFINE request == [op |-> "updateDestination", destination |-> d, patch |-> patch,
                         read |-> destinations[d]]
  <2>1. destinations[d] \in Destination
    BY <1>0, <1>4, Existing DEF BeginUpdateDestination
  <2>2. request \in Request
    BY <2>1 DEF Request
  <2>3. destinations[d].kind = "email" /\ DOMAIN patch # {} =>
            Recipients(Patched(destinations[d], patch)) # {}
    BY <1>4, <2>1, PatchedDestination DEF BeginUpdateDestination, Accepted
  <2>4. Begin(q, request)
    BY <1>4 DEF BeginUpdateDestination
  <2> QED
    BY <2>2, <2>3, <2>4 DEF Checked
<1>5. ASSUME NEW d \in DestinationIds, BeginDeleteDestination(q, d)
      PROVE  \E request \in Request : Begin(q, request) /\ Checked(request)
  <2>1. [op |-> "deleteDestination", destination |-> d] \in Request
    BY DEF Request
  <2> QED
    BY <1>5, <2>1 DEF BeginDeleteDestination, Checked
<1>6. ASSUME NEW account \in Accounts, BeginKeepPassword(q, account)
      PROVE  \E request \in Request : Begin(q, request) /\ Checked(request)
  <2>1. server.password = account
    BY <1>0, <1>6 DEF BeginKeepPassword, PasswordIsTheAccounts
  <2>2. [op |-> "keepPassword", account |-> account, password |-> server.password] \in Request
    BY <2>1 DEF Request
  <2> QED
    BY <1>6, <2>1, <2>2 DEF BeginKeepPassword, Checked
<1> QED
  BY <1>1, <1>2, <1>3, <1>4, <1>5, <1>6 DEF Ask

\* The links of rules and the recipients that are users, by themselves.
Linked == \A r \in RuleIds : RuleExists(r) => AllExist(rules[r].to)
RecipientsExist ==
    \A d \in DestinationIds : DestinationExists(d) => destinations[d].users \subseteq users

\* What is there stays, or may be deleted with the links to it.
LEMMA SettingsParts ==
    SettingsTyped <=>
        /\ rules \in [RuleIds -> Rule \cup {Null, Gone}]
        /\ destinations \in [DestinationIds -> Destination \cup {Null, Gone}]
        /\ users \subseteq Users
        /\ server \in Server \cup {Null}
        /\ saves \in Nat
        /\ requests \in [Requests -> Request]
        /\ asked \in 0..MaxRequests
        /\ Linked /\ RecipientsExist
  BY DEF SettingsTyped, Linked, RecipientsExist

\* A rule is saved, with destinations that exist.
LEMMA RuleSaved ==
    ASSUME SettingsTyped, NEW r \in RuleIds, NEW rule \in Rule, AllExist(rule.to),
           rules' = [rules EXCEPT ![r] = rule], UNCHANGED destinations
    PROVE  rules' \in [RuleIds -> Rule \cup {Null, Gone}] /\ Linked'
  BY SettingsParts DEF Linked, RuleExists, AllExist, DestinationExists

\* A destination is saved, with recipients that exist.
LEMMA DestinationSaved ==
    ASSUME SettingsTyped, NEW d \in DestinationIds, NEW dest \in Destination, dest.users \subseteq users,
           destinations' = [destinations EXCEPT ![d] = dest], UNCHANGED <<rules, users>>
    PROVE  /\ destinations' \in [DestinationIds -> Destination \cup {Null, Gone}]
           /\ Linked' /\ RecipientsExist'
<1>1. destinations' \in [DestinationIds -> Destination \cup {Null, Gone}]
  BY SettingsParts
<1>2. \A x \in DestinationIds : DestinationExists(x) => DestinationExists(x)'
  BY SettingsParts, SettingsAssumption DEF DestinationExists
<1>3. Linked'
  <2> SUFFICES ASSUME NEW r \in RuleIds, RuleExists(r), NEW x \in rules[r].to
               PROVE  DestinationExists(x)'
    BY DEF Linked, AllExist, RuleExists
  <2>1. x \in DestinationIds
    BY Existing DEF Rule
  <2> QED
    BY <1>2, <2>1, SettingsParts DEF Linked, AllExist
<1>4. RecipientsExist'
  BY SettingsParts DEF RecipientsExist, DestinationExists
<1> QED
  BY <1>1, <1>3, <1>4

\* A request begins or ends.
LEMMA RequestChanged ==
    ASSUME SettingsInv, NEW q \in Requests, NEW request \in Request, Checked(request),
           requests' = [requests EXCEPT ![q] = request]
    PROVE  requests' \in [Requests -> Request] /\ RequestsChecked'
<1>1. requests \in [Requests -> Request]
  BY DEF SettingsInv, SettingsTyped
<1> QED
  BY <1>1 DEF SettingsInv, RequestsChecked

\* A step of the administrators that writes neither a rule nor a destination
\* nor a user.
LEMMA ServerSaved ==
    ASSUME SettingsInv, NEW account \in Accounts, NEW password \in Accounts, password = account,
           Stored(account, password)
    PROVE  server' \in Server \cup {Null} /\ saves' \in Nat /\ PasswordIsTheAccounts'
<1>1. saves \in Nat
  BY DEF SettingsInv, SettingsTyped
<1> DEFINE row == [account |-> account, updatedAt |-> saves + 1,
                   password |-> IF SignsIn(account) THEN password ELSE Null]
<1>2. row \in Server /\ row.password \in {Null, row.account}
  BY <1>1 DEF Server
<1>3. server' = row /\ saves' = saves + 1
  BY DEF Stored
<1> HIDE DEF row
<1> QED
  BY <1>1, <1>2, <1>3 DEF PasswordIsTheAccounts

LEMMA LinksUnchanged ==
    ASSUME SettingsTyped, UNCHANGED <<rules, destinations, users>>
    PROVE  /\ rules' \in [RuleIds -> Rule \cup {Null, Gone}]
           /\ destinations' \in [DestinationIds -> Destination \cup {Null, Gone}]
           /\ users' \subseteq Users
           /\ Linked' /\ RecipientsExist'
  BY SettingsParts DEF Linked, RecipientsExist, RuleExists, AllExist, DestinationExists

LEMMA SettingsStep == SettingsInv /\ Administer => SettingsInv'
<1> SUFFICES ASSUME SettingsInv, Administer PROVE SettingsInv'
  OBVIOUS
<1> DEFINE Links == /\ rules' \in [RuleIds -> Rule \cup {Null, Gone}]
                    /\ destinations' \in [DestinationIds -> Destination \cup {Null, Gone}]
                    /\ users' \subseteq Users
                    /\ Linked' /\ RecipientsExist'
           Mail == server' \in Server \cup {Null} /\ saves' \in Nat /\ PasswordIsTheAccounts'
           Asking == /\ requests' \in [Requests -> Request] /\ RequestsChecked'
                     /\ asked' \in 0..MaxRequests
<1>a. Links /\ Mail /\ Asking => SettingsInv'
  BY DEF SettingsInv, SettingsTyped, Linked, RecipientsExist
<1>0. /\ SettingsTyped /\ PasswordIsTheAccounts /\ RequestsChecked
      /\ requests \in [Requests -> Request]
      /\ asked \in 0..MaxRequests /\ MaxRequests \in Nat
  BY SettingsAssumption DEF SettingsInv, SettingsTyped
<1>b. UNCHANGED <<rules, destinations, users>> => Links
  BY <1>0, LinksUnchanged
<1>c. UNCHANGED <<server, saves>> => Mail
  BY <1>0, SettingsParts DEF PasswordIsTheAccounts
<1>d. ASSUME NEW q \in Requests, End(q) PROVE Asking
  BY <1>0, <1>d, RequestChanged, IdleRequest DEF End
<1>e. ASSUME Counted, UNCHANGED requests PROVE Asking
  BY <1>0, <1>e DEF Counted, RequestsChecked
<1> HIDE DEF Links, Mail, Asking
<1>1. ASSUME NEW q \in Requests, Ask(q) PROVE SettingsInv'
  <2>1. PICK request \in Request : Begin(q, request) /\ Checked(request)
    BY <1>1, Asked
  <2>2. requests' \in [Requests -> Request] /\ RequestsChecked'
    BY <2>1, RequestChanged DEF Begin
  <2>3. Asking
    BY <1>0, <2>1, <2>2 DEF Begin, Counted, Asking
  <2> QED
    BY <1>a, <1>b, <1>c, <2>1, <2>3 DEF Begin, settings
<1>2. ASSUME NEW q \in Requests, NEW r \in RuleIds, CreateRule(q, r) PROVE SettingsInv'
  <2>1. requests[q].rule \in Rule
    BY <1>0, <1>2, RequestShapes, SettingsAssumption DEF CreateRule
  <2>2. CASE AllExist(requests[q].rule.to)
    <3>1. rules' = [rules EXCEPT ![r] = requests[q].rule] /\ UNCHANGED destinations
      BY <1>2, <2>2 DEF CreateRule
    <3>2. rules' \in [RuleIds -> Rule \cup {Null, Gone}] /\ Linked'
      BY <1>0, <2>1, <2>2, <3>1, RuleSaved
    <3>3. RecipientsExist' /\ UNCHANGED <<destinations, users>>
      BY <1>0, <1>2, SettingsParts DEF CreateRule, RecipientsExist, DestinationExists
    <3>4. Links
      BY <1>0, <3>2, <3>3, SettingsParts DEF Links
    <3> QED
      BY <1>2, <1>a, <1>c, <1>d, <3>4 DEF CreateRule
  <2>3. CASE ~AllExist(requests[q].rule.to)
    BY <1>2, <1>a, <1>b, <1>c, <1>d, <2>3 DEF CreateRule
  <2> QED
    BY <2>2, <2>3
<1>3. ASSUME NEW q \in Requests, UpdateRule(q) PROVE SettingsInv'
  <2> DEFINE r == requests[q].rule
             patch == requests[q].patch
             saved == RuleExists(r) /\ ("to" \in DOMAIN patch => AllExist(patch.to))
  <2>1. r \in RuleIds /\ patch \in RulePatches
    BY <1>0, <1>3, RequestShapes DEF UpdateRule
  <2>2. CASE saved
    <3>1. rules[r] \in Rule /\ AllExist(rules[r].to)
      BY <1>0, <2>1, <2>2, Existing DEF SettingsTyped
    <3>2. Patched(rules[r], patch) \in Rule /\ AllExist(Patched(rules[r], patch).to)
      BY <2>1, <2>2, <3>1, PatchedRule
    <3>3. rules' = [rules EXCEPT ![r] = Patched(rules[r], patch)] /\ UNCHANGED destinations
      BY <1>3, <2>2 DEF UpdateRule
    <3>4. rules' \in [RuleIds -> Rule \cup {Null, Gone}] /\ Linked'
      BY <1>0, <2>1, <3>2, <3>3, RuleSaved
    <3>5. RecipientsExist' /\ UNCHANGED <<destinations, users>>
      BY <1>0, <1>3, SettingsParts DEF UpdateRule, RecipientsExist, DestinationExists
    <3>6. Links
      BY <1>0, <3>4, <3>5, SettingsParts DEF Links
    <3> QED
      BY <1>3, <1>a, <1>c, <1>d, <3>6 DEF UpdateRule
  <2>3. CASE ~saved
    BY <1>3, <1>a, <1>b, <1>c, <1>d, <2>3 DEF UpdateRule
  <2> QED
    BY <2>2, <2>3
<1>4. ASSUME NEW r \in RuleIds, DeleteRule(r) PROVE SettingsInv'
  <2>1. rules' \in [RuleIds -> Rule \cup {Null, Gone}]
    BY <1>0, <1>4, SettingsParts DEF DeleteRule
  <2>2. UNCHANGED <<destinations, users>>
    BY <1>4 DEF DeleteRule
  <2>3. Linked'
    BY <1>0, <1>4, SettingsParts DEF DeleteRule, Linked, RuleExists, AllExist, DestinationExists
  <2>4. RecipientsExist'
    BY <1>0, <2>2, SettingsParts DEF RecipientsExist, DestinationExists
  <2>5. Links
    BY <1>0, <2>1, <2>2, <2>3, <2>4, SettingsParts DEF Links
  <2> QED
    BY <1>4, <1>a, <1>c, <1>e, <2>5 DEF DeleteRule
<1>5. ASSUME NEW q \in Requests, NEW d \in DestinationIds, CreateDestination(q, d) PROVE SettingsInv'
  <2> DEFINE dest == requests[q].destination
  <2>1. dest \in Destination
    BY <1>0, <1>5, RequestShapes, SettingsAssumption DEF CreateDestination
  <2>2. CASE dest.users \subseteq users
    <3>1. destinations' = [destinations EXCEPT ![d] = dest] /\ UNCHANGED <<rules, users>>
      BY <1>5, <2>2 DEF CreateDestination
    <3>2. Links
      BY <1>0, <2>1, <2>2, <3>1, DestinationSaved, SettingsParts DEF Links
    <3> QED
      BY <1>5, <1>a, <1>c, <1>d, <3>2 DEF CreateDestination
  <2>3. CASE ~(dest.users \subseteq users)
    BY <1>5, <1>a, <1>b, <1>c, <1>d, <2>3 DEF CreateDestination
  <2> QED
    BY <2>2, <2>3
<1>6. ASSUME NEW q \in Requests, UpdateDestination(q) PROVE SettingsInv'
  <2> DEFINE d == requests[q].destination
             patch == requests[q].patch
             saved == DestinationExists(d) /\ ("users" \in DOMAIN patch => patch.users \subseteq users)
  <2>1. d \in DestinationIds /\ patch \in DestinationPatches
    BY <1>0, <1>6, RequestShapes DEF UpdateDestination
  <2>2. CASE saved
    <3>1. destinations[d] \in Destination /\ destinations[d].users \subseteq users
      BY <1>0, <2>1, <2>2, Existing DEF SettingsTyped
    <3>2. Patched(destinations[d], patch) \in Destination /\ Patched(destinations[d], patch).users \subseteq users
      BY <2>1, <2>2, <3>1, PatchedDestination
    <3>3. destinations' = [destinations EXCEPT ![d] = Patched(destinations[d], patch)] /\ UNCHANGED <<rules, users>>
      BY <1>6, <2>2 DEF UpdateDestination
    <3>4. Links
      BY <1>0, <2>1, <3>2, <3>3, DestinationSaved, SettingsParts DEF Links
    <3> QED
      BY <1>6, <1>a, <1>c, <1>d, <3>4 DEF UpdateDestination
  <2>3. CASE ~saved
    BY <1>6, <1>a, <1>b, <1>c, <1>d, <2>3 DEF UpdateDestination
  <2> QED
    BY <2>2, <2>3
<1>7. ASSUME NEW q \in Requests, DeleteDestination(q) PROVE SettingsInv'
  <2> DEFINE d == requests[q].destination
  <2>1. d \in DestinationIds
    BY <1>0, <1>7, RequestShapes DEF DeleteDestination
  <2>2. /\ destinations' = [destinations EXCEPT ![d] = Gone]
        /\ rules' = [r \in RuleIds |-> IF r \in RulesTo(d) THEN [rules[r] EXCEPT !.to = @ \ {d}]
                                       ELSE rules[r]]
        /\ UNCHANGED users
    BY <1>7 DEF DeleteDestination
  <2>3. ASSUME NEW r \in RuleIds, r \in RulesTo(d)
        PROVE  /\ [rules[r] EXCEPT !.to = @ \ {d}] \in Rule
               /\ [rules[r] EXCEPT !.to = @ \ {d}].to = rules[r].to \ {d}
    <3>1. rules[r] \in Rule
      BY <1>0, <2>3, Existing DEF RulesTo
    <3> QED
      BY <3>1 DEF Rule
  <2>4. rules' \in [RuleIds -> Rule \cup {Null, Gone}]
    BY <1>0, <2>2, <2>3, SettingsParts
  <2>5. destinations' \in [DestinationIds -> Destination \cup {Null, Gone}]
    BY <1>0, <2>2, SettingsParts
  <2>6. Linked'
    <3> SUFFICES ASSUME NEW r \in RuleIds, RuleExists(r)', NEW x \in rules'[r].to
                 PROVE  DestinationExists(x)'
      BY DEF Linked, AllExist
    <3>1. RuleExists(r) /\ x \in rules[r].to /\ x # d
      BY <2>2, <2>3, SettingsAssumption DEF RulesTo, RuleExists
    <3>2. x \in DestinationIds /\ DestinationExists(x)
      BY <1>0, <3>1, Existing, SettingsParts DEF Linked, AllExist, Rule
    <3> QED
      BY <1>0, <2>2, <3>1, <3>2, SettingsParts DEF DestinationExists
  <2>7. RecipientsExist'
    BY <1>0, <2>2, SettingsParts DEF RecipientsExist, DestinationExists
  <2>8. Links
    BY <1>0, <2>2, <2>4, <2>5, <2>6, <2>7, SettingsParts DEF Links
  <2> QED
    BY <1>7, <1>a, <1>c, <1>d, <2>8 DEF DeleteDestination
<1>8. ASSUME NEW u \in Users, RemoveUser(u) PROVE SettingsInv'
  <2>1. /\ users' = users \ {u} /\ UNCHANGED rules
        /\ destinations' = [d \in DestinationIds |->
              IF DestinationExists(d) THEN [destinations[d] EXCEPT !.users = @ \ {u}] ELSE destinations[d]]
    BY <1>8 DEF RemoveUser
  <2>2. ASSUME NEW d \in DestinationIds, DestinationExists(d)
        PROVE  /\ [destinations[d] EXCEPT !.users = @ \ {u}] \in Destination
               /\ [destinations[d] EXCEPT !.users = @ \ {u}].users = destinations[d].users \ {u}
    <3>1. destinations[d] \in Destination
      BY <1>0, <2>2, Existing
    <3> QED
      BY <3>1 DEF Destination
  <2>3. destinations' \in [DestinationIds -> Destination \cup {Null, Gone}]
    BY <1>0, <2>1, <2>2, SettingsParts
  <2>4. ASSUME NEW d \in DestinationIds PROVE DestinationExists(d)' <=> DestinationExists(d)
    BY <2>1, <2>2, SettingsAssumption DEF DestinationExists
  <2>5. Linked'
    <3> SUFFICES ASSUME NEW r \in RuleIds, RuleExists(r), NEW x \in rules[r].to
                 PROVE  DestinationExists(x)'
      BY <2>1 DEF Linked, AllExist, RuleExists
    <3>1. x \in DestinationIds /\ DestinationExists(x)
      BY <1>0, Existing, SettingsParts DEF Linked, AllExist, Rule
    <3> QED
      BY <2>4, <3>1
  <2>6. RecipientsExist'
    <3> SUFFICES ASSUME NEW d \in DestinationIds, DestinationExists(d)
                 PROVE  destinations'[d].users \subseteq users'
      BY <2>4 DEF RecipientsExist
    <3>1. destinations'[d].users = destinations[d].users \ {u}
      BY <2>1, <2>2
    <3> QED
      BY <1>0, <2>1, <3>1, SettingsParts DEF RecipientsExist
  <2>7. Links
    BY <1>0, <2>1, <2>3, <2>5, <2>6, SettingsParts DEF Links
  <2> QED
    BY <1>8, <1>a, <1>c, <1>e, <2>7 DEF RemoveUser
<1>9. ASSUME NEW account \in Accounts, SaveEmailServer(account) PROVE SettingsInv'
  <2>1. Mail
    BY <1>9, ServerSaved DEF SaveEmailServer, Mail
  <2> QED
    BY <1>9, <1>a, <1>b, <1>e, <2>1 DEF SaveEmailServer
<1>10. ASSUME NEW q \in Requests, KeepPassword(q) PROVE SettingsInv'
  <2>1. requests[q].account \in Accounts /\ requests[q].password = requests[q].account
    BY <1>0, <1>10, RequestShapes DEF KeepPassword, RequestsChecked, Checked
  <2>2. Mail
    BY <1>10, <2>1, ServerSaved DEF KeepPassword, Mail
  <2> QED
    BY <1>10, <1>a, <1>b, <1>d, <2>2 DEF KeepPassword
<1>11. ASSUME DeleteEmailServer PROVE SettingsInv'
  <2>1. Mail
    BY <1>0, <1>11, SettingsParts DEF DeleteEmailServer, Mail, PasswordIsTheAccounts
  <2> QED
    BY <1>11, <1>a, <1>b, <1>e, <2>1 DEF DeleteEmailServer
<1> QED
  BY <1>1, <1>2, <1>3, <1>4, <1>5, <1>6, <1>7, <1>8, <1>9, <1>10, <1>11 DEF Administer, Finish

-----------------------------------------------------------------------------
(* Announcements. *)

\* The kept client was built for a save that was not overtaken unnoticed.
ClientInv ==
    /\ server # Null => server.updatedAt <= saves
    /\ transport # Null =>
          /\ transport.updatedAt <= saves
          /\ server # Null /\ server.updatedAt = transport.updatedAt =>
                transport.account = server.account /\ transport.password = server.password

\* The change an announcement was called for, and the message it has, are not
\* ahead of the alert.
NotAhead(f, current) ==
    /\ f.stage \in {"called", "read", "found"} =>
          /\ f.version <= current.version
          /\ f.event = "resolved" => current.status = "resolved"
    /\ f.stage \in {"read", "found"} =>
          /\ f.message.version >= f.version
          /\ f.event = "resolved" => f.message.status = "resolved"

MailLoaded(f) ==
    f.stage = "sending" /\ f.via # Null =>
        f.via.account = f.loaded.account /\ f.via.password \in {Null, f.loaded.account}

\* What a destination got, by how far its attempts are.
AttemptsCounted(f) ==
    f.stage = "sending" => \A d \in DOMAIN f.send :
        /\ f.send[d] = "first" => f.got[d] = 0
        /\ f.send[d] \in {"pause", "second"} => f.got[d] = 0 \/ (f.got[d] = 1 /\ f.lost[d])
        /\ f.got[d] <= 2 /\ (f.got[d] = 2 => f.lost[d])

Sound(f, current) ==
    DeliveryTyped(f) /\ NotAhead(f, current) /\ MailLoaded(f) /\ AttemptsCounted(f)

DeliveriesInv ==
    /\ alert \in AlertState
    /\ alert.status = "none" => alert.version = 0
    /\ announced \in 0..MaxEvents
    /\ transport \in Client \cup {Null}
    /\ DOMAIN deliveries = Events
    /\ \A e \in Events : Sound(deliveries[e], alert)

IInv == SettingsInv /\ ClientInv /\ DeliveriesInv

\* The shapes of an announcement by its stage.
CalledDelivery == [stage : {"called"}, event : EventNames, version : Nat]
ReadDelivery == [stage : {"read"}, event : EventNames, version : Nat, message : AlertState]
FoundDelivery(to) ==
    [stage : {"found"}, event : EventNames, version : Nat, message : AlertState, to : [to -> Destination]]
SendingDelivery(to) ==
    [stage : {"sending"}, loaded : Server \cup {Null}, via : Client \cup {Null},
     lost : [to -> BOOLEAN], got : [to -> Nat], send : [to -> SendStates]]

LEMMA DeliveryShapes ==
    ASSUME NEW f, DeliveryTyped(f)
    PROVE  /\ f.stage = "called" => f \in CalledDelivery
           /\ f.stage = "read" => f \in ReadDelivery
           /\ f.stage = "found" => \E to \in (SUBSET DestinationIds) \ {{}} : f \in FoundDelivery(to)
           /\ f.stage = "sending" => \E to \in (SUBSET DestinationIds) \ {{}} : f \in SendingDelivery(to)
  BY DEF DeliveryTyped, NotBegun, Done, CalledDelivery, ReadDelivery, FoundDelivery, SendingDelivery

LEMMA EndedIsSound ==
    ASSUME NEW current
    PROVE  Sound(NotBegun, current) /\ Sound(Done, current)
  BY DEF Sound, DeliveryTyped, NotAhead, MailLoaded, AttemptsCounted, NotBegun, Done

\* One announcement goes on.
LEMMA DeliveryReplaced ==
    ASSUME DeliveriesInv, NEW e \in Events, NEW f, Sound(f, alert),
           deliveries' = [deliveries EXCEPT ![e] = f],
           UNCHANGED <<alert, announced>>, transport' \in Client \cup {Null}
    PROVE  DeliveriesInv'
<1>1. DOMAIN deliveries' = Events
  BY DEF DeliveriesInv
<1>2. \A x \in Events : Sound(deliveries'[x], alert)
  BY DEF DeliveriesInv
<1> QED
  BY <1>1, <1>2 DEF DeliveriesInv

\* A change of the alert leaves what announcements know behind.
LEMMA AlertMovesOn ==
    ASSUME NEW before \in AlertState, NEW after \in AlertState, after.version >= before.version,
           before.status = "resolved" => after.status = "resolved",
           NEW f, Sound(f, before)
    PROVE  Sound(f, after)
<1>1. NotAhead(f, after)
  <2>1. f.stage \in {"called", "read", "found"} => f.version \in Nat
    BY DeliveryShapes DEF Sound, CalledDelivery, ReadDelivery, FoundDelivery
  <2> QED
    BY <2>1 DEF Sound, NotAhead, AlertState
<1> QED
  BY <1>1 DEF Sound

\* A change makes an alert of the next version.
LEMMA NextVersion ==
    ASSUME NEW before \in AlertState, NEW version \in Nat
    PROVE  /\ \A severity \in {"warning", "critical"} :
                 /\ [before EXCEPT !.severity = severity, !.version = version] \in AlertState
                 /\ [before EXCEPT !.severity = severity, !.version = version].status = before.status
                 /\ [before EXCEPT !.severity = severity, !.version = version].version = version
           /\ [before EXCEPT !.status = "resolved", !.version = version] \in AlertState
           /\ [before EXCEPT !.status = "resolved", !.version = version].status = "resolved"
           /\ [before EXCEPT !.status = "resolved", !.version = version].version = version
  BY DEF AlertState

LEMMA AlertStep ==
    ASSUME DeliveriesInv, NEW changed \in AlertState, changed.status # "none",
           changed.version >= alert.version, alert.status # "resolved",
           alert' = changed, UNCHANGED transport,
           \/ UNCHANGED <<announced, deliveries>>
           \/ \E event \in EventNames : /\ Announce(event, changed)
                                        /\ event = "resolved" => changed.status = "resolved"
    PROVE  DeliveriesInv'
<1>1. ASSUME NEW f, Sound(f, alert) PROVE Sound(f, changed)
  BY <1>1, AlertMovesOn DEF DeliveriesInv
<1>2. CASE UNCHANGED <<announced, deliveries>>
  BY <1>1, <1>2 DEF DeliveriesInv
<1>3. ASSUME NEW event \in EventNames, Announce(event, changed),
             event = "resolved" => changed.status = "resolved"
      PROVE  DeliveriesInv'
  <2> DEFINE new == [stage |-> "called", event |-> event, version |-> changed.version]
  <2>1. Sound(new, changed)
    BY <1>3 DEF Sound, DeliveryTyped, NotAhead, MailLoaded, AttemptsCounted, AlertState
  <2>2. /\ announced' = announced + 1 /\ announced' \in 1..MaxEvents
        /\ deliveries' = [deliveries EXCEPT ![announced'] = new]
    BY <1>3, DeliveryAssumption DEF Announce, DeliveriesInv
  <2> HIDE DEF new
  <2>3. DOMAIN deliveries' = Events
    BY <2>2 DEF DeliveriesInv
  <2>4. \A x \in Events : Sound(deliveries'[x], changed)
    BY <1>1, <2>1, <2>2 DEF DeliveriesInv, Events
  <2> QED
    BY <2>2, <2>3, <2>4 DEF DeliveriesInv
<1>4. CASE \E event \in EventNames : /\ Announce(event, changed)
                                     /\ event = "resolved" => changed.status = "resolved"
  BY <1>3, <1>4
<1> QED
  BY <1>2, <1>4

\* What a step of an announcement makes of it.
LEMMA ReadStep ==
    ASSUME DeliveriesInv, NEW e \in Events, ReadAlert(e)
    PROVE  DeliveriesInv'
<1> DEFINE f == [stage |-> "read", event |-> deliveries[e].event, version |-> deliveries[e].version,
                 message |-> alert]
<1>1. deliveries[e] \in CalledDelivery /\ NotAhead(deliveries[e], alert) /\ deliveries[e].stage = "called"
  BY DeliveryShapes DEF ReadAlert, DeliveriesInv, Sound
<1>2. DeliveryTyped(f)
  BY <1>1 DEF CalledDelivery, DeliveryTyped, DeliveriesInv
<1>3. NotAhead(f, alert)
  BY <1>1 DEF NotAhead, CalledDelivery, DeliveriesInv, AlertState
<1>4. Sound(f, alert)
  BY <1>2, <1>3 DEF Sound, MailLoaded, AttemptsCounted
<1>5. deliveries' = [deliveries EXCEPT ![e] = f]
  BY DEF ReadAlert, DeliveriesInv
<1> HIDE DEF f
<1> QED
  BY <1>4, <1>5, DeliveryReplaced DEF ReadAlert, DeliveriesInv

LEMMA FindStep ==
    ASSUME SettingsTyped, DeliveriesInv, NEW e \in Events, FindDestinations(e)
    PROVE  DeliveriesInv'
<1> DEFINE f == [stage |-> "found", event |-> deliveries[e].event, version |-> deliveries[e].version,
                 message |-> deliveries[e].message, to |-> [d \in Picked |-> destinations[d]]]
<1>1. deliveries[e] \in ReadDelivery /\ NotAhead(deliveries[e], alert) /\ deliveries[e].stage = "read"
  BY DeliveryShapes DEF FindDestinations, DeliveriesInv, Sound
<1>2. Picked \subseteq DestinationIds
  BY DEF Picked
<1>3. \A d \in Picked : destinations[d] \in Destination
  <2> SUFFICES ASSUME NEW d \in Picked PROVE destinations[d] \in Destination
    OBVIOUS
  <2>1. \E r \in RuleIds : RuleExists(r) /\ d \in rules[r].to
    BY DEF Picked, RulesTo
  <2>2. DestinationExists(d)
    BY <2>1 DEF SettingsTyped, AllExist
  <2> QED
    BY <1>2, <2>2, Existing
<1>4. CASE Picked # {}
  <2>1. f \in FoundDelivery(Picked)
    BY <1>1, <1>3 DEF ReadDelivery, FoundDelivery
  <2>2. DeliveryTyped(f)
    <3> HIDE DEF f
    <3>1. Picked \in (SUBSET DestinationIds) \ {{}}
      BY <1>2, <1>4
    <3> QED
      BY <2>1, <3>1 DEF DeliveryTyped, FoundDelivery
  <2>3. NotAhead(f, alert)
    BY <1>1 DEF NotAhead
  <2>4. Sound(f, alert)
    BY <2>2, <2>3 DEF Sound, MailLoaded, AttemptsCounted
  <2>5. deliveries' = [deliveries EXCEPT ![e] = f]
    BY <1>4 DEF FindDestinations, DeliveriesInv
  <2> HIDE DEF f
  <2> QED
    BY <2>4, <2>5, DeliveryReplaced DEF FindDestinations, DeliveriesInv
<1>5. CASE Picked = {}
  <2>1. deliveries' = [deliveries EXCEPT ![e] = Done]
    BY <1>5 DEF FindDestinations, DeliveriesInv
  <2> QED
    BY <2>1, EndedIsSound, DeliveryReplaced DEF FindDestinations, DeliveriesInv
<1> QED
  BY <1>4, <1>5

\* The client that sends is one for the server that was loaded, also when it
\* was kept from an earlier announcement.
LEMMA ClientIsForServer ==
    ASSUME SettingsTyped, PasswordIsTheAccounts, ClientInv, transport \in Client \cup {Null},
           server # Null
    PROVE  /\ TransporterFor(server) \in Client
           /\ TransporterFor(server).updatedAt = server.updatedAt
           /\ TransporterFor(server).account = server.account
           /\ TransporterFor(server).password = server.password
           /\ server.password \in {Null, server.account}
<1>1. server \in Server
  BY DEF SettingsTyped
<1>2. CASE transport # Null /\ transport.updatedAt = server.updatedAt
  BY <1>1, <1>2 DEF TransporterFor, ClientInv, PasswordIsTheAccounts
<1>3. CASE ~(transport # Null /\ transport.updatedAt = server.updatedAt)
  BY <1>1, <1>3 DEF TransporterFor, PasswordIsTheAccounts, Server, Client
<1> QED
  BY <1>2, <1>3

LEMMA LoadStep ==
    ASSUME SettingsTyped, PasswordIsTheAccounts, ClientInv, DeliveriesInv,
           NEW e \in Events, LoadServerAndSend(e)
    PROVE  DeliveriesInv' /\ ClientInv'
<1>1. PICK D \in (SUBSET DestinationIds) \ {{}} : deliveries[e] \in FoundDelivery(D)
  BY DeliveryShapes DEF LoadServerAndSend, DeliveriesInv, Sound
<1> DEFINE to == deliveries[e].to
           mailTo == {d \in DOMAIN to : to[d].kind = "email"}
           loaded == IF mailTo = {} THEN Null ELSE server
           mails == \E d \in mailTo : ~Refused(to[d], loaded)
           send == [d \in D |-> IF Refused(to[d], loaded) THEN "failed" ELSE "first"]
           f == [stage |-> "sending", loaded |-> loaded, via |-> IF mails THEN transport' ELSE Null,
                 lost |-> [d \in D |-> FALSE], got |-> [d \in D |-> 0], send |-> send]
<1>2. DOMAIN to = D
  BY <1>1 DEF FoundDelivery
<1>3. /\ transport' = IF mails THEN TransporterFor(loaded) ELSE transport
      /\ deliveries' = [deliveries EXCEPT ![e] = f]
      /\ UNCHANGED <<settingsVars, alert, announced>>
  BY <1>2 DEF LoadServerAndSend
<1>4. /\ transport \in Client \cup {Null}
      /\ server \in Server \cup {Null}
      /\ loaded \in Server \cup {Null}
  BY DEF DeliveriesInv, SettingsTyped
<1>5. mails => loaded = server /\ server # Null
  BY DEF Refused, RefusedMail
<1>6. /\ mails => /\ transport' \in Client
                  /\ transport'.updatedAt = server.updatedAt
                  /\ transport'.account = server.account
                  /\ transport'.password = server.password
                  /\ server.password \in {Null, server.account}
      /\ ~mails => transport' = transport
  BY <1>3, <1>4, <1>5, ClientIsForServer
<1>7. send \in [D -> SendStates]
  BY DEF SendStates
<1> HIDE DEF mails, send, loaded
<1>8. f \in SendingDelivery(D)
  BY <1>4, <1>6, <1>7 DEF SendingDelivery
<1>9. DeliveryTyped(f)
  BY <1>1, <1>8 DEF DeliveryTyped, SendingDelivery
<1>10. MailLoaded(f)
  BY <1>5, <1>6 DEF MailLoaded
<1>11. AttemptsCounted(f)
  BY <1>7 DEF AttemptsCounted, send
<1>12. Sound(f, alert)
  BY <1>9, <1>10, <1>11 DEF Sound, NotAhead
<1> HIDE DEF f
<1>13. DeliveriesInv'
  BY <1>3, <1>4, <1>6, <1>12, DeliveryReplaced
<1>14. UNCHANGED <<server, saves>>
  BY <1>3 DEF settingsVars
<1>15. ClientInv'
  BY <1>5, <1>6, <1>14 DEF ClientInv
<1> QED
  BY <1>13, <1>15

\* What a destination got and lost, and where its attempts are, changes.
Attempt(f, d, send, lost, got) ==
    [stage |-> "sending", loaded |-> f.loaded, via |-> f.via,
     lost |-> [f.lost EXCEPT ![d] = lost],
     got |-> [f.got EXCEPT ![d] = got],
     send |-> [f.send EXCEPT ![d] = send]]

LEMMA AttemptIsOfDelivery ==
    ASSUME NEW to, NEW f \in SendingDelivery(to), NEW send, NEW lost, NEW got, NEW g,
           g = [f EXCEPT !.send = send, !.lost = lost, !.got = got]
    PROVE  g = [stage |-> "sending", loaded |-> f.loaded, via |-> f.via,
                lost |-> lost, got |-> got, send |-> send]
  BY DEF SendingDelivery

LEMMA AttemptIsSound ==
    ASSUME NEW D \in (SUBSET DestinationIds) \ {{}}, NEW f \in SendingDelivery(D),
           MailLoaded(f), AttemptsCounted(f), NEW current,
           NEW d \in D, NEW send \in SendStates, NEW lost \in BOOLEAN, NEW got \in 0..2,
           send # "first",
           send \in {"pause", "second"} => got = 0 \/ (got = 1 /\ lost),
           got = 2 => lost
    PROVE  Sound(Attempt(f, d, send, lost, got), current)
<1> DEFINE g == Attempt(f, d, send, lost, got)
<1>1. g \in SendingDelivery(D)
  BY DEF SendingDelivery, Attempt
<1>2. DeliveryTyped(g)
  BY <1>1 DEF DeliveryTyped, SendingDelivery
<1>3. MailLoaded(g)
  BY DEF MailLoaded, Attempt, SendingDelivery
<1>4. AttemptsCounted(g)
  <2> SUFFICES ASSUME NEW x \in D
               PROVE  /\ g.send[x] = "first" => g.got[x] = 0
                      /\ g.send[x] \in {"pause", "second"} => g.got[x] = 0 \/ (g.got[x] = 1 /\ g.lost[x])
                      /\ g.got[x] <= 2 /\ (g.got[x] = 2 => g.lost[x])
    BY <1>1 DEF AttemptsCounted, SendingDelivery
  <2>1. CASE x = d
    BY <2>1 DEF Attempt, SendingDelivery
  <2>2. CASE x # d
    <3>1. g.send[x] = f.send[x] /\ g.got[x] = f.got[x] /\ g.lost[x] = f.lost[x]
      BY <2>2 DEF Attempt, SendingDelivery
    <3> QED
      BY <3>1 DEF AttemptsCounted, SendingDelivery
  <2> QED
    BY <2>1, <2>2
<1> QED
  BY <1>1, <1>2, <1>3, <1>4 DEF Sound, NotAhead, SendingDelivery

LEMMA SendingStep ==
    ASSUME DeliveriesInv, NEW e \in Events, NEW d \in DestinationIds, SendStep(e, d)
    PROVE  DeliveriesInv'
<1> DEFINE f == deliveries[e]
<1>1. /\ Sending(e, d) /\ UNCHANGED <<settingsVars, alert, announced, transport>>
      /\ DOMAIN deliveries = Events /\ transport \in Client \cup {Null}
  BY DEF SendStep, Answered, NotAnswered, Retry, Record, DeliveriesInv
<1>2. PICK D \in (SUBSET DestinationIds) \ {{}} : f \in SendingDelivery(D)
  BY <1>1, DeliveryShapes DEF Sending, DeliveriesInv, Sound
<1>3. MailLoaded(f) /\ AttemptsCounted(f) /\ f.stage = "sending"
  BY <1>1 DEF Sending, DeliveriesInv, Sound
<1>4. /\ DOMAIN f.send = D /\ d \in D
      /\ f.send[d] \in SendStates /\ f.lost[d] \in BOOLEAN /\ f.got[d] \in 0..2
      /\ f.send[d] = "first" => f.got[d] = 0
      /\ f.send[d] \in {"pause", "second"} => f.got[d] = 0 \/ (f.got[d] = 1 /\ f.lost[d])
      /\ f.got[d] = 2 => f.lost[d]
  BY <1>1, <1>2, <1>3 DEF Sending, SendingDelivery, AttemptsCounted
<1>a. /\ [f.lost EXCEPT ![d] = f.lost[d]] = f.lost
      /\ [f.got EXCEPT ![d] = f.got[d]] = f.got
      /\ f = [stage |-> "sending", loaded |-> f.loaded, via |-> f.via,
              lost |-> f.lost, got |-> f.got, send |-> f.send]
  BY <1>2 DEF SendingDelivery
<1>5. ASSUME NEW send \in SendStates, NEW lost \in BOOLEAN, NEW got \in 0..2,
             send # "first",
             send \in {"pause", "second"} => got = 0 \/ (got = 1 /\ lost),
             got = 2 => lost,
             deliveries' = [deliveries EXCEPT ![e] = Attempt(f, d, send, lost, got)]
      PROVE  DeliveriesInv'
  BY <1>1, <1>2, <1>3, <1>4, <1>5, AttemptIsSound, DeliveryReplaced
<1>6. CASE Answered(e, d)
  <2>1. f.send[d] \in {"first", "second"}
    BY <1>6 DEF Answered
  <2>2. CASE deliveries' = [deliveries EXCEPT ![e].send[d] = "sent", ![e].got[d] = @ + 1]
    <3>1. deliveries' = [deliveries EXCEPT ![e] = Attempt(f, d, "sent", f.lost[d], f.got[d] + 1)]
      BY <1>1, <1>2, <1>4, <2>2 DEF Attempt, SendingDelivery
    <3>2. f.got[d] + 1 \in 0..2 /\ (f.got[d] + 1 = 2 => f.lost[d])
      BY <1>4, <2>1
    <3> QED
      BY <1>4, <1>5, <3>1, <3>2 DEF SendStates
  <2>3. CASE deliveries' = [deliveries EXCEPT ![e].send[d] = "failed"]
    <3>1. [f EXCEPT !.send[d] = "failed"] = Attempt(f, d, "failed", f.lost[d], f.got[d])
      BY <1>2, <1>4, <1>a DEF Attempt, SendingDelivery
    <3>2. deliveries' = [deliveries EXCEPT ![e] = Attempt(f, d, "failed", f.lost[d], f.got[d])]
      BY <1>1, <2>3, <3>1
    <3> QED
      BY <1>4, <1>5, <3>2 DEF SendStates
  <2> QED
    BY <1>6, <2>2, <2>3 DEF Answered
<1>7. CASE NotAnswered(e, d)
  <2>1. f.send[d] \in {"first", "second"}
    BY <1>7 DEF NotAnswered
  <2>2. PICK through \in BOOLEAN :
            deliveries' = [deliveries EXCEPT
                ![e].send[d] = IF @ = "first" THEN "pause" ELSE "failed",
                ![e].lost[d] = @ \/ through,
                ![e].got[d] = IF through THEN @ + 1 ELSE @]
    BY <1>7 DEF NotAnswered
  <2> DEFINE send == IF f.send[d] = "first" THEN "pause" ELSE "failed"
             lost == f.lost[d] \/ through
             got == IF through THEN f.got[d] + 1 ELSE f.got[d]
             g == [f EXCEPT !.send[d] = send, !.lost[d] = lost, !.got[d] = got]
             sends == [f.send EXCEPT ![d] = send]
             losses == [f.lost EXCEPT ![d] = lost]
             gots == [f.got EXCEPT ![d] = got]
             h == [f EXCEPT !.send = sends, !.lost = losses, !.got = gots]
  <2>3. h = Attempt(f, d, send, lost, got)
    <3>1. Attempt(f, d, send, lost, got) = [stage |-> "sending", loaded |-> f.loaded, via |-> f.via,
                                            lost |-> losses, got |-> gots, send |-> sends]
      BY DEF Attempt
    <3> HIDE DEF sends, losses, gots
    <3>2. \A k : k = h => k = [stage |-> "sending", loaded |-> f.loaded, via |-> f.via,
                               lost |-> losses, got |-> gots, send |-> sends]
      BY <1>2, AttemptIsOfDelivery
    <3> QED
      BY <3>1, <3>2, Zenon
  <2>4. g = h
    BY <1>2 DEF SendingDelivery
  <2>5. deliveries' = [deliveries EXCEPT ![e] = g]
    BY <1>1, <1>2, <1>4, <2>2
  <2>6. deliveries' = [deliveries EXCEPT ![e] = Attempt(f, d, send, lost, got)]
    BY <2>3, <2>4, <2>5
  <2>7. /\ send \in SendStates /\ lost \in BOOLEAN /\ got \in 0..2 /\ send # "first"
        /\ send \in {"pause", "second"} => got = 0 \/ (got = 1 /\ lost)
        /\ got = 2 => lost
    BY <1>4, <2>1 DEF SendStates
  <2> HIDE DEF send, lost, got
  <2> QED
    BY <1>5, <2>6, <2>7
<1>8. CASE Retry(e, d)
  <2>1. [f EXCEPT !.send[d] = "second"] = Attempt(f, d, "second", f.lost[d], f.got[d])
    BY <1>2, <1>4, <1>a DEF Attempt, SendingDelivery
  <2>2. deliveries' = [deliveries EXCEPT ![e] = Attempt(f, d, "second", f.lost[d], f.got[d])]
    BY <1>1, <1>8, <2>1 DEF Retry
  <2>3. f.got[d] = 0 \/ (f.got[d] = 1 /\ f.lost[d])
    BY <1>4, <1>8 DEF Retry
  <2> QED
    BY <1>4, <1>5, <2>2, <2>3 DEF SendStates
<1>9. CASE Record(e, d)
  <2> DEFINE g == [f EXCEPT !.send[d] = "recorded"]
  <2>1. \/ deliveries' = [deliveries EXCEPT ![e] = Done]
        \/ deliveries' = [deliveries EXCEPT ![e] = g]
    BY <1>9 DEF Record
  <2>2. CASE deliveries' = [deliveries EXCEPT ![e] = Done]
    BY <1>1, <2>2, EndedIsSound, DeliveryReplaced
  <2>3. CASE deliveries' = [deliveries EXCEPT ![e] = g]
    <3>1. g = Attempt(f, d, "recorded", f.lost[d], f.got[d])
      BY <1>2, <1>4, <1>a DEF Attempt, SendingDelivery
    <3>2. deliveries' = [deliveries EXCEPT ![e] = Attempt(f, d, "recorded", f.lost[d], f.got[d])]
      BY <2>3, <3>1
    <3> QED
      BY <1>4, <1>5, <3>2 DEF SendStates
  <2> QED
    BY <2>1, <2>2, <2>3
<1> QED
  BY <1>6, <1>7, <1>8, <1>9 DEF SendStep

-----------------------------------------------------------------------------
(* The whole step. *)

LEMMA IInvInit == DInit => IInv
<1> SUFFICES ASSUME DInit PROVE IInv
  OBVIOUS
<1>1. SettingsInv
  BY SettingsInit
<1>2. ClientInv
  BY SettingsAssumption DEF DInit, Init, ClientInv
<1>3. DeliveriesInv
  BY EndedIsSound, DeliveryAssumption DEF DInit, DeliveriesInv, NoAlert, AlertState
<1> QED
  BY <1>1, <1>2, <1>3 DEF IInv

\* A save of the server makes the kept client an old one.
LEMMA ClientOutdated ==
    ASSUME SettingsInv, ClientInv, DeliveriesInv, Administer, UNCHANGED deliveryVars
    PROVE  ClientInv'
<1>1. saves \in Nat /\ UNCHANGED transport /\ transport \in Client \cup {Null}
  BY DEF SettingsInv, SettingsTyped, deliveryVars, DeliveriesInv
<1>2. CASE UNCHANGED <<server, saves>>
  BY <1>1, <1>2 DEF ClientInv
<1>3. ASSUME NEW account, NEW password, Stored(account, password) PROVE ClientInv'
  <2>1. saves' = saves + 1 /\ server'.updatedAt = saves + 1
    BY <1>3 DEF Stored
  <2> QED
    BY <1>1, <2>1 DEF ClientInv, Client
<1>4. CASE DeleteEmailServer
  BY <1>1, <1>4 DEF DeleteEmailServer, ClientInv, Client
<1>5. ASSUME NEW q \in Requests, Ask(q) PROVE UNCHANGED <<server, saves>>
  BY <1>5, Asked DEF Begin, settings
<1>6. \/ UNCHANGED <<server, saves>> \/ DeleteEmailServer
      \/ \E account, password : Stored(account, password)
  BY <1>5 DEF Administer, Finish, CreateRule, CreateDestination, UpdateRule, UpdateDestination,
              DeleteDestination, KeepPassword, DeleteRule, RemoveUser, SaveEmailServer
<1> QED
  BY <1>2, <1>3, <1>4, <1>6

LEMMA IInvStep == IInv /\ [DNext]_vars => IInv'
<1> SUFFICES ASSUME IInv, [DNext]_vars PROVE IInv'
  OBVIOUS
<1>0. /\ SettingsInv /\ ClientInv /\ DeliveriesInv
      /\ SettingsTyped /\ PasswordIsTheAccounts
      /\ alert \in AlertState
  BY DEF IInv, SettingsInv, DeliveriesInv
<1>v. alert.version + 1 \in Nat /\ alert.version + 1 >= alert.version
  BY <1>0 DEF AlertState
<1>a. UNCHANGED settingsVars => SettingsInv'
  BY <1>0 DEF settingsVars, SettingsInv, SettingsTyped, RuleExists, AllExist, DestinationExists,
              PasswordIsTheAccounts, RequestsChecked
<1>b. UNCHANGED <<server, saves, transport>> => ClientInv'
  BY <1>0 DEF ClientInv
<1>1. CASE Administer /\ UNCHANGED deliveryVars
  <2>1. SettingsInv' /\ ClientInv'
    BY <1>0, <1>1, SettingsStep, ClientOutdated
  <2>2. DeliveriesInv'
    BY <1>0, <1>1 DEF deliveryVars, DeliveriesInv
  <2> QED
    BY <2>1, <2>2 DEF IInv
<1>2. CASE \/ \E severity \in {"warning", "critical"} : Open(severity)
           \/ Escalate \/ Drop \/ Resolve
  <2>1. UNCHANGED <<settingsVars, transport>>
    BY <1>2 DEF Open, Escalate, Drop, Resolve, Announce
  <2>2. ASSUME NEW severity \in {"warning", "critical"}, Open(severity) PROVE DeliveriesInv'
    <3> DEFINE changed == [status |-> "open", severity |-> severity, version |-> 1]
    <3>1. changed \in AlertState /\ changed.version >= alert.version
      BY <1>0, <2>2 DEF AlertState, Open, DeliveriesInv
    <3>2. Announce("opened", changed) /\ alert' = changed
      BY <2>2 DEF Open, Announce
    <3> QED
      BY <1>0, <2>1, <2>2, <3>1, <3>2, AlertStep DEF Open, EventNames
  <2>3. ASSUME Escalate PROVE DeliveriesInv'
    <3> DEFINE changed == [alert EXCEPT !.severity = "critical", !.version = @ + 1]
    <3>1. changed \in AlertState /\ changed.version >= alert.version /\ changed.status = "open"
      BY <1>0, <1>v, <2>3, NextVersion DEF Escalate
    <3>2. Announce("escalated", changed) /\ alert' = changed
      BY <2>3 DEF Escalate, Announce
    <3> QED
      BY <1>0, <2>1, <2>3, <3>1, <3>2, AlertStep DEF Escalate, EventNames
  <2>4. ASSUME Drop PROVE DeliveriesInv'
    <3> DEFINE changed == [alert EXCEPT !.severity = "warning", !.version = @ + 1]
    <3>1. changed \in AlertState /\ changed.version >= alert.version /\ changed.status = "open"
      BY <1>0, <1>v, <2>4, NextVersion DEF Drop
    <3>2. alert' = changed /\ UNCHANGED <<announced, deliveries>>
      BY <2>4 DEF Drop
    <3> QED
      BY <1>0, <2>1, <2>4, <3>1, <3>2, AlertStep DEF Drop
  <2>5. ASSUME Resolve PROVE DeliveriesInv'
    <3> DEFINE changed == [alert EXCEPT !.status = "resolved", !.version = @ + 1]
    <3>1. changed \in AlertState /\ changed.version >= alert.version /\ changed.status = "resolved"
      BY <1>0, <1>v, <2>5, NextVersion DEF Resolve
    <3>2. Announce("resolved", changed) /\ alert' = changed
      BY <2>5 DEF Resolve, Announce
    <3> QED
      BY <1>0, <2>1, <2>5, <3>1, <3>2, AlertStep DEF Resolve, EventNames
  <2> QED
    BY <1>2, <1>a, <1>b, <2>1, <2>2, <2>3, <2>4, <2>5 DEF IInv, settingsVars
<1>3. ASSUME NEW e \in Events, DeliveryStep(e) PROVE IInv'
  <2>1. UNCHANGED settingsVars
    BY <1>3 DEF DeliveryStep, ReadAlert, FindDestinations, LoadServerAndSend
  <2>2. CASE ReadAlert(e)
    BY <1>0, <1>a, <1>b, <2>1, <2>2, ReadStep DEF ReadAlert, IInv, settingsVars
  <2>3. CASE FindDestinations(e)
    BY <1>0, <1>a, <1>b, <2>1, <2>3, FindStep DEF FindDestinations, IInv, settingsVars
  <2>4. CASE LoadServerAndSend(e)
    BY <1>0, <1>a, <2>1, <2>4, LoadStep DEF IInv
  <2> QED
    BY <1>3, <2>2, <2>3, <2>4 DEF DeliveryStep
<1>4. ASSUME NEW e \in Events, NEW d \in DestinationIds, SendStep(e, d) PROVE IInv'
  <2>1. UNCHANGED <<settingsVars, transport>>
    BY <1>4 DEF SendStep, Answered, NotAnswered, Retry, Record
  <2> QED
    BY <1>0, <1>4, <1>a, <1>b, <2>1, SendingStep DEF IInv, settingsVars
<1>5. CASE Crash
  <2>1. requests' \in [Requests -> Request] /\ RequestsChecked'
    BY <1>5, IdleRequest DEF Crash, RequestsChecked
  <2>2. SettingsInv'
    BY <1>0, <1>5, <2>1 DEF Crash, settings, SettingsInv, SettingsTyped, RuleExists, AllExist,
                            DestinationExists, PasswordIsTheAccounts
  <2>3. ClientInv'
    BY <1>0, <1>5 DEF Crash, settings, ClientInv
  <2>4. DeliveriesInv'
    BY <1>0, <1>5, EndedIsSound DEF Crash, DeliveriesInv
  <2> QED
    BY <2>2, <2>3, <2>4 DEF IInv
<1>6. CASE UNCHANGED vars
  <2>1. DeliveriesInv'
    BY <1>0, <1>6 DEF vars, deliveryVars, DeliveriesInv
  <2> QED
    BY <1>6, <1>a, <1>b, <2>1 DEF vars, settingsVars, deliveryVars, IInv
<1> QED
  BY <1>1, <1>2, <1>3, <1>4, <1>5, <1>6 DEF DNext

LEMMA IInvHolds == DSpec => []IInv
  BY IInvInit, IInvStep, PTL DEF DSpec

\* Rules, destinations, requests at work and announcements keep their shape; a
\* rule sends only to destinations that exist, and recipients are users.
THEOREM TypeCorrect == DSpec => []TypeOK
<1>1. IInv => TypeOK
  BY DEF IInv, SettingsInv, DeliveriesInv, Sound, TypeOK
<1> QED
  BY <1>1, IInvHolds, PTL

\* However saves of the server overlap, the saved password was typed for the
\* account it is used with.
THEOREM PasswordOfItsAccount == DSpec => []PasswordIsTheAccounts
<1>1. IInv => PasswordIsTheAccounts
  BY DEF IInv, SettingsInv
<1> QED
  BY <1>1, IInvHolds, PTL

\* A kept client is never used for another server, or with another password,
\* than the announcement loaded.
THEOREM MailIsSentAsLoaded == DSpec => []MailGoesThroughLoadedServer
<1>1. IInv => MailGoesThroughLoadedServer
  BY DEF IInv, DeliveriesInv, Sound, MailLoaded, MailGoesThroughLoadedServer
<1> QED
  BY <1>1, IInvHolds, PTL

\* No message is older than the change it announces.
THEOREM MessagesAreCurrent == DSpec => []MessageIsNotOlder
<1>1. IInv => MessageIsNotOlder
  BY DEF IInv, DeliveriesInv, Sound, NotAhead, MessageIsNotOlder
<1> QED
  BY <1>1, IInvHolds, PTL

\* A destination gets a message twice only where an answer was lost.
THEOREM MessageOnce == DSpec => []OneMessageEach
<1>1. IInv => OneMessageEach
  BY DEF IInv, DeliveriesInv, Sound, AttemptsCounted, OneMessageEach, Sending
<1> QED
  BY <1>1, IInvHolds, PTL

-----------------------------------------------------------------------------
(* What a step may do to recipients. *)

\* What was checked at the request's look at the destination holds at its write
\* if the destination is still as it was.
LEMMA PatchKeepsRecipients ==
    ASSUME IInv, NEW q \in Requests, UpdateDestination(q), NEW d \in DestinationIds,
           DestinationExists(d), destinations'[d] # destinations[d],
           destinations[d].kind = "email", Recipients(destinations'[d]) = {}
    PROVE  requests[q].read # destinations[d]
<1>0. SettingsTyped /\ RequestsChecked
  BY DEF IInv, SettingsInv
<1> DEFINE x == requests[q].destination
           patch == requests[q].patch
           saved == DestinationExists(x) /\ ("users" \in DOMAIN patch => patch.users \subseteq users)
<1>1. destinations' = IF saved THEN [destinations EXCEPT ![x] = Patched(destinations[x], patch)] ELSE destinations
  BY DEF UpdateDestination
<1>2. destinations \in [DestinationIds -> Destination \cup {Null, Gone}]
  BY <1>0 DEF SettingsTyped
<1> HIDE DEF saved
<1>3. d = x /\ destinations'[d] = Patched(destinations[d], patch)
  BY <1>1, <1>2
<1>4. requests[q].read.kind = "email" /\ DOMAIN patch # {} =>
          Recipients(Patched(requests[q].read, patch)) # {}
  BY <1>0 DEF RequestsChecked, Checked, UpdateDestination
<1>5. DOMAIN patch # {}
  <2>1. destinations[d] \in Destination
    BY <1>0, Existing
  <2>2. destinations[d] = [f \in DOMAIN destinations[d] |-> destinations[d][f]]
    BY <2>1 DEF Destination
  <2>3. DOMAIN patch = {} => Patched(destinations[d], patch) = destinations[d]
    BY <2>2 DEF Patched
  <2> QED
    BY <1>3, <2>3
<1> QED
  BY <1>3, <1>4, <1>5

LEMMA RecipientsStep ==
    ASSUME IInv, [DNext]_vars, NEW d \in DestinationIds,
           DestinationExists(d), DestinationExists(d)', destinations[d].kind = "email",
           Recipients(destinations[d]) # {}, Recipients(destinations'[d]) = {}, UNCHANGED users
    PROVE  \E q \in Requests :
               /\ requests[q].op = "updateDestination" /\ requests'[q] = Idle
               /\ requests[q].read # destinations[d]
<1>0. /\ SettingsInv /\ requests \in [Requests -> Request]
      /\ destinations \in [DestinationIds -> Destination \cup {Null, Gone}]
  BY DEF IInv, SettingsInv, SettingsTyped
<1>1. destinations'[d] # destinations[d]
  OBVIOUS
<1>2. PICK q \in Requests : \/ Ask(q)
                            \/ \E x \in DestinationIds : CreateDestination(q, x)
                            \/ UpdateDestination(q)
                            \/ DeleteDestination(q)
  <2>1. ASSUME NEW u \in Users, RemoveUser(u) PROVE users' # users
    BY <2>1 DEF RemoveUser
  <2>2. UNCHANGED destinations \/ Administer
    <3>1. UNCHANGED settingsVars => UNCHANGED destinations
      BY DEF settingsVars
    <3>2. (\E severity : Open(severity)) \/ Escalate \/ Drop \/ Resolve => UNCHANGED settingsVars
      BY DEF Open, Escalate, Drop, Resolve, Announce
    <3>3. ASSUME NEW e \in Events, DeliveryStep(e) PROVE UNCHANGED settingsVars
      BY <3>3 DEF DeliveryStep, ReadAlert, FindDestinations, LoadServerAndSend
    <3>4. ASSUME NEW e \in Events, NEW x \in DestinationIds, SendStep(e, x) PROVE UNCHANGED settingsVars
      BY <3>4 DEF SendStep, Answered, NotAnswered, Retry, Record
    <3>5. Crash => UNCHANGED destinations
      BY DEF Crash, settings
    <3>6. UNCHANGED vars => UNCHANGED settingsVars
      BY DEF vars
    <3> QED
      BY <3>1, <3>2, <3>3, <3>4, <3>5, <3>6 DEF DNext
  <2>3. Administer
    BY <1>1, <2>2
  <2> QED
    BY <1>1, <2>1, <2>3 DEF Administer, Finish, CreateRule, UpdateRule, KeepPassword, DeleteRule,
           SaveEmailServer, DeleteEmailServer
<1>3. ~Ask(q)
  BY <1>0, <1>1, Asked DEF Begin, settings
<1>4. ASSUME NEW x \in DestinationIds, CreateDestination(q, x) PROVE FALSE
  <2>1. destinations[x] = Null /\ (destinations'[d] = destinations[d] \/ x = d)
    BY <1>0, <1>4 DEF CreateDestination
  <2> QED
    BY <1>1, <1>4, <2>1 DEF CreateDestination, DestinationExists
<1>5. ~DeleteDestination(q)
  BY <1>0, <1>1 DEF DeleteDestination, DestinationExists
<1>6. UpdateDestination(q)
  BY <1>2, <1>3, <1>4, <1>5
<1>7. requests[q].op = "updateDestination" /\ requests'[q] = Idle
  BY <1>0, <1>6 DEF UpdateDestination, End
<1> QED
  BY <1>1, <1>6, <1>7, PatchKeepsRecipients

\* Checks before the write leave an e-mail destination without recipients only
\* where somebody is removed, or the destination changed under a request.
THEOREM RecipientsLostOnlyByRace == DSpec => LosesRecipientsOnlyByRace
<1>1. IInv /\ [DNext]_vars =>
        [\A d \in DestinationIds :
            /\ DestinationExists(d) /\ DestinationExists(d)'
            /\ destinations[d].kind = "email" /\ Recipients(destinations[d]) # {}
            /\ Recipients(destinations'[d]) = {}
            => \/ users' # users
               \/ \E q \in Requests :
                     /\ requests[q].op = "updateDestination" /\ requests'[q] = Idle
                     /\ requests[q].read # destinations[d]]_settingsVars
  BY RecipientsStep
<1> QED
  BY <1>1, IInvHolds, PTL DEF DSpec, LosesRecipientsOnlyByRace
=============================================================================
