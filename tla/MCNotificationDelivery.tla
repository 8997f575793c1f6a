----------------------- MODULE MCNotificationDelivery -----------------------
(***************************************************************************)
(* NotificationDelivery on small instances: a chat destination and an      *)
(* e-mail destination, one rule that sends to the latter, a mail server    *)
(* with its password.                                                      *)
(***************************************************************************)
EXTENDS NotificationDelivery, TLC

CONSTANTS q1, q2, r1, r2, chat, mail, hook, ann, ops, official, relay, tls, gateway

MCFitsUrl(kind, url) == kind = "generic" \/ url = official
MCSignsIn(account) == account # gateway

MCRule(teams, minPriority, to) ==
    [teams |-> teams, minPriority |-> minPriority, enabled |-> TRUE, to |-> to]
MCChat == [kind |-> "discord", url |-> official, addresses |-> {}, users |-> {}]
MCMail == [kind |-> "email", url |-> Null, addresses |-> {ops}, users |-> {ann}]

MCSavedRules == [r \in {r1, r2} |-> IF r = r1 THEN MCRule({}, 3, {mail}) ELSE Null]
MCSavedDestinations == [d \in DestinationIds |-> CASE d = chat -> MCChat [] d = mail -> MCMail [] OTHER -> Null]
MCSavedServers == {[account |-> relay, password |-> relay, updatedAt |-> 0]}
MCNewRules == {MCRule({}, Null, {mail})}
MCRulePatches == {[to |-> {chat}], [enabled |-> FALSE]}
MCNewDestinations == {[MCMail EXCEPT !.addresses = {}]}
MCDestinationPatches == {[addresses |-> {}], [users |-> {}]}

MCSymmetry == Permutations(Requests)
=============================================================================
