-------------------------- MODULE PolicyResolution --------------------------
(***************************************************************************)
(* Where a target's policies come from (templates.service.ts,              *)
(* metrics.service.ts, the policy half of targets.service.ts and           *)
(* utils/resolve-policy.ts): the metric catalog, the metrics of templates, *)
(* the templates assigned to one target and the metrics customized for it; *)
(* the editors' requests that change them; and the poll by which the       *)
(* target's agent learns what to report and how often.  Targets, templates *)
(* and catalog metrics are never deleted.  Subjects, descriptions,         *)
(* priorities and streak lengths travel with a policy and are left out.    *)
(***************************************************************************)
EXTENDS AlertLevels, FiniteSets

CONSTANTS
    Metrics,            \* without the built-in host_up, which every service refuses
    Templates, Teams,
    Requests,           \* editors' requests that may be in progress together
    SentSuggestions,    \* catalog defaults that requests carry
    SentPolicies,       \* whole policies that requests add to templates
    SentOverrides,      \* whole policies that requests customize a metric with
    SentPatches,        \* partial ones: functions on some of the fields
    Null,               \* an absent row, or a field without a value
    MaxChanges          \* bounds the requests

Fields == [condition |-> Conditions, warning |-> Thresholds, critical |-> Thresholds,
           interval |-> Nat \ {0}, team |-> Teams \cup {Null}]
Policy == [condition : Conditions, warning : Thresholds, critical : Thresholds,
           interval : Nat \ {0}, team : Teams \cup {Null}]
Suggestion == [condition : Conditions \cup {Null}, warning : Thresholds, critical : Thresholds,
               interval : (Nat \ {0}) \cup {Null}]
Row == [id : Nat, policy : Policy]

ASSUME PolicyAssumption ==
    /\ SentSuggestions \subseteq Suggestion
    /\ SentPolicies \subseteq Policy /\ SentOverrides \subseteq Policy
    /\ \A patch \in SentPatches :
          /\ DOMAIN patch \subseteq DOMAIN Fields
          /\ \A f \in DOMAIN patch : patch[f] \in Fields[f]
    /\ Null \notin Nat \cup Teams \cup Conditions
    /\ Null \notin Row /\ Null \notin Policy /\ Null \notin Suggestion
    /\ MaxChanges \in Nat

VARIABLES
    catalog,            \* the suggested policy of every metric created so far
    rows,               \* template_metrics
    lastId,
    assigned,           \* target_templates of the target
    overrides,          \* target_metric_overrides of the target
    targetTeam,
    requests,           \* between the read a request decides on and its write
    poll,               \* effectiveMetrics at work, or its answer on the way
    agentList,          \* the intervals the agent runs by
    changes

vars == <<catalog, rows, lastId, assigned, overrides, targetTeam, requests, poll, agentList, changes>>
stored == <<catalog, rows, lastId, assigned, overrides, targetTeam>>

Idle == [op |-> "idle"]

NoList == [m \in Metrics |-> Null]

Init ==
    /\ catalog = [m \in Metrics |-> Null]
    /\ rows = [tm \in Templates \X Metrics |-> Null]
    /\ lastId = 0
    /\ assigned = {}
    /\ overrides = [m \in Metrics |-> Null]
    /\ targetTeam = Null
    /\ requests = [r \in Requests |-> Idle]
    /\ poll = Idle
    /\ agentList = NoList
    /\ changes = 0

-----------------------------------------------------------------------------
(* Resolution. *)

Or(value, default) == IF value # Null THEN value ELSE default

Valid(p) == ValidThresholds(p.condition, p.warning, p.critical)

ValidSuggestion(s) == ValidThresholds(Or(s.condition, "gt"), s.warning, s.critical)

\* A patch replaces the fields it has.
Merged(record, patch) ==
    [f \in DOMAIN record |-> IF f \in DOMAIN patch THEN patch[f] ELSE record[f]]

\* A metric keeps the report interval it was created with.
MergedDefaults(suggestion, patch) ==
    [Merged(suggestion, patch) EXCEPT !.interval = suggestion.interval]

Providers(m) == {t \in assigned : rows[<<t, m>>] # Null}

Reachable(m) == Providers(m) # {}

\* Mutant: the newest row wins.
MutantSource(m) ==
    CHOOSE t \in Providers(m) : \A u \in Providers(m) : rows[<<t, m>>].id >= rows[<<u, m>>].id

\* "lowest template_metrics.id wins"
Source(m) ==
    CHOOSE t \in Providers(m) : \A u \in Providers(m) : rows[<<t, m>>].id <= rows[<<u, m>>].id

TemplateDefault(m) == rows[<<Source(m), m>>].policy

\* The customized policy replaces the template's as a whole; the team falls
\* through: customized metric, target, template.
ResolvePolicy(default, override, team) ==
    [Or(override, default) EXCEPT
        !.team = Or(IF override = Null THEN Null ELSE override.team, Or(team, default.team))]

Effective(m) == ResolvePolicy(TemplateDefault(m), overrides[m], targetTeam)

-----------------------------------------------------------------------------
(* Requests that one statement of the database decides. *)

Counted == changes < MaxChanges /\ changes' = changes + 1

\* createMetric stores suggestions as they come; a second metric of the same
\* key is refused.
CreateMetric(m, suggestion) ==
    /\ Counted
    /\ catalog[m] = Null
    /\ catalog' = [catalog EXCEPT ![m] = suggestion]
    /\ UNCHANGED <<rows, lastId, assigned, overrides, targetTeam, requests, poll, agentList>>

\* Mutant: thresholds are not looked at.
MutantAddTemplateMetric(t, m, policy) ==
    /\ Counted
    /\ catalog[m] # Null
    /\ rows[<<t, m>>] = Null
    /\ lastId' = lastId + 1
    /\ rows' = [rows EXCEPT ![<<t, m>>] = [id |-> lastId', policy |-> policy]]
    /\ UNCHANGED <<catalog, assigned, overrides, targetTeam, requests, poll, agentList>>

AddTemplateMetric(t, m, policy) ==
    /\ Counted
    /\ catalog[m] # Null
    /\ Valid(policy)
    /\ rows[<<t, m>>] = Null
    /\ lastId' = lastId + 1
    /\ rows' = [rows EXCEPT ![<<t, m>>] = [id |-> lastId', policy |-> policy]]
    /\ UNCHANGED <<catalog, assigned, overrides, targetTeam, requests, poll, agentList>>

\* Mutant: the id of a removed row is given out again.
MutantRemoveTemplateMetric(t, m) ==
    /\ Counted
    /\ rows[<<t, m>>] # Null
    /\ rows' = [rows EXCEPT ![<<t, m>>] = Null]
    /\ lastId' = lastId - 1
    /\ UNCHANGED <<catalog, assigned, overrides, targetTeam, requests, poll, agentList>>

RemoveTemplateMetric(t, m) ==
    /\ Counted
    /\ rows[<<t, m>>] # Null
    /\ rows' = [rows EXCEPT ![<<t, m>>] = Null]
    /\ UNCHANGED <<catalog, lastId, assigned, overrides, targetTeam, requests, poll, agentList>>

AssignTemplate(t) ==
    /\ Counted
    /\ t \notin assigned
    /\ assigned' = assigned \cup {t}
    /\ UNCHANGED <<catalog, rows, lastId, overrides, targetTeam, requests, poll, agentList>>

\* The target's customized metrics stay.
UnassignTemplate(t) ==
    /\ Counted
    /\ t \in assigned
    /\ assigned' = assigned \ {t}
    /\ UNCHANGED <<catalog, rows, lastId, overrides, targetTeam, requests, poll, agentList>>

RemoveOverride(m) ==
    /\ Counted
    /\ overrides[m] # Null
    /\ overrides' = [overrides EXCEPT ![m] = Null]
    /\ UNCHANGED <<catalog, rows, lastId, assigned, targetTeam, requests, poll, agentList>>

UpdateTarget(team) ==
    /\ Counted
    /\ targetTeam' = team
    /\ UNCHANGED <<catalog, rows, lastId, assigned, overrides, requests, poll, agentList>>

-----------------------------------------------------------------------------
(* Requests that read first and write what they have checked later. *)

Begin(r, request) ==
    /\ Counted
    /\ requests[r] = Idle
    /\ requests' = [requests EXCEPT ![r] = request]
    /\ UNCHANGED <<stored, poll, agentList>>

End(r) == requests' = [requests EXCEPT ![r] = Idle]

Patched(row, patch) == IF row = Null THEN Null ELSE [row EXCEPT !.policy = Merged(@, patch)]

\* updateTemplateMetric validates the row it found with the patch applied.
BeginUpdateTemplateMetric(r, t, m, patch) ==
    /\ rows[<<t, m>>] # Null
    /\ Valid(Merged(rows[<<t, m>>].policy, patch))
    /\ Begin(r, [op |-> "patch", template |-> t, metric |-> m, patch |-> patch, read |-> rows[<<t, m>>]])

\* ... and patches whatever row the template has for the metric by then; when
\* it has none, the request fails with 404.
UpdateTemplateMetric(r) ==
    LET q == requests[r] IN
    /\ q.op = "patch"
    /\ End(r)
    /\ rows' = [rows EXCEPT ![<<q.template, q.metric>>] = Patched(@, q.patch)]
    /\ UNCHANGED <<catalog, lastId, assigned, overrides, targetTeam, poll, agentList, changes>>

BeginUpdateMetricDefaults(r, m, patch) ==
    /\ catalog[m] # Null
    /\ ValidSuggestion(MergedDefaults(catalog[m], patch))
    /\ Begin(r, [op |-> "defaults", metric |-> m, patch |-> patch, read |-> catalog[m]])

\* "Forward-only": no row of a template changes.
UpdateMetricDefaults(r) ==
    LET q == requests[r] IN
    /\ q.op = "defaults"
    /\ End(r)
    /\ catalog' = [catalog EXCEPT ![q.metric] = MergedDefaults(@, q.patch)]
    /\ UNCHANGED <<rows, lastId, assigned, overrides, targetTeam, poll, agentList, changes>>

\* setOverride wants the metric reachable when it looks.
BeginSetOverride(r, m, policy) ==
    /\ Reachable(m)
    /\ Valid(policy)
    /\ Begin(r, [op |-> "override", metric |-> m, policy |-> policy])

SetOverride(r) ==
    LET q == requests[r] IN
    /\ q.op = "override"
    /\ End(r)
    /\ overrides' = [overrides EXCEPT ![q.metric] = q.policy]
    /\ UNCHANGED <<catalog, rows, lastId, assigned, targetTeam, poll, agentList, changes>>

-----------------------------------------------------------------------------
(* The agent's poll: effectiveMetrics takes two reads. *)

PollReadsTemplates ==
    /\ poll = Idle
    /\ poll' = [op |-> "templates", list |->
          [m \in Metrics |-> IF Reachable(m) THEN TemplateDefault(m).interval ELSE Null]]
    /\ UNCHANGED <<stored, requests, agentList, changes>>

\* Mutant: customized intervals are not looked up.
MutantPollReadsOverrides ==
    /\ poll.op = "templates"
    /\ poll' = [poll EXCEPT !.op = "answer"]
    /\ UNCHANGED <<stored, requests, agentList, changes>>

PollReadsOverrides ==
    /\ poll.op = "templates"
    /\ poll' = [op |-> "answer", list |->
          [m \in Metrics |-> IF poll.list[m] # Null /\ overrides[m] # Null
                             THEN overrides[m].interval ELSE poll.list[m]]]
    /\ UNCHANGED <<stored, requests, agentList, changes>>

PollAnswered ==
    /\ poll.op = "answer"
    /\ agentList' = poll.list
    /\ poll' = Idle
    /\ UNCHANGED <<stored, requests, changes>>

PollLost ==
    /\ poll # Idle
    /\ poll' = Idle
    /\ UNCHANGED <<stored, requests, agentList, changes>>

\* The agent keeps no list on disk.
AgentRestart ==
    /\ Counted
    /\ poll' = Idle
    /\ agentList' = NoList
    /\ UNCHANGED <<stored, requests>>

-----------------------------------------------------------------------------

Edit ==
    \/ \E t \in Templates : AssignTemplate(t) \/ UnassignTemplate(t)
    \/ \E m \in Metrics : RemoveOverride(m)
    \/ \E m \in Metrics, s \in SentSuggestions : CreateMetric(m, s)
    \/ \E t \in Templates, m \in Metrics : RemoveTemplateMetric(t, m)
    \/ \E t \in Templates, m \in Metrics, p \in SentPolicies : AddTemplateMetric(t, m, p)
    \/ \E team \in Teams \cup {Null} : UpdateTarget(team)

Read(r) ==
    \/ \E t \in Templates, m \in Metrics, patch \in SentPatches :
          BeginUpdateTemplateMetric(r, t, m, patch)
    \/ \E m \in Metrics, patch \in SentPatches : BeginUpdateMetricDefaults(r, m, patch)
    \/ \E m \in Metrics, p \in SentOverrides : BeginSetOverride(r, m, p)

Write(r) == UpdateTemplateMetric(r) \/ UpdateMetricDefaults(r) \/ SetOverride(r)

PollStep == PollReadsTemplates \/ PollReadsOverrides \/ PollAnswered

Next ==
    \/ Edit
    \/ \E r \in Requests : Read(r) \/ Write(r)
    \/ PollStep
    \/ PollLost
    \/ AgentRestart

Spec == Init /\ [][Next]_vars

\* Requests in progress end; the agent polls again and again, and a poll that
\* is answered often enough is heard at last.
FairSpec ==
    /\ Spec
    /\ \A r \in Requests : WF_vars(Write(r))
    /\ WF_vars(PollReadsTemplates)
    /\ SF_vars(PollReadsOverrides)
    /\ SF_vars(PollAnswered)

-----------------------------------------------------------------------------
(* Properties. *)

Lists == [Metrics -> (Nat \ {0}) \cup {Null}]

RowsTyped ==
    /\ lastId \in Nat
    /\ rows \in [Templates \X Metrics -> Row \cup {Null}]
    /\ \A t \in Templates, m \in Metrics : rows[<<t, m>>] # Null => rows[<<t, m>>].id \in 1..lastId

Request ==
    {Idle}
        \cup [op : {"patch"}, template : Templates, metric : Metrics, patch : SentPatches, read : Row]
        \cup [op : {"defaults"}, metric : Metrics, patch : SentPatches, read : Suggestion]
        \cup [op : {"override"}, metric : Metrics, policy : SentOverrides]

RequestsTyped == requests \in [Requests -> Request]

\* Type correctness of the tables, the requests and the agent's list; ids are
\* given out in order, and a customized policy is as accepted.
TypeOK ==
    /\ catalog \in [Metrics -> Suggestion \cup {Null}]
    /\ RowsTyped
    /\ assigned \subseteq Templates
    /\ overrides \in [Metrics -> SentOverrides \cup {Null}]
    /\ targetTeam \in Teams \cup {Null}
    /\ RequestsTyped
    /\ poll \in {Idle} \cup [op : {"templates", "answer"}, list : Lists]
    /\ agentList \in Lists
    /\ changes \in 0..MaxChanges

\* Values one step to each side of the thresholds, and the thresholds.
Around(p) == UNION {{x - 1, x, x + 1} : x \in {p.warning, p.critical} \ {NoThreshold}}

Judged(p, value) == LevelOf(value, p.condition, p.warning, p.critical)

\* A customized policy with both thresholds has values that read at warning
\* and values that read at critical, no value reads lower than a milder one,
\* and an alert quotes a threshold its value breaches, never the 0 of an unset
\* one (setOverride lets nothing else through, whatever the template's
\* policies are).  "eq" accepts equal thresholds and hides its warning.
Rank(level) == CASE level = "critical" -> 2 [] level = "warning" -> 1 [] OTHER -> 0

CustomizedLevelsInOrder ==
    \A m \in Metrics :
        overrides[m] # Null =>
            LET p == overrides[m] IN
            /\ p.warning # NoThreshold /\ p.critical # NoThreshold /\ p.condition # "eq" =>
                  \A level \in Levels : \E v \in Around(p) : Judged(p, v) = level
            /\ \A v, u \in Around(p) :
                  /\ p.condition \in {"gt", "gte"} /\ v >= u => Rank(Judged(p, v)) >= Rank(Judged(p, u))
                  /\ p.condition \in {"lt", "lte"} /\ v <= u => Rank(Judged(p, v)) >= Rank(Judged(p, u))
            /\ \A v \in Around(p) :
                  Judged(p, v) # NoLevel =>
                      Breaches(v, p.condition, QuotedThreshold(Judged(p, v), p.warning, p.critical))

\* "Validate the merged result, since a patch may change only one side"
\* (templates.service.ts:51): a policy whose thresholds are in order gets out
\* of order, or a metric starts that way, only by a patch that was validated
\* against a row that has changed since.
InvalidOnlyByStalePatch ==
    [][\A t \in Templates, m \in Metrics :
          /\ rows'[<<t, m>>] # Null /\ ~Valid(rows'[<<t, m>>].policy)
          /\ rows[<<t, m>>] # Null => Valid(rows[<<t, m>>].policy)
          => \E r \in Requests :
                requests[r] # Idle /\ requests'[r] = Idle /\ requests[r].op = "patch"
                /\ requests[r].read # rows[<<t, m>>]]_vars

\* The policy in force for a metric changes only with the row it comes from,
\* its customization, the templates assigned or the target's team: no metric
\* added to another template, no edit of one it does not come from and, once
\* it is customized, no edit of a template but for the team (resolvePolicy,
\* resolveTemplateDefault).
InForce(m, s) == <<s, overrides[m], assigned, targetTeam>>

ChangesOnlyAtItsSource ==
    [][\A m \in Metrics :
          LET s == Source(m) IN
          /\ Reachable(m) /\ Reachable(m)'
          /\ overrides'[m] = overrides[m] /\ targetTeam' = targetTeam
          => /\ assigned' = assigned /\ rows'[<<s, m>>] = rows[<<s, m>>] => Effective(m)' = Effective(m)
             /\ overrides[m] # Null =>
                   /\ [Effective(m) EXCEPT !.team = Null]' = [Effective(m) EXCEPT !.team = Null]
                   /\ overrides[m].team # Null => Effective(m).team' = overrides[m].team]_vars

Current(m) == IF Reachable(m) THEN Effective(m).interval ELSE Null

\* Once editors stop, the agent ends up with the intervals in force: whatever
\* two reads of one poll saw and whichever polls were lost, a later poll
\* corrects it (pollAgent, effectiveMetrics).
AgentLearnsIntervals == <>[](agentList = [m \in Metrics |-> Current(m)])
=============================================================================
