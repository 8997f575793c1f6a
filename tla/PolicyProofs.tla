---------------------------- MODULE PolicyProofs ----------------------------
(***************************************************************************)
(* Theorems about the levels of AlertLevels, for every integer value and   *)
(* threshold, about what the forms of PolicyForms send, for every policy   *)
(* and everything typed into them, and about PolicyResolution, for every   *)
(* value of its constants.                                                 *)
(***************************************************************************)
EXTENDS PolicyForms, WellFoundedInduction, TLAPS

-----------------------------------------------------------------------------
(* Levels. *)

\* assertValidThresholds keeps warning below critical: whatever breaches the
\* critical threshold of an accepted policy also breaches its warning one, so a
\* value moving in the policy's direction trips warning first.  With "eq" the
\* two thresholds are unrelated.
THEOREM WarningTripsFirst ==
    ASSUME NEW condition \in Conditions, condition # "eq",
           NEW warning \in Int, NEW critical \in Int,
           ValidThresholds(condition, warning, critical),
           NEW value \in Int, Breaches(value, condition, critical)
    PROVE  Breaches(value, condition, warning)
<1>1. warning # NoThreshold /\ critical # NoThreshold
  BY NoThresholdAssumption
<1>2. CASE condition \in {"gt", "gte"}
  BY <1>1, <1>2 DEF ValidThresholds, Breaches
<1>3. CASE condition \in {"lt", "lte"}
  BY <1>1, <1>3 DEF ValidThresholds, Breaches
<1> QED
  BY <1>2, <1>3 DEF Conditions

\* Under an accepted policy with both thresholds set (and not "eq") each level
\* is what some value next to them reads at: neither threshold hides the other.
THEOREM LevelsReachable ==
    ASSUME NEW condition \in Conditions, condition # "eq",
           NEW warning \in Int, NEW critical \in Int,
           ValidThresholds(condition, warning, critical),
           NEW level \in Levels
    PROVE  \E value \in UNION {{x - 1, x, x + 1} : x \in {warning, critical}} :
              LevelOf(value, condition, warning, critical) = level
<1>1. warning # NoThreshold /\ critical # NoThreshold
  BY NoThresholdAssumption
<1>2. CASE condition = "gt"
  <2>1. LevelOf(critical + 1, condition, warning, critical) = "critical"
    BY <1>1, <1>2 DEF LevelOf, Trips, Breaches
  <2>2. LevelOf(warning + 1, condition, warning, critical) = "warning"
    BY <1>1, <1>2 DEF LevelOf, Trips, Breaches, ValidThresholds
  <2> QED
    BY <2>1, <2>2 DEF Levels
<1>3. CASE condition = "lt"
  <2>1. LevelOf(critical - 1, condition, warning, critical) = "critical"
    BY <1>1, <1>3 DEF LevelOf, Trips, Breaches
  <2>2. LevelOf(warning - 1, condition, warning, critical) = "warning"
    BY <1>1, <1>3 DEF LevelOf, Trips, Breaches, ValidThresholds
  <2> QED
    BY <2>1, <2>2 DEF Levels
<1>4. CASE condition \in {"gte", "lte"}
  <2>1. LevelOf(critical, condition, warning, critical) = "critical"
    BY <1>1, <1>4 DEF LevelOf, Trips, Breaches
  <2>2. LevelOf(warning, condition, warning, critical) = "warning"
    BY <1>1, <1>4 DEF LevelOf, Trips, Breaches, ValidThresholds
  <2> QED
    BY <2>1, <2>2 DEF Levels
<1> QED
  BY <1>2, <1>3, <1>4 DEF Conditions

\* The message of an alert quotes a threshold its value breaches, never the 0
\* that stands in for an unset one (recordValue's message).
THEOREM QuotedThresholdBreached ==
    ASSUME NEW condition \in Conditions,
           NEW warning \in Thresholds, NEW critical \in Thresholds,
           NEW value \in Int,
           LevelOf(value, condition, warning, critical) # NoLevel
    PROVE  Breaches(value, condition,
                    QuotedThreshold(LevelOf(value, condition, warning, critical),
                                    warning, critical))
<1>1. CASE Trips(value, condition, critical)
  BY <1>1 DEF LevelOf, QuotedThreshold, Trips
<1>2. CASE ~Trips(value, condition, critical)
  <2>1. Trips(value, condition, warning)
    BY <1>2 DEF LevelOf
  <2> QED
    BY <1>2, <2>1 DEF LevelOf, QuotedThreshold, Trips
<1> QED
  BY <1>1, <1>2

-----------------------------------------------------------------------------
(* Forms. *)

\* The form "mirrors the API's threshold rule so problems show before saving"
\* (utils/policy.ts:39-40): what it lets through is what assertValidThresholds
\* accepts, whatever was typed into inputs that are switched off.
THEOREM FormMirrorsApi ==
    ASSUME NEW form \in Inputs
    PROVE  /\ Submitted(form) \in Policy
           /\ NoProblem(form) <=>
                /\ form.warningOn => form.typed.warning # NoThreshold
                /\ form.criticalOn => form.typed.critical # NoThreshold
                /\ Valid(Submitted(form))
<1>1. form.typed \in Policy /\ form.warningOn \in BOOLEAN /\ form.criticalOn \in BOOLEAN
  BY DEF Inputs
<1>2. SentWarning(form) \in Thresholds /\ SentCritical(form) \in Thresholds
  BY <1>1 DEF SentWarning, SentCritical, Sent, Policy, Thresholds
<1>3. Submitted(form) \in Policy
  BY <1>1, <1>2 DEF Submitted, Policy
<1>4. /\ Submitted(form).condition = form.typed.condition
      /\ Submitted(form).warning = SentWarning(form)
      /\ Submitted(form).critical = SentCritical(form)
  BY <1>1 DEF Submitted, Policy
<1>5. /\ form.warningOn => SentWarning(form) = form.typed.warning
      /\ form.criticalOn => SentCritical(form) = form.typed.critical
  BY DEF SentWarning, SentCritical, Sent
<1>6. SentWarning(form) # NoThreshold /\ SentCritical(form) # NoThreshold =>
         /\ SentWarning(form) \in Int /\ SentCritical(form) \in Int
  BY <1>2 DEF Thresholds
<1> QED
  BY <1>3, <1>4, <1>5, <1>6 DEF NoProblem, Valid, ValidThresholds

\* A form that is saved as it opened sends the policy it opened with.
LEMMA SavedAsOpened ==
    ASSUME NEW policy \in Policy
    PROVE  Submitted(Form(policy)) = policy
  BY DEF Submitted, Form, SentWarning, SentCritical, Sent, Policy

\* Saving the form of a customization as it opened changes nothing for the
\* target, whatever team it gets later: the team the form leaves blank is
\* looked up again, and the policy is the one in force.
THEOREM CustomizingChangesNothing ==
    ASSUME NEW m \in Metrics, TemplateDefault(m) \in Policy,
           overrides[m] \in Policy \cup {Null},
           targetTeam \in Teams \cup {Null}, NEW team \in Teams \cup {Null}
    PROVE  ResolvePolicy(TemplateDefault(m), Submitted(CustomForm(m)), team)
               = ResolvePolicy(TemplateDefault(m), overrides[m], team)
<1> DEFINE base == Or(overrides[m], TemplateDefault(m))
           own == IF overrides[m] = Null THEN Null ELSE overrides[m].team
           opened == [base EXCEPT !.team = own]
<1>1. base \in Policy
  BY DEF Or
<1>2. own \in Teams \cup {Null}
  BY DEF Policy
<1>3. opened \in Policy /\ opened.team = own
  BY <1>1, <1>2 DEF Policy
<1>4. [Effective(m) EXCEPT !.team = own] = opened
  BY <1>1 DEF Effective, ResolvePolicy, Policy
<1>5. Submitted(CustomForm(m)) = opened
  BY <1>3, <1>4, SavedAsOpened DEF CustomForm
<1>6. opened # Null
  BY <1>3, PolicyAssumption
<1>7. ResolvePolicy(TemplateDefault(m), opened, team)
         = [base EXCEPT !.team = Or(own, Or(team, TemplateDefault(m).team))]
  BY <1>1, <1>3, <1>6 DEF ResolvePolicy, Or, Policy
<1>8. ResolvePolicy(TemplateDefault(m), overrides[m], team)
         = [base EXCEPT !.team = Or(own, Or(team, TemplateDefault(m).team))]
  BY DEF ResolvePolicy
<1> QED
  BY <1>5, <1>7, <1>8

\* Saving the defaults of a metric as their form opened does not change what a
\* metric added from them starts with: the form and the catalog put the same
\* condition where none is suggested, and the interval, which the form does not
\* ask for, stays the one the metric was created with, or the 60 s of the form
\* where it was created with none.
THEOREM DefaultsStayAsShown ==
    ASSUME NEW suggestion \in Suggestion
    PROVE  FromCatalog(MergedDefaults(suggestion, SubmittedDefaults(suggestion)))
               = FromCatalog(suggestion)
<1> DEFINE patch == SubmittedDefaults(suggestion)
           saved == MergedDefaults(suggestion, patch)
<1>1. Or(suggestion.condition, "gt") # Null
  BY PolicyAssumption DEF Or, Conditions
<1>2. SubmittedDefaults(suggestion) =
        [condition |-> Or(suggestion.condition, "gt"),
         warning |-> suggestion.warning, critical |-> suggestion.critical]
  BY DEF SubmittedDefaults, FromCatalog, Form, SentWarning, SentCritical, Sent
<1>3. Or(Or(suggestion.condition, "gt"), "gt") = Or(suggestion.condition, "gt")
  BY <1>1 DEF Or
<1>4. DOMAIN suggestion = {"condition", "warning", "critical", "interval"}
  BY DEF Suggestion
<1>5. DOMAIN patch = {"condition", "warning", "critical"}
  BY <1>2
<1>6. /\ saved.condition = Or(suggestion.condition, "gt")
      /\ saved.warning = suggestion.warning /\ saved.critical = suggestion.critical
      /\ saved.interval = suggestion.interval
  BY <1>2, <1>4, <1>5 DEF MergedDefaults, Merged
<1> HIDE DEF saved
<1>7. FromCatalog(saved) = FromCatalog(suggestion)
  BY <1>3, <1>6 DEF FromCatalog
<1> QED
  BY <1>7 DEF saved

\* "Unchecking only disables the input, so re-checking brings the typed value
\* back": switching both levels off and on again sends the same thresholds.
THEOREM RecheckingRestores ==
    ASSUME NEW form \in Inputs
    PROVE  LET again == Switched(Switched(form, FALSE, FALSE), form.warningOn, form.criticalOn)
           IN /\ Submitted(again).warning = Submitted(form).warning
              /\ Submitted(again).critical = Submitted(form).critical
<1> DEFINE off == Switched(form, FALSE, FALSE)
           again == Switched(off, form.warningOn, form.criticalOn)
<1>1. off.typed.warning = form.typed.warning /\ off.typed.critical = form.typed.critical
  BY DEF Switched, Inputs, Policy
<1>2. /\ ~off.warningOn /\ ~off.criticalOn
      /\ again.typed = off.typed
      /\ again.warningOn = form.warningOn /\ again.criticalOn = form.criticalOn
  BY DEF Switched
<1>3. form.typed \in Policy /\ off.typed \in Policy
  BY DEF Switched, Inputs, Policy
<1>4. /\ Submitted(form).warning = SentWarning(form)
      /\ Submitted(form).critical = SentCritical(form)
  BY <1>3 DEF Submitted, Policy
<1>5. /\ Submitted(again).warning = SentWarning(again)
      /\ Submitted(again).critical = SentCritical(again)
  BY <1>2, <1>3 DEF Submitted, Policy
<1>6. SentWarning(again) = SentWarning(form) /\ SentCritical(again) = SentCritical(form)
  BY <1>1, <1>2 DEF SentWarning, SentCritical, Sent
<1> QED
  BY <1>4, <1>5, <1>6

-----------------------------------------------------------------------------
(* Resolution: the invariant. *)

UniqueIds ==
    \A t, u \in Templates, m, n \in Metrics :
        rows[<<t, m>>] # Null /\ rows[<<u, n>>] # Null /\ rows[<<t, m>>].id = rows[<<u, n>>].id
        => t = u /\ m = n

\* What the check of a request in progress found.
Checked(q) ==
    /\ q.op = "patch" => Valid(Merged(q.read.policy, q.patch))
    /\ q.op = "defaults" => catalog[q.metric] # Null
    /\ q.op = "override" => Valid(q.policy)

\* What concerns the tables, and what concerns requests and the agent.
Tables ==
    /\ catalog \in [Metrics -> Suggestion \cup {Null}]
    /\ RowsTyped
    /\ assigned \subseteq Templates
    /\ overrides \in [Metrics -> SentOverrides \cup {Null}]
    /\ targetTeam \in Teams \cup {Null}
    /\ UniqueIds
    /\ \A m \in Metrics : overrides[m] # Null => Valid(overrides[m])

InProgress == RequestsTyped /\ \A r \in Requests : Checked(requests[r])

Agent ==
    /\ poll \in {Idle} \cup [op : {"templates", "answer"}, list : Lists]
    /\ agentList \in Lists
    /\ changes \in 0..MaxChanges

IInv == Tables /\ InProgress /\ Agent

\* A nonempty set of numbers has a least one.
Less == {p \in Nat \X Nat : p[1] < p[2]}

LEMMA LeastExists ==
    ASSUME NEW S, S \subseteq Nat, S # {}
    PROVE  \E n \in S : \A k \in S : n <= k
<1>1. IsWellFoundedOn(Less, Nat)
  BY NatLessThanWellFounded DEF Less, OpToRel
<1>2. \E n \in S : \A k \in S : ~(<<k, n>> \in Less)
  BY <1>1, WFMin
<1>3. PICK n \in S : \A k \in S : ~(<<k, n>> \in Less)
  BY <1>2
<1>4. ASSUME NEW k \in S PROVE n <= k
  <2>1. <<k, n>> \in Nat \X Nat /\ <<k, n>>[1] = k /\ <<k, n>>[2] = n
    OBVIOUS
  <2> QED
    BY <1>3, <2>1 DEF Less
<1> QED
  BY <1>4

\* A metric that some assigned template has comes from the one whose row has
\* the lowest id, and from no other.
LEMMA SourceIsLowest ==
    ASSUME RowsTyped, assigned \subseteq Templates, NEW m \in Metrics, Reachable(m)
    PROVE  /\ Source(m) \in Providers(m)
           /\ \A u \in Providers(m) : rows[<<Source(m), m>>].id <= rows[<<u, m>>].id
<1> DEFINE ids == {rows[<<t, m>>].id : t \in Providers(m)}
<1>1. ASSUME NEW t \in Providers(m) PROVE rows[<<t, m>>].id \in Nat
  BY <1>1 DEF Providers, RowsTyped, Row
<1>2. ids \subseteq Nat /\ ids # {}
  BY <1>1 DEF Reachable
<1> HIDE DEF ids
<1>3. PICK n \in ids : \A k \in ids : n <= k
  BY <1>2, LeastExists
<1>4. \E t \in Providers(m) : \A u \in Providers(m) : rows[<<t, m>>].id <= rows[<<u, m>>].id
  BY <1>3 DEF ids
<1> QED
  BY <1>4, Zenon DEF Source

LEMMA DefaultType ==
    ASSUME RowsTyped, assigned \subseteq Templates, NEW m \in Metrics, Reachable(m)
    PROVE  TemplateDefault(m) \in Policy
  BY SourceIsLowest DEF TemplateDefault, Providers, RowsTyped, Row

LEMMA MergedPolicy ==
    ASSUME NEW p \in Policy, NEW patch \in SentPatches
    PROVE  Merged(p, patch) \in Policy
<1> DEFINE q == Merged(p, patch)
<1>1. DOMAIN p = DOMAIN Fields
  BY DEF Policy, Fields
<1>2. \A f \in DOMAIN patch : patch[f] \in Fields[f]
  BY PolicyAssumption
<1>3. q.condition \in Conditions
  BY <1>1, <1>2 DEF Merged, Fields, Policy
<1>4. q.warning \in Thresholds /\ q.critical \in Thresholds
  BY <1>1, <1>2 DEF Merged, Fields, Policy
<1>5. q.interval \in Nat \ {0} /\ q.team \in Teams \cup {Null}
  BY <1>1, <1>2 DEF Merged, Fields, Policy
<1>6. q = [condition |-> q.condition, warning |-> q.warning, critical |-> q.critical,
           interval |-> q.interval, team |-> q.team]
  BY <1>1 DEF Merged, Fields
<1> HIDE DEF q
<1>7. q \in Policy
  BY <1>3, <1>4, <1>5, <1>6 DEF Policy
<1> QED
  BY <1>7 DEF q

LEMMA MergedSuggestion ==
    ASSUME NEW s \in Suggestion, NEW patch \in SentPatches
    PROVE  MergedDefaults(s, patch) \in Suggestion
<1> DEFINE q == MergedDefaults(s, patch)
<1>1. DOMAIN s = {"condition", "warning", "critical", "interval"}
  BY DEF Suggestion
<1>2. \A f \in DOMAIN patch : patch[f] \in Fields[f]
  BY PolicyAssumption
<1>3. q.condition \in Conditions \cup {Null}
  BY <1>1, <1>2 DEF MergedDefaults, Merged, Fields, Suggestion
<1>4. /\ q.warning \in Thresholds /\ q.critical \in Thresholds
      /\ q.interval \in (Nat \ {0}) \cup {Null}
  BY <1>1, <1>2 DEF MergedDefaults, Merged, Fields, Suggestion
<1>5. q = [condition |-> q.condition, warning |-> q.warning, critical |-> q.critical,
           interval |-> q.interval]
  <2> DEFINE base == Merged(s, patch)
  <2>1. base = [condition |-> base.condition, warning |-> base.warning,
                critical |-> base.critical, interval |-> base.interval]
    BY <1>1 DEF Merged
  <2>2. q = [base EXCEPT !.interval = s.interval]
    BY DEF MergedDefaults
  <2> HIDE DEF base, q
  <2> QED
    BY <2>1, <2>2
<1> HIDE DEF q
<1>6. q \in Suggestion
  BY <1>3, <1>4, <1>5 DEF Suggestion
<1> QED
  BY <1>6 DEF q

\* A patched row stays the row it was.
LEMMA PatchedRow ==
    ASSUME NEW row \in Row, NEW patch \in SentPatches
    PROVE  /\ Patched(row, patch) \in Row
           /\ Patched(row, patch).id = row.id
           /\ Patched(row, patch).policy = Merged(row.policy, patch)
<1>1. row.policy \in Policy /\ row.id \in Nat
  BY DEF Row
<1>2. Merged(row.policy, patch) \in Policy
  BY <1>1, MergedPolicy
<1>3. row # Null
  BY PolicyAssumption
<1>4. Patched(row, patch) = [id |-> row.id, policy |-> Merged(row.policy, patch)]
  BY <1>3 DEF Patched, Row
<1> QED
  BY <1>1, <1>2, <1>4 DEF Row

-----------------------------------------------------------------------------
(* Resolution: the invariant is kept. *)

LEMMA IInvInit == Init => IInv
<1> SUFFICES ASSUME Init PROVE IInv
  OBVIOUS
<1> USE DEF Init
<1>1. RowsTyped /\ UniqueIds
  BY DEF RowsTyped, UniqueIds
<1>2. RequestsTyped
  BY DEF RequestsTyped, Request, Idle
<1>3. Agent
  BY PolicyAssumption DEF Agent, Lists, NoList
<1>4. \A r \in Requests : Checked(requests[r])
  BY DEF Checked, Idle
<1> QED
  BY <1>1, <1>2, <1>3, <1>4 DEF IInv, Tables, InProgress

\* What a request in progress carries, by its kind.
LEMMA RequestKinds ==
    ASSUME RequestsTyped, NEW r \in Requests
    PROVE  /\ requests[r].op = "patch" =>
                /\ requests[r].template \in Templates /\ requests[r].metric \in Metrics
                /\ requests[r].patch \in SentPatches /\ requests[r].read \in Row
           /\ requests[r].op = "defaults" =>
                /\ requests[r].metric \in Metrics
                /\ requests[r].patch \in SentPatches
           /\ requests[r].op = "override" =>
                /\ requests[r].metric \in Metrics
                /\ requests[r].policy \in SentOverrides
  BY DEF RequestsTyped, Request, Idle

\* A request that begins with what it checked, or ends, leaves the others.
LEMMA RequestsKept ==
    ASSUME RequestsTyped, \A r \in Requests : Checked(requests[r]),
           NEW r \in Requests, NEW q \in Request, Checked(q),
           requests' = [requests EXCEPT ![r] = q],
           \A m \in Metrics : catalog[m] # Null => catalog'[m] # Null
    PROVE  RequestsTyped' /\ \A s \in Requests : Checked(requests[s])'
<1>1. RequestsTyped'
  BY DEF RequestsTyped
<1>2. ASSUME NEW s \in Requests PROVE Checked(requests[s])'
  <2>1. Checked(requests'[s]) /\ requests'[s] \in Request
    BY DEF RequestsTyped
  <2>2. requests'[s].op = "defaults" => requests'[s].metric \in Metrics
    BY <1>1, RequestKinds, <2>1 DEF Request, Idle
  <2> QED
    BY <2>1, <2>2 DEF Checked
<1> QED
  BY <1>1, <1>2

LEMMA TablesUnchanged ==
    Tables /\ UNCHANGED stored => Tables'
  BY DEF Tables, stored, RowsTyped, UniqueIds

LEMMA InProgressUnchanged ==
    ASSUME InProgress, UNCHANGED requests,
           \A m \in Metrics : catalog[m] # Null => catalog'[m] # Null
    PROVE  InProgress'
<1>1. RequestsTyped'
  BY DEF InProgress, RequestsTyped
<1>2. ASSUME NEW s \in Requests PROVE Checked(requests[s])'
  BY RequestKinds DEF InProgress, Checked
<1> QED
  BY <1>1, <1>2 DEF InProgress

LEMMA AgentCounted ==
    Agent /\ Counted /\ UNCHANGED <<poll, agentList>> => Agent'
  BY PolicyAssumption DEF Agent, Counted

LEMMA AgentUnchanged ==
    Agent /\ UNCHANGED <<poll, agentList, changes>> => Agent'
  BY DEF Agent

LEMMA BeginKeeps ==
    ASSUME Tables, InProgress, Agent, NEW r \in Requests, NEW q \in Request,
           Checked(q), Begin(r, q)
    PROVE  Tables' /\ InProgress' /\ Agent'
<1>1. Tables'
  BY TablesUnchanged DEF Begin
<1>2. InProgress'
  BY RequestsKept DEF Begin, stored, InProgress
<1>3. Agent'
  BY AgentCounted DEF Begin
<1> QED
  BY <1>1, <1>2, <1>3

LEMMA EndKeeps ==
    ASSUME InProgress, Agent, NEW r \in Requests, End(r),
           UNCHANGED <<poll, agentList, changes>>,
           \A m \in Metrics : catalog[m] # Null => catalog'[m] # Null
    PROVE  InProgress' /\ Agent'
<1>1. Idle \in Request /\ Checked(Idle)
  BY DEF Request, Checked, Idle
<1>2. InProgress'
  BY <1>1, RequestsKept DEF End, InProgress
<1> QED
  BY <1>2, AgentUnchanged

\* The edits that one statement decides.
LEMMA EditStep == IInv /\ Edit => IInv'
<1> SUFFICES ASSUME Tables, InProgress, Agent, Edit PROVE IInv'
  BY DEF IInv
<1> USE DEF Tables
<1>1. ASSUME NEW t \in Templates, AssignTemplate(t) \/ UnassignTemplate(t) PROVE IInv'
  <2>1. Tables'
    BY <1>1 DEF AssignTemplate, UnassignTemplate, RowsTyped, UniqueIds
  <2>2. InProgress' /\ Agent'
    BY <1>1, InProgressUnchanged, AgentCounted DEF AssignTemplate, UnassignTemplate
  <2> QED
    BY <2>1, <2>2 DEF IInv
<1>2. ASSUME NEW m \in Metrics, RemoveOverride(m) PROVE IInv'
  <2>1. Tables'
    BY <1>2 DEF RemoveOverride, RowsTyped, UniqueIds
  <2>2. InProgress' /\ Agent'
    BY <1>2, InProgressUnchanged, AgentCounted DEF RemoveOverride
  <2> QED
    BY <2>1, <2>2 DEF IInv
<1>3. ASSUME NEW m \in Metrics, NEW s \in SentSuggestions, CreateMetric(m, s) PROVE IInv'
  <2>1. s \in Suggestion /\ s # Null
    BY PolicyAssumption
  <2>2. Tables'
    BY <1>3, <2>1 DEF CreateMetric, RowsTyped, UniqueIds
  <2>3. InProgress' /\ Agent'
    BY <1>3, <2>1, InProgressUnchanged, AgentCounted DEF CreateMetric
  <2> QED
    BY <2>2, <2>3 DEF IInv
<1>4. ASSUME NEW t \in Templates, NEW m \in Metrics, RemoveTemplateMetric(t, m) PROVE IInv'
  <2>1. RowsTyped'
    BY <1>4 DEF RemoveTemplateMetric, RowsTyped
  <2>2. \A u \in Templates, n \in Metrics :
           rows'[<<u, n>>] # Null => rows'[<<u, n>>] = rows[<<u, n>>]
    BY <1>4 DEF RemoveTemplateMetric, RowsTyped
  <2>3. UniqueIds'
    BY <2>2 DEF UniqueIds
  <2>4. Tables'
    BY <1>4, <2>1, <2>3 DEF RemoveTemplateMetric
  <2>5. InProgress' /\ Agent'
    BY <1>4, InProgressUnchanged, AgentCounted DEF RemoveTemplateMetric
  <2> QED
    BY <2>4, <2>5 DEF IInv
<1>5. ASSUME NEW t \in Templates, NEW m \in Metrics, NEW p \in SentPolicies,
             AddTemplateMetric(t, m, p)
      PROVE  IInv'
  <2>1. lastId \in Nat /\ lastId' = lastId + 1 /\ p \in Policy
    BY <1>5, PolicyAssumption DEF AddTemplateMetric, RowsTyped
  <2>2. /\ rows'[<<t, m>>] = [id |-> lastId', policy |-> p]
        /\ \A u \in Templates, n \in Metrics :
              <<u, n>> # <<t, m>> => rows'[<<u, n>>] = rows[<<u, n>>]
    BY <1>5 DEF AddTemplateMetric, RowsTyped
  <2>3. [id |-> lastId', policy |-> p] \in Row
    BY <2>1 DEF Row
  <2>4. \A u \in Templates, n \in Metrics : rows[<<u, n>>] # Null => rows[<<u, n>>].id \in 1..lastId
    BY DEF RowsTyped
  <2>5. RowsTyped'
    <3>1. rows' \in [Templates \X Metrics -> Row \cup {Null}]
      BY <1>5, <2>3 DEF AddTemplateMetric, RowsTyped
    <3>2. ASSUME NEW u \in Templates, NEW n \in Metrics, rows'[<<u, n>>] # Null
          PROVE  rows'[<<u, n>>].id \in 1..lastId'
      BY <2>1, <2>2, <2>4, <3>2
    <3> QED
      BY <2>1, <3>1, <3>2 DEF RowsTyped
  <2>6. UniqueIds'
    <3> SUFFICES ASSUME NEW u \in Templates, NEW v \in Templates,
                        NEW n \in Metrics, NEW k \in Metrics,
                        rows'[<<u, n>>] # Null, rows'[<<v, k>>] # Null,
                        rows'[<<u, n>>].id = rows'[<<v, k>>].id
                 PROVE  u = v /\ n = k
      BY DEF UniqueIds
    <3>1. CASE <<u, n>> = <<t, m>> /\ <<v, k>> = <<t, m>>
      BY <3>1
    <3>2. CASE <<u, n>> = <<t, m>> /\ <<v, k>> # <<t, m>>
      BY <2>1, <2>2, <2>4, <3>2
    <3>3. CASE <<u, n>> # <<t, m>> /\ <<v, k>> = <<t, m>>
      BY <2>1, <2>2, <2>4, <3>3
    <3>4. CASE <<u, n>> # <<t, m>> /\ <<v, k>> # <<t, m>>
      BY <2>2, <3>4 DEF UniqueIds
    <3> QED
      BY <3>1, <3>2, <3>3, <3>4
  <2>7. Tables'
    BY <1>5, <2>5, <2>6 DEF AddTemplateMetric
  <2>8. InProgress' /\ Agent'
    BY <1>5, InProgressUnchanged, AgentCounted DEF AddTemplateMetric
  <2> QED
    BY <2>7, <2>8 DEF IInv
<1>6. ASSUME NEW team \in Teams \cup {Null}, UpdateTarget(team) PROVE IInv'
  <2>1. Tables'
    BY <1>6 DEF UpdateTarget, RowsTyped, UniqueIds
  <2>2. InProgress' /\ Agent'
    BY <1>6, InProgressUnchanged, AgentCounted DEF UpdateTarget
  <2> QED
    BY <2>1, <2>2 DEF IInv
<1> QED
  BY <1>1, <1>2, <1>3, <1>4, <1>5, <1>6 DEF Edit

\* The checks before a request writes.
LEMMA ReadStep == ASSUME IInv, NEW r \in Requests, Read(r) PROVE IInv'
<1> USE DEF IInv
<1>1. ASSUME NEW t \in Templates, NEW m \in Metrics, NEW patch \in SentPatches,
             BeginUpdateTemplateMetric(r, t, m, patch)
      PROVE  IInv'
  <2> DEFINE q == [op |-> "patch", template |-> t, metric |-> m, patch |-> patch,
                   read |-> rows[<<t, m>>]]
  <2>1. rows[<<t, m>>] \in Row
    BY <1>1 DEF BeginUpdateTemplateMetric, Tables, RowsTyped
  <2>2. q \in Request
    BY <2>1 DEF Request
  <2>3. Checked(q) /\ Begin(r, q)
    BY <1>1 DEF BeginUpdateTemplateMetric, Checked
  <2> HIDE DEF q
  <2> QED
    BY <2>2, <2>3, BeginKeeps
<1>2. ASSUME NEW m \in Metrics, NEW patch \in SentPatches,
             BeginUpdateMetricDefaults(r, m, patch)
      PROVE  IInv'
  <2> DEFINE q == [op |-> "defaults", metric |-> m, patch |-> patch, read |-> catalog[m]]
  <2>1. catalog[m] \in Suggestion
    BY <1>2 DEF BeginUpdateMetricDefaults, Tables
  <2>2. q \in Request
    BY <2>1 DEF Request
  <2>3. Checked(q) /\ Begin(r, q)
    BY <1>2 DEF BeginUpdateMetricDefaults, Checked
  <2> HIDE DEF q
  <2> QED
    BY <2>2, <2>3, BeginKeeps
<1>3. ASSUME NEW m \in Metrics, NEW p \in SentOverrides, BeginSetOverride(r, m, p)
      PROVE  IInv'
  <2> DEFINE q == [op |-> "override", metric |-> m, policy |-> p]
  <2>1. q \in Request
    BY DEF Request
  <2>2. Checked(q) /\ Begin(r, q)
    BY <1>3 DEF BeginSetOverride, Checked
  <2> HIDE DEF q
  <2> QED
    BY <2>1, <2>2, BeginKeeps
<1> QED
  BY <1>1, <1>2, <1>3 DEF Read

\* A patch that is written finds its row, or none; nothing else of the tables
\* changes.
LEMMA PatchWrites ==
    ASSUME Tables, InProgress, NEW r \in Requests, UpdateTemplateMetric(r)
    PROVE  /\ requests[r].template \in Templates /\ requests[r].metric \in Metrics
           /\ requests[r].patch \in SentPatches /\ requests[r].read \in Row
           /\ \A t \in Templates, m \in Metrics :
                 LET old == rows[<<t, m>>]
                     new == rows'[<<t, m>>]
                 IN /\ old = Null => new = Null
                    /\ old # Null => new \in Row /\ new.id = old.id
                    /\ new # old =>
                          /\ t = requests[r].template /\ m = requests[r].metric
                          /\ old # Null
                          /\ new.policy = Merged(old.policy, requests[r].patch)
<1> DEFINE q == requests[r]
           k == <<q.template, q.metric>>
<1>1. /\ q.template \in Templates /\ q.metric \in Metrics
      /\ q.patch \in SentPatches /\ q.read \in Row
  BY RequestKinds DEF UpdateTemplateMetric, InProgress
<1>2. rows' = [rows EXCEPT ![k] = Patched(rows[k], q.patch)]
  BY DEF UpdateTemplateMetric
<1>3. rows \in [Templates \X Metrics -> Row \cup {Null}]
  BY DEF Tables, RowsTyped
<1>4. /\ rows[k] = Null => Patched(rows[k], q.patch) = Null
      /\ rows[k] # Null =>
            /\ Patched(rows[k], q.patch) \in Row
            /\ Patched(rows[k], q.patch).id = rows[k].id
            /\ Patched(rows[k], q.patch).policy = Merged(rows[k].policy, q.patch)
  <2>1. rows[k] = Null => Patched(rows[k], q.patch) = Null
    BY DEF Patched
  <2>2. rows[k] \in Row \cup {Null}
    BY <1>1, <1>3
  <2> HIDE DEF k, q
  <2> QED
    BY <1>1, <2>1, <2>2, PatchedRow
<1> HIDE DEF q
<1>5. ASSUME NEW t \in Templates, NEW m \in Metrics
      PROVE  LET old == rows[<<t, m>>]
                 new == rows'[<<t, m>>]
             IN /\ old = Null => new = Null
                /\ old # Null => new \in Row /\ new.id = old.id
                /\ new # old =>
                      /\ t = q.template /\ m = q.metric
                      /\ old # Null
                      /\ new.policy = Merged(old.policy, q.patch)
  <2>1. CASE <<t, m>> = k
    <3>1. rows'[<<t, m>>] = Patched(rows[k], q.patch) /\ rows[<<t, m>>] = rows[k]
      BY <1>2, <1>3, <2>1
    <3>2. t = q.template /\ m = q.metric
      BY <2>1
    <3> HIDE DEF k
    <3> QED
      BY <1>4, <3>1, <3>2
  <2>2. CASE <<t, m>> # k
    BY <1>2, <1>3, <2>2
  <2> QED
    BY <2>1, <2>2
<1> QED
  BY <1>1, <1>5 DEF q

LEMMA WriteStep == ASSUME IInv, NEW r \in Requests, Write(r) PROVE IInv'
<1> USE DEF IInv
<1>1. ASSUME UpdateTemplateMetric(r) PROVE IInv'
  <2>1. \A t \in Templates, m \in Metrics :
           /\ rows[<<t, m>>] = Null => rows'[<<t, m>>] = Null
           /\ rows[<<t, m>>] # Null =>
                 rows'[<<t, m>>] \in Row /\ rows'[<<t, m>>].id = rows[<<t, m>>].id
    BY <1>1, PatchWrites
  <2>2. lastId' = lastId /\ DOMAIN rows' = DOMAIN rows /\ rows' = [k \in DOMAIN rows' |-> rows'[k]]
    BY <1>1 DEF UpdateTemplateMetric, Tables, RowsTyped
  <2>3. RowsTyped'
    BY <2>1, <2>2 DEF Tables, RowsTyped
  <2>4. UniqueIds'
    BY <2>1 DEF UniqueIds, Tables
  <2>5. Tables'
    BY <1>1, <2>3, <2>4 DEF UpdateTemplateMetric, Tables
  <2>6. InProgress' /\ Agent'
    BY <1>1, EndKeeps DEF UpdateTemplateMetric
  <2> QED
    BY <2>5, <2>6
<1>2. ASSUME UpdateMetricDefaults(r) PROVE IInv'
  <2> DEFINE q == requests[r]
             new == MergedDefaults(catalog[q.metric], q.patch)
  <2>1. q.metric \in Metrics /\ q.patch \in SentPatches /\ catalog[q.metric] # Null
    BY <1>2, RequestKinds DEF UpdateMetricDefaults, InProgress, Checked
  <2>2. catalog[q.metric] \in Suggestion
    BY <2>1 DEF Tables
  <2>3. new \in Suggestion
    BY <2>1, <2>2, MergedSuggestion
  <2>4. new # Null
    BY <2>3, PolicyAssumption
  <2>5. catalog' = [catalog EXCEPT ![q.metric] = new]
    BY <1>2 DEF UpdateMetricDefaults
  <2> HIDE DEF q, new
  <2>6. Tables'
    <3>1. catalog' \in [Metrics -> Suggestion \cup {Null}]
      BY <2>3, <2>5 DEF Tables
    <3>2. RowsTyped' /\ UniqueIds'
      BY <1>2 DEF UpdateMetricDefaults, Tables, RowsTyped, UniqueIds
    <3> QED
      BY <1>2, <3>1, <3>2 DEF UpdateMetricDefaults, Tables
  <2>7. InProgress' /\ Agent'
    BY <1>2, <2>4, <2>5, EndKeeps DEF UpdateMetricDefaults, Tables
  <2> QED
    BY <2>6, <2>7
<1>3. ASSUME SetOverride(r) PROVE IInv'
  <2> DEFINE q == requests[r]
  <2>1. q.metric \in Metrics /\ q.policy \in SentOverrides /\ Valid(q.policy)
    BY <1>3, RequestKinds DEF SetOverride, InProgress, Checked
  <2>2. overrides' = [overrides EXCEPT ![q.metric] = q.policy]
    BY <1>3 DEF SetOverride
  <2> HIDE DEF q
  <2>3. Tables'
    <3>1. overrides' \in [Metrics -> SentOverrides \cup {Null}]
      BY <2>1, <2>2 DEF Tables
    <3>2. \A m \in Metrics : overrides'[m] # Null => Valid(overrides'[m])
      BY <2>1, <2>2 DEF Tables
    <3>3. RowsTyped' /\ UniqueIds'
      BY <1>3 DEF SetOverride, Tables, RowsTyped, UniqueIds
    <3>4. catalog' = catalog /\ assigned' = assigned /\ targetTeam' = targetTeam
      BY <1>3 DEF SetOverride
    <3> QED
      BY <3>1, <3>2, <3>3, <3>4 DEF Tables
  <2>4. InProgress' /\ Agent'
    BY <1>3, EndKeeps DEF SetOverride
  <2> QED
    BY <2>3, <2>4
<1> QED
  BY <1>1, <1>2, <1>3 DEF Write

\* What the agent is told is typed, whatever two reads of one poll saw.
LEMMA PollKeeps ==
    ASSUME IInv, PollStep \/ PollLost \/ AgentRestart PROVE IInv'
<1>1. Tables' /\ InProgress'
  BY TablesUnchanged, InProgressUnchanged
     DEF IInv, PollStep, PollReadsTemplates, PollReadsOverrides, PollAnswered, PollLost,
         AgentRestart, stored
<1>2. ASSUME PollReadsTemplates PROVE Agent'
  <2>1. ASSUME NEW m \in Metrics, Reachable(m) PROVE TemplateDefault(m).interval \in Nat \ {0}
    BY <2>1, DefaultType DEF IInv, Tables, Policy
  <2>2. [m \in Metrics |-> IF Reachable(m) THEN TemplateDefault(m).interval ELSE Null] \in Lists
    BY <2>1 DEF Lists
  <2> QED
    BY <1>2, <2>2 DEF PollReadsTemplates, IInv, Agent
<1>3. ASSUME PollReadsOverrides PROVE Agent'
  <2>1. poll.list \in Lists
    BY <1>3 DEF PollReadsOverrides, IInv, Agent, Idle
  <2>2. ASSUME NEW m \in Metrics, overrides[m] # Null PROVE overrides[m].interval \in Nat \ {0}
    BY <2>2, PolicyAssumption DEF IInv, Tables, Policy
  <2>3. [m \in Metrics |-> IF poll.list[m] # Null /\ overrides[m] # Null
                           THEN overrides[m].interval ELSE poll.list[m]] \in Lists
    BY <2>1, <2>2 DEF Lists
  <2> QED
    BY <1>3, <2>3 DEF PollReadsOverrides, IInv, Agent
<1>4. ASSUME PollAnswered PROVE Agent'
  BY <1>4 DEF PollAnswered, IInv, Agent, Idle
<1>5. ASSUME PollLost PROVE Agent'
  BY <1>5 DEF PollLost, IInv, Agent
<1>6. ASSUME AgentRestart PROVE Agent'
  BY <1>6, PolicyAssumption DEF AgentRestart, IInv, Agent, Counted, NoList, Lists
<1> QED
  BY <1>1, <1>2, <1>3, <1>4, <1>5, <1>6 DEF IInv, PollStep

LEMMA IInvStep == IInv /\ [Next]_vars => IInv'
<1> SUFFICES ASSUME IInv, [Next]_vars PROVE IInv'
  OBVIOUS
<1>1. CASE UNCHANGED vars
  BY <1>1, TablesUnchanged, InProgressUnchanged, AgentUnchanged DEF IInv, vars, stored
<1> QED
  BY <1>1, EditStep, ReadStep, WriteStep, PollKeeps DEF Next

-----------------------------------------------------------------------------
(* Resolution: theorems of the specification. *)

LEMMA Invariant == Spec => []IInv
  BY IInvInit, IInvStep, PTL DEF Spec

\* Type correctness of the tables, the requests in progress, the poll and the
\* agent's list, for every number of templates, metrics, editors and policies.
THEOREM TypeCorrect == Spec => []TypeOK
<1>1. IInv => TypeOK
  BY DEF IInv, Tables, InProgress, Agent, TypeOK
<1> QED
  BY <1>1, Invariant, PTL

\* Saving the form of a customization as it opened changes nothing for the
\* target, in every state the program reaches.
THEOREM CustomizingKeeps == Spec => []CustomizingKeepsPolicy
<1>1. IInv => CustomizingKeepsPolicy
  <2> SUFFICES ASSUME IInv, NEW m \in Metrics, Reachable(m),
                      NEW team \in Teams \cup {Null}
               PROVE  ResolvePolicy(TemplateDefault(m), Submitted(CustomForm(m)), team)
                          = ResolvePolicy(TemplateDefault(m), overrides[m], team)
    BY DEF CustomizingKeepsPolicy
  <2>1. TemplateDefault(m) \in Policy
    BY DefaultType DEF IInv, Tables
  <2>2. overrides[m] \in Policy \cup {Null} /\ targetTeam \in Teams \cup {Null}
    BY PolicyAssumption DEF IInv, Tables
  <2> QED
    BY <2>1, <2>2, CustomizingChangesNothing
<1> QED
  BY <1>1, Invariant, PTL

\* Every customized policy has both its levels within reach and in order, and
\* its alerts quote what was breached, since setOverride checked it and nothing
\* else writes it.
THEOREM CustomizedInOrder == Spec => []CustomizedLevelsInOrder
<1>1. ASSUME NEW p \in Policy, Valid(p), p.warning # NoThreshold, p.critical # NoThreshold,
             p.condition # "eq", NEW level \in Levels
      PROVE  \E v \in Around(p) : Judged(p, v) = level
  <2>1. /\ p.condition \in Conditions /\ p.warning \in Int /\ p.critical \in Int
        /\ ValidThresholds(p.condition, p.warning, p.critical)
    BY <1>1 DEF Policy, Thresholds, Valid
  <2>2. PICK v \in UNION {{x - 1, x, x + 1} : x \in {p.warning, p.critical}} :
           LevelOf(v, p.condition, p.warning, p.critical) = level
    BY <1>1, <2>1, LevelsReachable
  <2>3. {p.warning, p.critical} = {p.warning, p.critical} \ {NoThreshold}
    BY <1>1
  <2>4. v \in Around(p)
    BY <2>3 DEF Around
  <2> QED
    BY <2>2, <2>4 DEF Judged
<1>2. ASSUME NEW p \in Policy, NEW v \in Int, NEW u \in Int
      PROVE  /\ p.condition \in {"gt", "gte"} /\ v >= u => Rank(Judged(p, v)) >= Rank(Judged(p, u))
             /\ p.condition \in {"lt", "lte"} /\ v <= u => Rank(Judged(p, v)) >= Rank(Judged(p, u))
  <2>1. p.warning \in Thresholds /\ p.critical \in Thresholds
    BY DEF Policy
  <2>2. ASSUME NEW t \in Thresholds
        PROVE  /\ p.condition \in {"gt", "gte"} /\ v >= u /\ Trips(u, p.condition, t)
                     => Trips(v, p.condition, t)
               /\ p.condition \in {"lt", "lte"} /\ v <= u /\ Trips(u, p.condition, t)
                     => Trips(v, p.condition, t)
    BY DEF Trips, Breaches, Thresholds
  <2>3. Judged(p, v) \in {"critical", "warning", NoLevel}
    BY DEF Judged, LevelOf
  <2>4. Rank("critical") = 2 /\ Rank("warning") = 1 /\ Rank(NoLevel) = 0
    BY DEF Rank, NoLevel
  <2> QED
    BY <2>1, <2>2, <2>4, SMTT(30) DEF Judged, LevelOf
<1>3. ASSUME NEW p \in Policy, NEW v \in Int, Judged(p, v) # NoLevel
      PROVE  Breaches(v, p.condition, QuotedThreshold(Judged(p, v), p.warning, p.critical))
  BY <1>3, QuotedThresholdBreached DEF Policy, Judged
<1>4. ASSUME NEW p \in Policy PROVE Around(p) \subseteq Int
  BY DEF Policy, Around, Thresholds
<1>5. IInv => CustomizedLevelsInOrder
  <2> SUFFICES ASSUME IInv, NEW m \in Metrics, overrides[m] # Null
               PROVE  LET p == overrides[m] IN
                      /\ p.warning # NoThreshold /\ p.critical # NoThreshold /\ p.condition # "eq" =>
                            \A level \in Levels : \E v \in Around(p) : Judged(p, v) = level
                      /\ \A v, u \in Around(p) :
                            /\ p.condition \in {"gt", "gte"} /\ v >= u
                                  => Rank(Judged(p, v)) >= Rank(Judged(p, u))
                            /\ p.condition \in {"lt", "lte"} /\ v <= u
                                  => Rank(Judged(p, v)) >= Rank(Judged(p, u))
                      /\ \A v \in Around(p) :
                            Judged(p, v) # NoLevel =>
                                Breaches(v, p.condition,
                                         QuotedThreshold(Judged(p, v), p.warning, p.critical))
    BY Zenon DEF CustomizedLevelsInOrder
  <2>1. overrides[m] \in Policy /\ Valid(overrides[m])
    BY PolicyAssumption DEF IInv, Tables
  <2>2. Around(overrides[m]) \subseteq Int
    BY <2>1, <1>4
  <2> QED
    BY <2>1, <2>2, <1>1, <1>2, <1>3
<1> QED
  BY <1>5, Invariant, PTL

\* What a step does to the rows of templates: ids stay, a new row has a new id
\* and a valid policy, and a policy changes by a validated patch only.
LEMMA RowsStep ==
    ASSUME IInv, [Next]_vars, NEW t \in Templates, NEW m \in Metrics,
           rows'[<<t, m>>] # rows[<<t, m>>], rows'[<<t, m>>] # Null
    PROVE  /\ rows[<<t, m>>] = Null =>
                 rows'[<<t, m>>].id = lastId + 1 /\ Valid(rows'[<<t, m>>].policy)
           /\ rows[<<t, m>>] # Null =>
                 /\ rows'[<<t, m>>].id = rows[<<t, m>>].id
                 /\ \E r \in Requests :
                       /\ UpdateTemplateMetric(r)
                       /\ rows'[<<t, m>>].policy = Merged(rows[<<t, m>>].policy, requests[r].patch)
<1>1. rows \in [Templates \X Metrics -> Row \cup {Null}]
  BY DEF IInv, Tables, RowsTyped
<1>2. rows' # rows
  OBVIOUS
<1>3. \/ \E u \in Templates, n \in Metrics : RemoveTemplateMetric(u, n)
      \/ \E u \in Templates, n \in Metrics, p \in SentPolicies : AddTemplateMetric(u, n, p)
      \/ \E r \in Requests : UpdateTemplateMetric(r)
  BY <1>2, Zenon
     DEF Next, vars, stored, Edit, Read, Write, PollStep, AssignTemplate, UnassignTemplate, RemoveOverride,
         CreateMetric, UpdateTarget, BeginUpdateTemplateMetric, BeginUpdateMetricDefaults,
         BeginSetOverride, Begin, UpdateMetricDefaults, SetOverride, PollReadsTemplates,
         PollReadsOverrides, PollAnswered, PollLost, AgentRestart
<1>4. ASSUME NEW u \in Templates, NEW n \in Metrics, RemoveTemplateMetric(u, n) PROVE FALSE
  BY <1>1, <1>4 DEF RemoveTemplateMetric
<1>5. ASSUME NEW u \in Templates, NEW n \in Metrics, NEW p \in SentPolicies,
             AddTemplateMetric(u, n, p)
      PROVE  /\ rows[<<t, m>>] = Null
             /\ rows'[<<t, m>>].id = lastId + 1 /\ Valid(rows'[<<t, m>>].policy)
  BY <1>1, <1>5 DEF AddTemplateMetric
<1>6. ASSUME NEW r \in Requests, UpdateTemplateMetric(r)
      PROVE  /\ rows[<<t, m>>] # Null
             /\ rows'[<<t, m>>].id = rows[<<t, m>>].id
             /\ rows'[<<t, m>>].policy = Merged(rows[<<t, m>>].policy, requests[r].patch)
  BY <1>6, PatchWrites DEF IInv
<1> QED
  BY <1>3, <1>4, <1>5, <1>6

\* A policy gets its thresholds out of order only by a patch that was validated
\* against a row that has changed since.
THEOREM InvalidByStalePatch == Spec => InvalidOnlyByStalePatch
<1>1. ASSUME IInv, [Next]_vars, NEW t \in Templates, NEW m \in Metrics,
             rows'[<<t, m>>] # Null, ~Valid(rows'[<<t, m>>].policy),
             rows[<<t, m>>] # Null => Valid(rows[<<t, m>>].policy)
      PROVE  \E r \in Requests :
                requests[r] # Idle /\ requests'[r] = Idle /\ requests[r].op = "patch"
                /\ requests[r].read # rows[<<t, m>>]
  <2>1. rows'[<<t, m>>] # rows[<<t, m>>]
    BY <1>1
  <2>2. PICK r \in Requests :
           /\ UpdateTemplateMetric(r)
           /\ rows'[<<t, m>>].policy = Merged(rows[<<t, m>>].policy, requests[r].patch)
    BY <1>1, <2>1, RowsStep
  <2>3. requests[r].op = "patch" /\ requests'[r] = Idle
    BY <1>1, <2>2 DEF UpdateTemplateMetric, End, IInv, InProgress, RequestsTyped
  <2>4. Valid(Merged(requests[r].read.policy, requests[r].patch))
    BY <1>1, <2>3 DEF IInv, InProgress, Checked
  <2>5. requests[r].read # rows[<<t, m>>]
    BY <1>1, <2>2, <2>4
  <2> QED
    BY <2>3, <2>5 DEF Idle
<1>2. IInv /\ [Next]_vars =>
         [\A t \in Templates, m \in Metrics :
             /\ rows'[<<t, m>>] # Null /\ ~Valid(rows'[<<t, m>>].policy)
             /\ rows[<<t, m>>] # Null => Valid(rows[<<t, m>>].policy)
             => \E r \in Requests :
                   requests[r] # Idle /\ requests'[r] = Idle /\ requests[r].op = "patch"
                   /\ requests[r].read # rows[<<t, m>>]]_vars
  BY <1>1, Zenon
<1> QED
  BY <1>2, Invariant, PTL DEF Spec, InvalidOnlyByStalePatch

\* The lowest id decides, and ids are unique.
LEMMA LowestIsChosen ==
    ASSUME NEW S, NEW m, NEW t \in S, NEW row,
           \A u \in S \ {t} : row[<<u, m>>].id \in Nat /\ row[<<t, m>>].id < row[<<u, m>>].id,
           row[<<t, m>>].id \in Nat
    PROVE  (CHOOSE s \in S : \A u \in S : row[<<s, m>>].id <= row[<<u, m>>].id) = t
<1> DEFINE Lowest(s) == \A u \in S : row[<<s, m>>].id <= row[<<u, m>>].id
<1>1. Lowest(t)
  <2>1. row[<<t, m>>].id <= row[<<t, m>>].id
    OBVIOUS
  <2>2. ASSUME NEW u \in S \ {t} PROVE row[<<t, m>>].id <= row[<<u, m>>].id
    OBVIOUS
  <2> QED
    BY <2>1, <2>2
<1>2. ASSUME NEW s \in S, Lowest(s) PROVE s = t
  <2> SUFFICES ASSUME s # t PROVE FALSE
    OBVIOUS
  <2>1. row[<<s, m>>].id <= row[<<t, m>>].id
    BY <1>2
  <2>2. row[<<s, m>>].id \in Nat /\ row[<<t, m>>].id < row[<<s, m>>].id
    OBVIOUS
  <2> QED
    BY <2>1, <2>2
<1> HIDE DEF Lowest
<1>3. (CHOOSE s \in S : Lowest(s)) = t
  BY <1>1, <1>2
<1> QED
  BY <1>3, Zenon DEF Lowest

\* A source that keeps its row while the same templates are assigned stays the
\* source: what is added meanwhile has a higher id.
LEMMA SourceStays ==
    ASSUME IInv, [Next]_vars, NEW m \in Metrics, Reachable(m), assigned' = assigned,
           rows'[<<Source(m), m>>] = rows[<<Source(m), m>>]
    PROVE  Source(m)' = Source(m)
<1> DEFINE s == Source(m)
<1>1. s \in Providers(m) /\ \A u \in Providers(m) : rows[<<s, m>>].id <= rows[<<u, m>>].id
  BY SourceIsLowest DEF IInv, Tables
<1>2. /\ assigned \subseteq Templates
      /\ \A t \in Templates : rows[<<t, m>>] # Null => rows[<<t, m>>].id \in 1..lastId
      /\ lastId \in Nat
  BY DEF IInv, Tables, RowsTyped
<1> HIDE DEF s
<1>3. s \in assigned /\ rows[<<s, m>>] # Null
  BY <1>1 DEF Providers
<1>4. rows'[<<s, m>>] = rows[<<s, m>>]
  BY DEF s
<1>5. s \in Providers(m)'
  BY <1>3, <1>4 DEF Providers
<1>6. rows'[<<s, m>>].id \in Nat /\ rows'[<<s, m>>].id <= lastId
  BY <1>2, <1>3, <1>4
<1>7. ASSUME NEW u \in Providers(m)' \ {s}
      PROVE  rows'[<<u, m>>].id \in Nat /\ rows'[<<s, m>>].id < rows'[<<u, m>>].id
  <2>1. u \in Templates /\ u \in assigned /\ rows'[<<u, m>>] # Null
    BY <1>2 DEF Providers
  <2>2. CASE rows[<<u, m>>] = Null
    <3>1. rows'[<<u, m>>].id = lastId + 1
      BY <2>1, <2>2, RowsStep
    <3> QED
      BY <1>2, <1>6, <3>1
  <2>3. CASE rows[<<u, m>>] # Null
    <3>1. rows'[<<u, m>>].id = rows[<<u, m>>].id
      BY <2>1, <2>3, RowsStep
    <3>2. rows[<<s, m>>].id <= rows[<<u, m>>].id
      BY <1>1, <2>1, <2>3 DEF Providers
    <3>3. rows[<<s, m>>].id # rows[<<u, m>>].id
      BY <1>2, <1>3, <2>1, <2>3 DEF IInv, Tables, UniqueIds
    <3>4. rows[<<s, m>>].id \in Nat /\ rows[<<u, m>>].id \in Nat
      BY <1>2, <1>3, <2>1, <2>3
    <3> QED
      BY <1>4, <3>1, <3>2, <3>3, <3>4
  <2> QED
    BY <2>2, <2>3
<1>8. (CHOOSE t \in Providers(m)' :
          \A u \in Providers(m)' : rows'[<<t, m>>].id <= rows'[<<u, m>>].id) = s
  BY <1>5, <1>6, <1>7, LowestIsChosen
<1> QED
  BY <1>8, Zenon DEF Source, s

\* A customized policy hides the template's, all but the team it leaves open.
LEMMA OverrideReplaces ==
    ASSUME NEW override \in Policy, NEW default, NEW team
    PROVE  /\ [ResolvePolicy(default, override, team) EXCEPT !.team = Null]
                  = [override EXCEPT !.team = Null]
           /\ override.team # Null => ResolvePolicy(default, override, team).team = override.team
<1> DEFINE own == Or(override.team, Or(team, default.team))
<1>1. override # Null
  BY PolicyAssumption
<1>2. ResolvePolicy(default, override, team) = [override EXCEPT !.team = own]
  BY <1>1 DEF ResolvePolicy, Or
<1>3. override.team # Null => own = override.team
  BY DEF Or
<1> HIDE DEF own
<1>4. [[override EXCEPT !.team = own] EXCEPT !.team = Null] = [override EXCEPT !.team = Null]
  BY DEF Policy
<1>5. [override EXCEPT !.team = own].team = own
  BY DEF Policy
<1> QED
  BY <1>2, <1>3, <1>4, <1>5

\* The policy in force changes only with the row it comes from, its
\* customization, the templates assigned or the target's team.
THEOREM PolicyChangesAtItsSource == Spec => ChangesOnlyAtItsSource
<1>1. ASSUME IInv, [Next]_vars, NEW m \in Metrics, Reachable(m),
             overrides'[m] = overrides[m], targetTeam' = targetTeam,
             assigned' = assigned, rows'[<<Source(m), m>>] = rows[<<Source(m), m>>]
      PROVE  Effective(m)' = Effective(m)
  <2>1. Source(m)' = Source(m)
    BY <1>1, SourceStays
  <2>2. TemplateDefault(m)' = TemplateDefault(m)
    BY <1>1, <2>1, Zenon DEF TemplateDefault
  <2> QED
    BY <1>1, <2>2, Zenon DEF Effective
<1>2. ASSUME IInv, NEW m \in Metrics, overrides[m] # Null,
             overrides'[m] = overrides[m], targetTeam' = targetTeam
      PROVE  /\ [Effective(m) EXCEPT !.team = Null]' = [Effective(m) EXCEPT !.team = Null]
             /\ overrides[m].team # Null => Effective(m).team' = overrides[m].team
  <2>1. overrides[m] \in Policy
    BY <1>2, PolicyAssumption DEF IInv, Tables
  <2>2. ASSUME NEW e, NEW default, NEW team, e = ResolvePolicy(default, overrides[m], team)
        PROVE  /\ [e EXCEPT !.team = Null] = [overrides[m] EXCEPT !.team = Null]
               /\ overrides[m].team # Null => e.team = overrides[m].team
    BY <2>1, <2>2, OverrideReplaces
  <2>3. /\ Effective(m) = ResolvePolicy(TemplateDefault(m), overrides[m], targetTeam)
        /\ Effective(m)' = ResolvePolicy(TemplateDefault(m)', overrides[m], targetTeam)
    BY <1>2 DEF Effective, ResolvePolicy, Or
  <2> QED
    BY <2>2, <2>3, Zenon
<1>3. IInv /\ [Next]_vars =>
         \A m \in Metrics :
            LET s == Source(m) IN
            /\ Reachable(m) /\ Reachable(m)'
            /\ overrides'[m] = overrides[m] /\ targetTeam' = targetTeam
            => /\ assigned' = assigned /\ rows'[<<s, m>>] = rows[<<s, m>>]
                     => Effective(m)' = Effective(m)
               /\ overrides[m] # Null =>
                     /\ [Effective(m) EXCEPT !.team = Null]' = [Effective(m) EXCEPT !.team = Null]
                     /\ overrides[m].team # Null => Effective(m).team' = overrides[m].team
  BY <1>1, <1>2, Zenon
<1> QED
  BY <1>3, Invariant, PTL DEF Spec, ChangesOnlyAtItsSource
=============================================================================
