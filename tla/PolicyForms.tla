----------------------------- MODULE PolicyForms -----------------------------
(***************************************************************************)
(* The forms in which editors write policies: TemplateMetricForm.vue, for  *)
(* a metric of a template or customized for a target, MetricDefaultsForm   *)
(* .vue, for the suggestions of the catalog, MetricOverrideForm.vue, and   *)
(* the rule for thresholds they mirror (utils/policy.ts).  An input keeps  *)
(* what was typed while its level is switched off.  An empty input is the  *)
(* unset threshold.                                                        *)
(***************************************************************************)
EXTENDS PolicyResolution

Inputs == [typed : Policy, warningOn : BOOLEAN, criticalOn : BOOLEAN]

\* "A level is on when it starts with a value."
Form(policy) ==
    [typed |-> policy,
     warningOn |-> policy.warning # NoThreshold, criticalOn |-> policy.critical # NoThreshold]

\* A metric that is added to a template starts from the catalog's suggestion.
FromCatalog(suggestion) ==
    Form([condition |-> Or(suggestion.condition, "gt"), warning |-> suggestion.warning,
          critical |-> suggestion.critical, interval |-> Or(suggestion.interval, 60), team |-> Null])

\* Mutant: the team starts as the one that applies.
MutantCustomForm(m) == Form(Effective(m))

\* "Starts from the policy the resource uses now. The team starts blank unless
\* it was customized, so the resource's own team keeps applying."
CustomForm(m) ==
    Form([Effective(m) EXCEPT !.team = IF overrides[m] = Null THEN Null ELSE overrides[m].team])

-----------------------------------------------------------------------------

\* Switching the last level off suggests a 5-minute interval.
Switched(form, warningOn, criticalOn) ==
    [typed |-> IF (form.warningOn \/ form.criticalOn) /\ ~warningOn /\ ~criticalOn
               THEN [form.typed EXCEPT !.interval = 300] ELSE form.typed,
     warningOn |-> warningOn, criticalOn |-> criticalOn]

Sent(on, typed) == IF on THEN typed ELSE NoThreshold

SentWarning(form) == Sent(form.warningOn, form.typed.warning)
SentCritical(form) == Sent(form.criticalOn, form.typed.critical)

\* Nothing in the way of saving (thresholdProblem).
NoProblem(form) ==
    LET warning == SentWarning(form)
        critical == SentCritical(form)
        both == warning # NoThreshold /\ critical # NoThreshold
    IN /\ form.warningOn => warning # NoThreshold
       /\ form.criticalOn => critical # NoThreshold
       /\ both /\ form.typed.condition \in {"gt", "gte"} => ~(warning >= critical)
       /\ both /\ form.typed.condition \in {"lt", "lte"} => ~(warning <= critical)

Submitted(form) ==
    [form.typed EXCEPT !.warning = SentWarning(form), !.critical = SentCritical(form)]

\* MetricDefaultsForm has the same levels, a condition is always chosen and
\* the interval is not asked for: what it submits is a patch.
SubmittedDefaults(suggestion) ==
    LET form == FromCatalog(suggestion)
    IN [condition |-> form.typed.condition, warning |-> SentWarning(form), critical |-> SentCritical(form)]

-----------------------------------------------------------------------------

\* Saving a metric's form as it opened, to customize it or once more, changes
\* nothing for the target, neither now nor when its team changes later: "The
\* team starts blank unless it was customized, so the resource's own team keeps
\* applying" (MetricOverrideForm.vue:16-17), although the page has the resolved
\* policy only.
CustomizingKeepsPolicy ==
    \A m \in Metrics : Reachable(m) /\ NoProblem(CustomForm(m)) =>
        \A team \in Teams \cup {Null} :
            ResolvePolicy(TemplateDefault(m), Submitted(CustomForm(m)), team)
                = ResolvePolicy(TemplateDefault(m), overrides[m], team)
=============================================================================
