----------------------------- MODULE SpendAnalytics -----------------------------
(***************************************************************************)
(* Spend records and their dashboard (services/cost_service.py,             *)
(* api/v1/analytics.py).  A dashboard reads all records three times, once   *)
(* for each breakdown, and records are committed in between.                *)
(***************************************************************************)
EXTENDS Integers, FiniteSets

CONSTANTS
    SpendProjects, Models, Days,   \* what records are grouped by
    NoProject,                \* project_id is NULL: a group of its own
    MaxSpend                  \* bound: records

ASSUME SpendAssumption == NoProject \notin SpendProjects /\ MaxSpend \in Nat

VARIABLES
    spend,       \* the records
    dashboard    \* the dashboard being made, or the last one

spendVars == <<spend, dashboard>>

Nothing == [step |-> "none"]

SpendInit == spend = {} /\ dashboard = Nothing

RecordSpend ==
    /\ Cardinality(spend) < MaxSpend
    /\ \E p \in SpendProjects \cup {NoProject}, m \in Models, d \in Days :
          spend' = spend \cup {[id |-> Cardinality(spend) + 1, project |-> p, model |-> m, date |-> d]}
    /\ UNCHANGED dashboard

\* _matches_filters, as far as the dashboard uses it: NoProject filters nothing.
Matching(project) == {r \in spend : project = NoProject \/ r.project = project}

\* Mutant: a record without a project falls out of the groups.
Grouped_Skipping(records, key) ==
    [g \in {r[key] : r \in records} \ {NoProject} |-> Cardinality({r \in records : r[key] = g})]

\* summarize_spend: the number of calls in each group
Grouped(records, key) ==
    [g \in {r[key] : r \in records} |-> Cardinality({r \in records : r[key] = g})]

\* The sum over the groups: one pair for each call.
Calls(groups) == Cardinality(UNION {{g} \X (1 .. groups[g]) : g \in DOMAIN groups})

\* before: history, the records that were there when the request came
AskDashboard ==
    /\ dashboard.step \in {"none", "done"}
    /\ \E project \in SpendProjects \cup {NoProject} :
          dashboard' = [step |-> "project", filter |-> project, before |-> Matching(project)]
    /\ UNCHANGED spend

\* One SELECT for each breakdown; the first one also gives the summary.
ReadBreakdown(key, next) ==
    /\ dashboard.step = key
    /\ dashboard' = [f \in DOMAIN dashboard \cup {key} |->
                        CASE f = "step" -> next
                          [] f = key -> Grouped(Matching(dashboard.filter), key)
                          [] OTHER -> dashboard[f]]
    /\ UNCHANGED spend

SpendNext ==
    \/ RecordSpend \/ AskDashboard
    \/ ReadBreakdown("project", "model") \/ ReadBreakdown("model", "date")
    \/ ReadBreakdown("date", "done")

SpendSpec == SpendInit /\ [][SpendNext]_spendVars

-------------------------------------------------------------------------------
\* The breakdowns of a dashboard may tell of different numbers of calls, but only
\* by records that came while it was made: the summary counts every record that
\* was there before, each later breakdown at least as many as the one before it,
\* and none a record that is not there yet.
BreakdownsDifferByLateRecords ==
    dashboard.step = "done" =>
        /\ Cardinality(dashboard.before) <= Calls(dashboard.project)
        /\ Calls(dashboard.project) <= Calls(dashboard.model)
        /\ Calls(dashboard.model) <= Calls(dashboard.date)
        /\ Calls(dashboard.date) <= Cardinality(Matching(dashboard.filter))
===============================================================================
