----------------------------- MODULE AIAnalytics -----------------------------
(***************************************************************************)
(* What is made of the interactions with the model: the reports of         *)
(* AIAnalyticsService over the AIInteraction rows, and the dashboard that  *)
(* AdminAnalyticsController puts together from several of them, each read  *)
(* at a time of its own.  AIController stores no tenant, so the reports on *)
(* a tenant are empty and the others take all rows.                        *)
(***************************************************************************)
EXTENDS Integers, Sequences, FiniteSets, FiniteSetsExt, SequencesExt

CONSTANTS RowUsers, RowCosts,
          LastHour,                         \* bound: the time
          MaxRowsStored,                    \* bound: interactions
          DashboardSpan,                    \* days: 30
          TopUsers                          \* users the dashboard lists: 10

ASSUME AnalyticsAssumption ==
    /\ LastHour \in Nat /\ MaxRowsStored \in Nat /\ DashboardSpan \in Nat /\ TopUsers \in Nat
    /\ IsFiniteSet(RowUsers)
    /\ RowCosts \subseteq Nat /\ \E c \in RowCosts : \A d \in RowCosts : d <= c

VARIABLES hour,         \* the time
          interactions, \* the AIInteraction rows, in the order of their storing
          dashboard     \* its period, the reports read so far, and how many rows
                        \* were stored since it was opened

analyticsVars == <<hour, interactions, dashboard>>

Unread == -1
Reports == {"total", "successful", "cost", "trends", "topUsers", "models"}
NoDashboard == [open |-> FALSE, start |-> 0, end |-> 0, during |-> 0,
                read |-> [report \in Reports |-> Unread]]

AnalyticsInit == hour = 0 /\ interactions = << >> /\ dashboard = NoDashboard

\* storeInteraction: a failed request cost nothing and names no model.
StoreRow(u, c, ok) ==
    /\ Len(interactions) < MaxRowsStored
    /\ interactions' = Append(interactions, [user |-> u, model |-> ok, success |-> ok,
                             cost |-> IF ok THEN c ELSE 0, at |-> hour])
    /\ dashboard' = [dashboard EXCEPT !.during = IF dashboard.open THEN @ + 1 ELSE @]
    /\ UNCHANGED hour
HourPasses == hour < LastHour /\ hour' = hour + 1 /\ UNCHANGED <<interactions, dashboard>>

\* The rows of a report: createdAt in a period, both ends included.
Where(start, end) == {i \in DOMAIN interactions : interactions[i].at \in start .. end}
Costs == [i \in DOMAIN interactions |-> interactions[i].cost]
CostOfRows(ids) == SumFunctionOnSet(Costs, ids)
GroupBy(ids, Field(_)) ==
    {{j \in ids : Field(interactions[j]) = Field(interactions[i])} : i \in ids}

\* getUserStats and getSystemStats: separate queries, not a transaction.
Successful(ids) == {i \in ids : interactions[i].success}
Stats(ids) == [total |-> Cardinality(ids), successful |-> Cardinality(Successful(ids)),
               users |-> Cardinality({interactions[i].user : i \in ids}), cost |-> CostOfRows(ids)]

\* A slip: the first hour of the period is left out.
DailyTrendsAfter(start) ==
    GroupBy({i \in DOMAIN interactions : interactions[i].at > start}, LAMBDA row : row.at)

\* getDailyTrends: from some days ago, without an end; one entry per day.
DailyTrends(start) ==
    GroupBy({i \in DOMAIN interactions : interactions[i].at >= start}, LAMBDA row : row.at)

\* getTopUsersByCost: the groups of the users, the most expensive first, as many
\* as asked for; which of two equal ones is not said.
TopUsersByCost(ids, limit) ==
    LET users == GroupBy(ids, LAMBDA row : row.user)
    IN  {top \in SUBSET users :
            /\ Cardinality(top) = Min({Cardinality(users), limit})
            /\ \A a \in top, b \in users \ top : CostOfRows(a) >= CostOfRows(b)}

\* getModelCostBreakdown leaves out the rows without a model; in the same way
\* getChannelCategoryStats those without a channel or a category.
ModelCosts(ids) == GroupBy({i \in ids : interactions[i].model}, LAMBDA row : row.model)

SumOfGroups(groups) == SumFunctionOnSet([group \in groups |-> CostOfRows(group)], groups)

\* getDashboard: the period is fixed, then the reports are read, each at a time
\* of its own.
OpenDashboard ==
    /\ ~dashboard.open
    /\ dashboard' = [NoDashboard EXCEPT !.open = TRUE, !.end = hour,
                                               !.start = hour - DashboardSpan]
    /\ UNCHANGED <<hour, interactions>>
Report(report) ==
    LET ids == Where(dashboard.start, dashboard.end)
    IN  CASE report = "total"      -> Stats(ids).total
          [] report = "successful" -> Stats(ids).successful
          [] report = "cost"       -> Stats(ids).cost
          [] report = "trends"     -> SumOfGroups(DailyTrends(dashboard.start))
          [] report = "topUsers"   ->
                SumOfGroups(CHOOSE top \in TopUsersByCost(ids, TopUsers) : TRUE)
          [] report = "models"     -> SumOfGroups(ModelCosts(ids))
ReadReport(report) ==
    /\ dashboard.open /\ dashboard.read[report] = Unread
    /\ dashboard' = [dashboard EXCEPT !.read[report] = Report(report)]
    /\ UNCHANGED <<hour, interactions>>
CloseDashboard ==
    /\ dashboard.open /\ \A report \in Reports : dashboard.read[report] # Unread
    /\ dashboard' = NoDashboard
    /\ UNCHANGED <<hour, interactions>>

AnalyticsNext ==
    \/ HourPasses
    \/ \E u \in RowUsers, c \in RowCosts, ok \in BOOLEAN : StoreRow(u, c, ok)
    \/ OpenDashboard \/ CloseDashboard \/ \E report \in Reports : ReadReport(report)
AnalyticsSpec == AnalyticsInit /\ [][AnalyticsNext]_analyticsVars

-----------------------------------------------------------------------------
\* The reports of a dashboard agree as long as no row was stored between them:
\* users, models and days add up to the cost of the period, whatever failed.  With
\* rows stored between them they differ by no more than these rows.  (The number
\* of failures, which is total less successful, may then be negative.)
DashboardAddsUp ==
    LET read == dashboard.read
        margin == dashboard.during
        AtMost(a, b, by) == Unread \in {read[a], read[b]} \/ read[a] <= read[b] + by
        Near(a, b, by) == AtMost(a, b, by) /\ AtMost(b, a, by)
        dearest == CHOOSE c \in RowCosts : \A d \in RowCosts : d <= c
    IN  /\ \A report \in {"trends", "models"} : Near(report, "cost", margin * dearest)
        /\ Cardinality(RowUsers) <= TopUsers => Near("topUsers", "cost", margin * dearest)
        /\ AtMost("successful", "total", margin)
=============================================================================
