---------------------------- MODULE AICostMonitor ----------------------------
(***************************************************************************)
(* AICostMonitorService: every hour, and in whatever time the database     *)
(* takes, the cost of the day is read, compared with two thresholds, and   *)
(* an alert or a warning raised once a day.  A tick is a part of a day;    *)
(* the last tick of a day is its last second, after 23:59:59.  Days begin  *)
(* at midnight UTC.                                                        *)
(***************************************************************************)
EXTENDS Integers, FiniteSets, Functions

CONSTANTS Prices,               \* cost of an interaction
          TicksPerDay, LastDay, \* bound: days
          MaxDayCost,           \* bound: cost of a day
          Threshold, Warning,   \* DEFAULT_DAILY_THRESHOLD, WARNING_THRESHOLD
          Checks                \* checks that may be under way at a time

ASSUME MonitorAssumption ==
    /\ TicksPerDay \in Nat \ {0, 1} /\ LastDay \in Nat /\ MaxDayCost \in Nat
    /\ Prices \subseteq Nat \ {0}
    /\ Warning \in Nat \ {0} /\ Threshold \in Nat /\ Warning <= Threshold

Days == 0 .. LastDay
Ticks == 0 .. (LastDay + 1) * TicksPerDay - 1
NoDay == -1
DayOf(tick) == tick \div TicksPerDay
IsLastSecond(tick) == tick % TicksPerDay = TicksPerDay - 1

VARIABLES tick,         \* the time
          costs,        \* per tick: the cost of the interactions stored in it
          monitor,      \* per check: where checkDailyCosts stands
          lastDates,    \* lastAlertDate and lastWarningDate
          dailyCost,    \* the Prometheus gauge, by date
          raised,       \* history: per day, the alerts and warnings raised
          seen,         \* history: per day, the costs that checks have read
          crossed       \* history: two checks were under way at a time

monitorVars == <<tick, costs, monitor, lastDates, dailyCost, raised, seen, crossed>>
NoCheck == [phase |-> "none", day |-> NoDay, cost |-> 0]

MonitorInit ==
    /\ tick = 0
    /\ costs = [t \in Ticks |-> 0]
    /\ monitor = [i \in Checks |-> NoCheck]
    /\ lastDates = [alert |-> NoDay, warning |-> NoDay]
    /\ dailyCost = [d \in Days |-> 0]
    /\ raised = [d \in Days |-> [alert |-> 0, warning |-> 0]]
    /\ seen = [d \in Days |-> {}]
    /\ crossed = FALSE

\* getSystemStats from 00:00:00 to 23:59:59 of a day: totalCost.
CostOf(d) == SumFunctionOnSet(costs, {t \in Ticks : DayOf(t) = d /\ ~IsLastSecond(t)})

TimeGoesOn ==
    /\ tick + 1 \in Ticks /\ tick' = tick + 1
    /\ UNCHANGED <<costs, monitor, lastDates, dailyCost, raised, seen, crossed>>
StoreCost(c) ==
    /\ SumFunctionOnSet(costs, {t \in Ticks : DayOf(t) = DayOf(tick)}) + c <= MaxDayCost
    /\ costs' = [costs EXCEPT ![tick] = @ + c]
    /\ UNCHANGED <<tick, monitor, lastDates, dailyCost, raised, seen, crossed>>

\* The cron fires; the day is that of the start.  The next hour's check does not
\* wait for this one.
CheckDailyCosts(i) ==
    /\ monitor[i] = NoCheck
    /\ monitor' = [monitor EXCEPT ![i] = [phase |-> "asked", day |-> DayOf(tick), cost |-> 0]]
    /\ crossed' = (crossed \/ \E j \in Checks : monitor[j] # NoCheck)
    /\ UNCHANGED <<tick, costs, lastDates, dailyCost, raised, seen>>

\* getSystemStats computes, or fails: then the check is over.
ReadCost(i) ==
    /\ monitor[i].phase = "asked"
    /\ monitor' = [monitor EXCEPT ![i] =
            [@ EXCEPT !.phase = "read", !.cost = CostOf(monitor[i].day)]]
    /\ UNCHANGED <<tick, costs, lastDates, dailyCost, raised, seen, crossed>>
ReadFails(i) ==
    /\ monitor[i].phase = "asked"
    /\ monitor' = [monitor EXCEPT ![i] = NoCheck]
    /\ UNCHANGED <<tick, costs, lastDates, dailyCost, raised, seen, crossed>>

CostStatus(cost) ==
    IF cost >= Threshold THEN "alert" ELSE IF cost >= Warning THEN "warning" ELSE "ok"

\* A slip: nobody looks whether the day had its alert.
CompareEveryTime(i) ==
    LET d == monitor[i].day
        status == CostStatus(monitor[i].cost)
    IN  /\ monitor[i].phase = "read"
        /\ dailyCost' = [dailyCost EXCEPT ![d] = monitor[i].cost]
        /\ seen' = [seen EXCEPT ![d] = @ \cup {monitor[i].cost}]
        /\ raised' = IF status # "ok" THEN [raised EXCEPT ![d][status] = @ + 1] ELSE raised
        /\ monitor' = [monitor EXCEPT ![i] =
                IF status # "ok" THEN [@ EXCEPT !.phase = status] ELSE NoCheck]
        /\ UNCHANGED <<tick, costs, lastDates, crossed>>

\* The answer is compared with the thresholds and with the day of the last alert
\* or warning.  It is raised, and only after another await is its day noted.
Compare(i) ==
    LET d == monitor[i].day
        status == CostStatus(monitor[i].cost)
        due == status # "ok" /\ lastDates[status] # d
    IN  /\ monitor[i].phase = "read"
        /\ dailyCost' = [dailyCost EXCEPT ![d] = monitor[i].cost]
        /\ seen' = [seen EXCEPT ![d] = @ \cup {monitor[i].cost}]
        /\ raised' = IF due THEN [raised EXCEPT ![d][status] = @ + 1] ELSE raised
        /\ monitor' = [monitor EXCEPT ![i] = IF due THEN [@ EXCEPT !.phase = status] ELSE NoCheck]
        /\ UNCHANGED <<tick, costs, lastDates, crossed>>
NoteDay(i) ==
    /\ monitor[i].phase \in {"alert", "warning"}
    /\ lastDates' = [lastDates EXCEPT ![monitor[i].phase] = monitor[i].day]
    /\ monitor' = [monitor EXCEPT ![i] = NoCheck]
    /\ UNCHANGED <<tick, costs, dailyCost, raised, seen, crossed>>

MonitorNext ==
    \/ TimeGoesOn \/ \E c \in Prices : StoreCost(c)
    \/ \E i \in Checks :
        CheckDailyCosts(i) \/ ReadCost(i) \/ ReadFails(i) \/ Compare(i) \/ NoteDay(i)
MonitorSpec == MonitorInit /\ [][MonitorNext]_monitorVars

-----------------------------------------------------------------------------
\* Every day on which some check read a cost over a threshold gets one alert,
\* or one warning, also when the check straddles midnight or fails before; two
\* only when checks overlapped, and none for a cost that was not reached.
OneAlertPerCostlyDay ==
    \A d \in Days, status \in {"alert", "warning"} :
        IF \E c \in seen[d] : CostStatus(c) = status
        THEN raised[d][status] = 1 \/ (raised[d][status] > 1 /\ crossed)
        ELSE raised[d][status] = 0
=============================================================================
