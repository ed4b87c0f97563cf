---------------------------- MODULE CostTracking ----------------------------
(***************************************************************************)
(* CostTrackingService: the metrics of the latest requests in memory, and  *)
(* the statistics computed from them, over all time or a period.           *)
(***************************************************************************)
EXTENDS Ordering, Sequences, Functions

CONSTANTS MetricCosts, Latencies, Models,
          MaxInMemory,      \* maxMetricsInMemory: 10000
          MaxTracked        \* bound: requests tracked

ASSUME TrackingAssumption ==
    /\ MaxInMemory \in Nat \ {0} /\ MaxTracked \in Nat
    /\ MetricCosts \subseteq Int /\ Latencies \subseteq Int

VARIABLES metricLog,    \* metrics: the oldest first; at is the request's number
          requests      \* history: requests tracked so far

trackingVars == <<metricLog, requests>>
TrackingInit == metricLog = << >> /\ requests = 0

\* trackRequest: the last MaxInMemory metrics stay.
TrackMetric(metric) ==
    LET longer == Append(metricLog, metric)
    IN  /\ requests < MaxTracked
        /\ requests' = requests + 1
        /\ metricLog' = IF Len(longer) > MaxInMemory
                        THEN SubSeq(longer, Len(longer) - MaxInMemory + 1, Len(longer)) ELSE longer
ClearMetrics == metricLog # << >> /\ metricLog' = << >> /\ UNCHANGED requests
TrackingNext ==
    \/ \E c \in MetricCosts, l \in Latencies, m \in Models, ok \in BOOLEAN :
        TrackMetric([cost |-> IF ok THEN c ELSE 0, latency |-> l, success |-> ok,
                     model |-> IF ok THEN m ELSE "unknown", at |-> requests + 1])
    \/ ClearMetrics
TrackingSpec == TrackingInit /\ [][TrackingNext]_trackingVars

\* getTotalCost, getCostByModel and getStatistics look at the metrics of a period,
\* or of a model: at their places in the log.
InPeriod(start, end) == {i \in DOMAIN metricLog : metricLog[i].at \in start .. end}
OfModel(model) == {i \in DOMAIN metricLog : metricLog[i].model = model}
SumOfCosts(log) == SumFunctionOnSet([i \in log |-> metricLog[i].cost], log)
TotalCost(start, end) == SumOfCosts(InPeriod(start, end))
ModelsSeen == {metricLog[i].model : i \in DOMAIN metricLog}
CostByModel == [model \in ModelsSeen |-> SumOfCosts(OfModel(model))]
ErrorBreakdown == Cardinality({i \in DOMAIN metricLog : ~metricLog[i].success})

\* A slip: the latencies are not sorted.
PercentileUnsorted(log, p) ==
    metricLog[Ascending(log)[(Cardinality(log) * p) \div 100 + 1]].latency

\* The p-th percentile is the entry at p per cent of the sorted latencies, with
\* the index rounded down.
Percentile(log, p) ==
    LET sorted == InOrder([i \in log |-> metricLog[i].latency])
    IN  metricLog[sorted[(Cardinality(log) * p) \div 100 + 1]].latency
Statistics(start, end) ==
    LET log == InPeriod(start, end)
        successful == Cardinality({i \in log : metricLog[i].success})
    IN  IF log = {} THEN [total |-> 0, successful |-> 0, failed |-> 0]
        ELSE [total |-> Cardinality(log), successful |-> successful,
              failed |-> Cardinality(log) - successful,
              p50 |-> Percentile(log, 50), p95 |-> Percentile(log, 95), p99 |-> Percentile(log, 99)]

-----------------------------------------------------------------------------
\* More than p per cent of the requests took no longer, and at most p per cent
\* took less.
IsPercentile(l, p, log) ==
    LET Share(ids) == 100 * Cardinality(ids)
    IN  /\ Share({i \in log : metricLog[i].latency <= l}) > p * Cardinality(log)
        /\ Share({i \in log : metricLog[i].latency < l}) <= p * Cardinality(log)

\* The percentiles of every period are percentiles, of one request and of many.
PercentilesAreRight ==
    \A start, end \in 1 .. requests :
        LET log == InPeriod(start, end)
            stats == Statistics(start, end)
        IN  log # {} => /\ IsPercentile(stats.p50, 50, log)
                        /\ IsPercentile(stats.p95, 95, log)
                        /\ IsPercentile(stats.p99, 99, log)

\* The statistics are of the latest requests, up to the limit, and of no others:
\* what failed is what the errors count, and the costs of the models add up to the
\* total, also after requests left the memory.
StatisticsAreSound ==
    /\ PercentilesAreRight
    /\ Statistics(1, requests).failed = ErrorBreakdown
    /\ \A i \in DOMAIN metricLog : metricLog[i].at = requests - Len(metricLog) + i
    /\ TotalCost(1, requests) = SumFunctionOnSet(CostByModel, ModelsSeen)
=============================================================================
