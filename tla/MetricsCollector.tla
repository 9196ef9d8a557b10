-------------------------- MODULE MetricsCollector --------------------------
(***************************************************************************)
(* The metrics collector of core/src/metrics.rs.  counter, gauge and       *)
(* record_histogram spawn a task that reads the configuration, lets go of  *)
(* it, and then adds a sample to the metric; the tasks run in any order,   *)
(* and init may replace the configuration between the two.                 *)
(*                                                                         *)
(* Labels, timestamps and the system metrics are left out, and so are the  *)
(* collection and the export task that init starts next: they have the     *)
(* shape of BackgroundTask and touch neither the metrics nor the           *)
(* configuration.                                                          *)
(***************************************************************************)
EXTENDS Naturals, Sequences, SequencesExt, FiniteSetsExt

CONSTANTS
    MetricName,
    Value,          \* values that are recorded
    Kinds,          \* the kinds that are recorded, of "Counter", "Gauge", "Histogram"
    SampleLimits,   \* values of max_samples that init may set
    MaxRecords,     \* bound on the calls that record
    MaxInits,       \* bound on the calls of init
    None

ASSUME CollectorAssumption ==
    /\ Value \subseteq Nat /\ SampleLimits \subseteq Nat
    /\ MaxRecords \in Nat /\ MaxInits \in Nat

ASSUME NoneIsNoMetric ==
    None \notin [metric_type : Kinds, current_value : Nat, samples : Seq(Value)]

VARIABLES
    config,      \* [enabled, max_samples]
    metrics,     \* name -> [metric_type, current_value, samples], or None
    records,     \* the calls that record, in the order they were made
    recorder,    \* record -> where its task is, and the max_samples it read
    inits        \* number of calls of init

collectorVars == <<config, metrics, records, recorder, inits>>

CollectorInit ==
    /\ config = [enabled |-> TRUE, max_samples |-> Max(SampleLimits)]
    /\ metrics = [n \in MetricName |-> None]
    /\ records = <<>> /\ recorder = <<>> /\ inits = 0

\* counter, gauge, record_histogram
Record(name, kind, value) ==
    /\ Len(records) < MaxRecords
    /\ records' = Append(records, [name |-> name, kind |-> kind, value |-> value])
    /\ recorder' = Append(recorder, [at |-> "spawned", limit |-> 0])
    /\ UNCHANGED <<config, metrics, inits>>

ReadConfig(r) ==
    /\ recorder[r].at = "spawned"
    /\ recorder' = [recorder EXCEPT ![r] =
          IF config.enabled THEN [at |-> "enabled", limit |-> config.max_samples]
          ELSE [at |-> "skipped", limit |-> 0]]
    /\ UNCHANGED <<config, metrics, records, inits>>

\* Metric::new
NewMetric(kind) == [metric_type |-> kind, current_value |-> 0, samples |-> <<>>]

\* Mutation: a counter is set like a gauge.
AddSampleSets(m, value, limit) ==
    LET s == Append(m.samples, value) IN
    [m EXCEPT !.current_value = value,
              !.samples = IF Len(s) > limit THEN Tail(s) ELSE s]

\* Metric::add_sample: at most one sample is dropped.
AddSample(m, value, limit) ==
    LET s == Append(m.samples, value) IN
    [m EXCEPT !.current_value = IF m.metric_type = "Counter" THEN @ + value ELSE value,
              !.samples = IF Len(s) > limit THEN Tail(s) ELSE s]

\* The metric keeps the kind of the first record of its name.
RecordSample(r) ==
    LET c == records[r]
        m == IF metrics[c.name] = None THEN NewMetric(c.kind) ELSE metrics[c.name]
    IN
    /\ recorder[r].at = "enabled"
    /\ metrics' = [metrics EXCEPT ![c.name] = AddSample(m, c.value, recorder[r].limit)]
    /\ recorder' = [recorder EXCEPT ![r].at = "added"]
    /\ UNCHANGED <<config, records, inits>>

\* The first step of init, the only one that the recording tasks notice.
SetConfig(enabled, limit) ==
    /\ inits < MaxInits
    /\ inits' = inits + 1
    /\ config' = [enabled |-> enabled, max_samples |-> limit]
    /\ UNCHANGED <<metrics, records, recorder>>

CollectorNext ==
    \/ \E name \in MetricName, kind \in Kinds, value \in Value : Record(name, kind, value)
    \/ \E r \in DOMAIN records : ReadConfig(r) \/ RecordSample(r)
    \/ \E enabled \in BOOLEAN, limit \in SampleLimits : SetConfig(enabled, limit)

CollectorSpec == CollectorInit /\ [][CollectorNext]_collectorVars

-----------------------------------------------------------------------------
(* Properties.                                                             *)

Added(name) == {r \in DOMAIN records : records[r].name = name /\ recorder[r].at = "added"}

\* The sum of a sequence of numbers.
Total(numbers) ==
    LET sum[k \in 0..Len(numbers)] == IF k = 0 THEN 0 ELSE sum[k - 1] + numbers[k]
    IN sum[Len(numbers)]

\* For each record the value it has added to the metric, 0 for the others.
AddedValues(name) ==
    [r \in DOMAIN records |-> IF r \in Added(name) THEN records[r].value ELSE 0]

\* A counter is the sum of all values that were added to it, in whatever order
\* the tasks ran and whatever init did meanwhile.
CounterIsSum ==
    \A n \in MetricName :
        metrics[n] # None /\ metrics[n].metric_type = "Counter"
        => metrics[n].current_value = Total(AddedValues(n))

-----------------------------------------------------------------------------
(* What comments of the repository say and this code does not keep: see    *)
(* "Disagreements" in the README.                                          *)

\* No metric has more samples than the configuration allows, once a record has
\* been made under it.
SamplesWithinLimit ==
    \A n \in MetricName, r \in DOMAIN records :
        /\ recorder[r] = [at |-> "added", limit |-> config.max_samples]
        /\ records[r].name = n
        => Len(metrics[n].samples) <= config.max_samples

Settled == \A r \in DOMAIN records : recorder[r].at \in {"added", "skipped"}

\* When all tasks are through, a gauge has the value it was set to last.
GaugeIsLatest ==
    \A n \in MetricName :
        Settled /\ metrics[n] # None /\ metrics[n].metric_type = "Gauge"
        => metrics[n].current_value = records[Max(Added(n))].value
=============================================================================
