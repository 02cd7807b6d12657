----------------------------- MODULE Observations -----------------------------
(***************************************************************************)
(* Sentinel and Realizer (oliver/utils/operations/service.py behind        *)
(* routes/operations.py) on top of the lifecycle: governed metrics, their  *)
(* idempotent observations, the alert and the drift of an SLO breach, and  *)
(* the latest value of a metric.                                           *)
(*                                                                         *)
(* A report of a measurement is one transaction: it looks its idempotency  *)
(* key up, flushes the observation (the unique constraint lets a second    *)
(* row of the same key wait and then fail), reads the initiative, and      *)
(* marks the drift with a comparison of versions.  What Lifecycle has as   *)
(* ReadForBreach and RecordDrift is here the part of a report that touches *)
(* the initiative; ImplementsLifecycle says that nothing else does.        *)
(*                                                                         *)
(* Abstracted: units, baselines, references and metadata; measured values  *)
(* and times are integers; the definition of a metric is one step, since   *)
(* it reads nothing that can change back before it commits.                *)
(***************************************************************************)
EXTENDS Lifecycle, Integers, Sequences

CONSTANTS
    MetricNames,
    Definitions,    \* what people define metrics as
    Keys,           \* idempotency keys
    Measurements    \* the reports that are sent

Metric == Initiatives \X MetricNames

Definition ==
    [metric_type: {"SLO", "VALUE"}, direction: {"AT_LEAST", "AT_MOST"}, threshold: Int,
     source_system: STRING]

Measurement ==
    [idempotency_key: Keys, metric: Metric, value: Int, observed_at: Nat, source_system: STRING]

ASSUME DefinitionsAssumption == Definitions \subseteq Definition
ASSUME MeasurementsAssumption == Measurements \subseteq Measurement

VARIABLES
    metric,         \* the committed metric_definitions, by initiative and name
    observation,    \* the committed metric_observations of each idempotency key
    measuring       \* the reports in progress

obsVars == <<metric, observation, measuring>>

-----------------------------------------------------------------------------

\* A committed observation; alert says whether operational_alerts has a row for it.
ObservationRow == [metric: Metric, value: Int, observed_at: Nat, alert: BOOLEAN]

Defined == DOMAIN metric

threshold_breached(value, threshold, direction) ==
    IF direction = "AT_LEAST" THEN value < threshold ELSE value > threshold

\* The value violates an SLO: an alert is due.
Breaches(m, value) ==
    /\ metric[m].metric_type = "SLO"
    /\ threshold_breached(value, metric[m].threshold, metric[m].direction)

\* Mutated: metrics can be defined at any stage.
DefineEarly(m, definition) ==
    /\ initiative[m[1]].persisted
    /\ m \notin Defined
    /\ metric' = Put(metric, m, definition)
    /\ UNCHANGED <<vars, observation, measuring>>

\* Mutated: an existing metric takes the new definition.
Redefine(m, definition) ==
    /\ initiative[m[1]].persisted
    /\ initiative[m[1]].current_stage >= FirstMeasuredStage
    /\ metric' = Put(metric, m, definition)
    /\ UNCHANGED <<vars, observation, measuring>>

\* A person defines a metric of an initiative from DI3 on.  The same definition again
\* answers the metric there is and a different one is refused: both leave it as it is.
DefineMetric(m, definition) ==
    /\ initiative[m[1]].persisted
    /\ initiative[m[1]].current_stage >= FirstMeasuredStage
    /\ m \notin Defined
    /\ metric' = Put(metric, m, definition)
    /\ UNCHANGED <<vars, observation, measuring>>

-----------------------------------------------------------------------------
(* Sentinel.record_observation. *)

\* A report is received whose key is unused, of a defined metric and from its source.
\* (A used key is answered with its observation or refused; nothing is written.)
Receive(b, measurement) ==
    /\ b \notin DOMAIN measuring
    /\ observation[measurement.idempotency_key] = << >>
    /\ measurement.metric \in Defined
    /\ metric[measurement.metric].source_system = measurement.source_system
    /\ measuring' = Put(measuring, b, [measurement |-> measurement, phase |-> "received"])
    /\ UNCHANGED <<vars, metric, observation>>

\* Mutated: the unique constraint is missing.
NoConstraint(key) == TRUE

\* uq_metric_observation_idempotency_key: no committed row and no row of an open
\* transaction has the key.
Unconstrained(key) ==
    /\ observation[key] = << >>
    /\ \A c \in DOMAIN measuring :
          measuring[c].phase # "received" => measuring[c].measurement.idempotency_key # key

Flush(b) ==
    /\ b \in DOMAIN measuring
    /\ measuring[b].phase = "received"
    /\ Unconstrained(measuring[b].measurement.idempotency_key)
    /\ measuring' = [measuring EXCEPT ![b].phase = "flushed"]
    /\ UNCHANGED <<vars, metric, observation>>

\* May a breach mark this initiative as drifted?
MayDrift(i) == ~initiative[i].is_on_hold /\ initiative[i].lifecycle_state # "NoGo"

\* A breach reads the initiative; a value within its threshold, or of a VALUE metric,
\* does not.
ReadInitiative(b) ==
    /\ b \in DOMAIN measuring
    /\ measuring[b].phase = "flushed"
    /\ LET i == measuring[b].measurement.metric[1]
       IN  IF Breaches(measuring[b].measurement.metric, measuring[b].measurement.value) /\ MayDrift(i)
           THEN /\ initiative[i].version < MaxVersion
                /\ report' = Put(report, b, [initiative |-> i, version |-> initiative[i].version])
           ELSE UNCHANGED report
    /\ measuring' = [measuring EXCEPT ![b].phase = "checked"]
    /\ UNCHANGED <<rows, assessed, loaded, evaluation, metric, observation>>

\* The observation with its alert, and the drift if one was found due, are committed.
CommitObservation(b) ==
    /\ b \in DOMAIN measuring
    /\ measuring[b].phase = "checked"
    /\ LET m == measuring[b].measurement
           row == [metric |-> m.metric, value |-> m.value, observed_at |-> m.observed_at,
                   alert |-> Breaches(m.metric, m.value)]
       IN  observation' = [observation EXCEPT ![m.idempotency_key] = Append(@, row)]
    /\ IF b \in DOMAIN report THEN RecordDrift(b) ELSE UNCHANGED vars
    /\ measuring' = Forget(measuring, b)
    /\ UNCHANGED metric

\* A lifecycle conflict, a unique violation or a crash: the report is rolled back, and
\* its caller may send it again.
AbandonObservation(b) ==
    /\ b \in DOMAIN measuring
    /\ IF b \in DOMAIN report THEN AbandonReport(b) ELSE UNCHANGED vars
    /\ measuring' = Forget(measuring, b)
    /\ UNCHANGED <<metric, observation>>

-----------------------------------------------------------------------------
(* Realizer.summarize. *)

\* The committed observations of a metric.
ObservationsOf(obs, m) ==
    {row \in UNION {{obs[k][n] : n \in DOMAIN obs[k]} : k \in Keys} : row.metric = m}

\* Mutated: the query is ordered the other way round.
EarliestTime(rowsOfMetric) ==
    (CHOOSE row \in rowsOfMetric :
        \A other \in rowsOfMetric : row.observed_at <= other.observed_at).observed_at

\* ORDER BY observed_at DESC LIMIT 1: the time of the value that is shown.
LatestTime(rowsOfMetric) ==
    (CHOOSE row \in rowsOfMetric :
        \A other \in rowsOfMetric : row.observed_at >= other.observed_at).observed_at

-----------------------------------------------------------------------------

ObsInit ==
    /\ Init
    /\ metric = << >>
    /\ observation = [k \in Keys |-> << >>]
    /\ measuring = << >>

\* Everything that writes the lifecycle but Sentinel.
OtherLifecycleStep ==
    \/ \E r \in Assessments : AssessmentStep(r)
    \/ HumanStep
    \/ \E i \in Initiatives : PromoteCandidate(i) \/ SlaElapses(i)
    \/ \E p \in Evaluations : PacerStep(p)

ReportStep(b) ==
    \/ \E measurement \in Measurements : Receive(b, measurement)
    \/ Flush(b)
    \/ ReadInitiative(b)
    \/ CommitObservation(b)
    \/ AbandonObservation(b)

ObsNext ==
    \/ OtherLifecycleStep /\ UNCHANGED obsVars
    \/ \E m \in Metric, definition \in Definitions : DefineMetric(m, definition)
    \/ \E b \in Reports : ReportStep(b)

ObsSpec == ObsInit /\ [][ObsNext]_<<vars, obsVars>>

-----------------------------------------------------------------------------
(* Properties. *)

\* The type of the variables this module adds.
ObsTypeOK ==
    /\ Defined \subseteq Metric
    /\ \A m \in Defined : metric[m] \in Definition
    /\ observation \in [Keys -> Seq(ObservationRow)]
    /\ DOMAIN measuring \subseteq Reports
    /\ \A b \in DOMAIN measuring :
          measuring[b] \in [measurement: Measurements, phase: {"received", "flushed", "checked"}]

\* A key is used for one observation, although every report looks the key up before it
\* inserts, and a report that was refused is sent again.
ObservedOnce == \A k \in Keys : Len(observation[k]) <= 1

\* An observation has an alert exactly if it violates the SLO its metric is governed by:
\* alerts are committed with their observation, and definitions never change under them.
AlertsExplained ==
    \A k \in Keys : \A n \in DOMAIN observation[k] :
        LET row == observation[k][n]
        IN  row.metric \in Defined /\ (row.alert <=> Breaches(row.metric, row.value))

\* Realized value never goes back in time: a measurement that arrives late, or is
\* reported again, does not replace a later one.
ValueNeverGoesBack ==
    [][\A m \in Metric :
          ObservationsOf(observation, m) # {} =>
              LatestTime(ObservationsOf(observation', m)) >= LatestTime(ObservationsOf(observation, m))
      ]_<<vars, obsVars>>

\* With everything Sentinel does, the initiatives still only take steps of Lifecycle: a
\* breach is only ever marked on an initiative that has reached the measured stages.
ImplementsLifecycle == Spec
=============================================================================
