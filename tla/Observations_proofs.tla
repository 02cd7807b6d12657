-------------------------- MODULE Observations_proofs --------------------------
(***************************************************************************)
(* For any number of initiatives, metrics, keys, reports and sessions:     *)
(* what Sentinel records, and that with everything it does the initiatives *)
(* only take steps of Lifecycle (module Observations).                     *)
(*                                                                         *)
(* The invariant is IInv of Lifecycle_proofs, with what the unique         *)
(* constraint on idempotency keys buys (a key is flushed by one report and *)
(* then unused by any other), and that an initiative with a metric has     *)
(* reached the measured stages, which it never leaves again.               *)
(***************************************************************************)
EXTENDS Observations, Lifecycle_proofs, SequenceTheorems

-----------------------------------------------------------------------------
(* The invariant. *)

\* Metrics are those of initiatives that have reached the measured stages.
MetricsGoverned ==
    \A m \in Defined :
        /\ m \in Metric
        /\ initiative[m[1]].persisted
        /\ initiative[m[1]].current_stage >= FirstMeasuredStage

\* A report measures a defined metric, and one that is flushed has its key to itself.
ReportsApart ==
    \A b \in DOMAIN measuring :
        /\ measuring[b] = [measurement |-> measuring[b].measurement, phase |-> measuring[b].phase]
        /\ measuring[b].measurement.metric \in Defined
        /\ measuring[b].measurement.idempotency_key \in Keys
        /\ measuring[b].phase # "received" =>
              /\ observation[measuring[b].measurement.idempotency_key] = << >>
              /\ \A c \in DOMAIN measuring :
                    measuring[c].phase # "received"
                    /\ measuring[c].measurement.idempotency_key = measuring[b].measurement.idempotency_key
                       => c = b

\* A breach is only ever pending for a report that has looked at the initiative.
BreachesReported ==
    \A b \in DOMAIN report : b \in DOMAIN measuring /\ measuring[b].phase = "checked"

ObsIInv ==
    /\ IInv
    /\ DOMAIN observation = Keys
    /\ MetricsGoverned
    /\ ReportsApart
    /\ BreachesReported
    /\ ObservedOnce
    /\ AlertsExplained

-----------------------------------------------------------------------------
(* What the lifecycle keeps. *)

\* A row that is committed stays committed.
LEMMA PersistedStays ==
    ASSUME IInv, [Next]_vars, NEW i \in Initiatives, initiative[i].persisted
    PROVE  initiative'[i].persisted
  <1>0. initiative \in [Initiatives -> InitiativeRow] /\ initiative[i] \in InitiativeRow
    BY DEF IInv, TypeOK
  <1>1. CASE UNCHANGED rows
    BY <1>1 DEF rows
  <1>2. ASSUME NEW j, initiative' = [initiative EXCEPT ![j].persisted = TRUE]
        PROVE  initiative'[i].persisted
    BY <1>0, <1>2 DEF InitiativeRow
  <1>3. ASSUME NEW j, NEW v, NEW state, SwapLifecycleState(j, v, state)
        PROVE  initiative'[i].persisted
    BY <1>0, <1>3 DEF SwapLifecycleState, InitiativeRow
  <1>4. ASSUME NEW j, NEW v, NEW stage, SwapStage(j, v, stage)
        PROVE  initiative'[i].persisted
    BY <1>0, <1>4 DEF SwapStage, InitiativeRow
  <1>5. ASSUME NEW r \in Assessments, RecordNoTransition(r)
        PROVE  initiative'[i].persisted
    BY <1>2, <1>3, <1>5 DEF RecordNoTransition
  <1>6. ASSUME NEW r \in Assessments, NEW t \in Transitions,
               ProposeTransition(r, t) \/ AdvanceAutomatically(r, t)
        PROVE  initiative'[i].persisted
    BY <1>2, <1>4, <1>6 DEF ProposeTransition, AdvanceAutomatically
  <1>7. ASSUME NEW j \in Initiatives, NEW t \in Transitions, Hold(j, t) \/ Resume(j, t)
        PROVE  initiative'[i].persisted
    BY <1>0, <1>7 DEF Hold, Resume, InitiativeRow
  <1>8. ASSUME NEW t \in Transitions, ApproveTransition(t) \/ RejectTransition(t)
        PROVE  initiative'[i].persisted
    BY <1>3, <1>4, <1>8 DEF ApproveTransition, RejectTransition
  <1>9. ASSUME NEW j \in Initiatives, PromoteCandidate(j) \/ SlaElapses(j)
        PROVE  initiative'[i].persisted
    BY <1>0, <1>9 DEF PromoteCandidate, SlaElapses, InitiativeRow
  <1>10. ASSUME NEW p \in Evaluations, CommitEvaluation(p)
         PROVE  initiative'[i].persisted
    BY <1>0, <1>10 DEF CommitEvaluation, InitiativeRow
  <1>11. ASSUME NEW b \in Reports, RecordDrift(b)
         PROVE  initiative'[i].persisted
    BY <1>3, <1>11 DEF RecordDrift
  <1>12. QED
    BY <1>1, <1>5, <1>6, <1>7, <1>8, <1>9, <1>10, <1>11, WritesOrNot DEF Writes

\* No initiative goes back to an earlier stage.
LEMMA StageStays ==
    ASSUME IInv, [Next]_vars, NEW i \in Initiatives
    PROVE  initiative'[i].current_stage >= initiative[i].current_stage
  <1>1. initiative[i].current_stage \in Nat
    BY StageAssumption DEF IInv, TypeOK, InitiativeRow, Stages
  <1>2. LadderStep
    BY EveryLadderStep
  <1>3. CASE SameStages
    BY <1>1, <1>3 DEF SameStages
  <1>4. ASSUME NEW j \in Initiatives, NEW status, NEW t, Climbs(j, t, status)
        PROVE  initiative'[i].current_stage >= initiative[i].current_stage
    <2>1. CASE i = j
      BY <1>1, <1>4, <2>1 DEF Climbs
    <2>2. CASE i # j
      BY <1>1, <1>4, <2>2 DEF Climbs
    <2>3. QED
      BY <2>1, <2>2
  <1>5. QED
    BY <1>2, <1>3, <1>4 DEF LadderStep

LEMMA MetricsStayGoverned ==
    ASSUME IInv, [Next]_vars, MetricsGoverned, metric' = metric
    PROVE  MetricsGoverned'
  <1>1. SUFFICES ASSUME NEW m \in Defined
                 PROVE  /\ m \in Metric
                        /\ initiative'[m[1]].persisted
                        /\ initiative'[m[1]].current_stage >= FirstMeasuredStage
    BY DEF MetricsGoverned, Defined
  <1>2. PICK i \in Initiatives : i = m[1] /\ m \in Metric
    BY DEF MetricsGoverned, Metric
  <1>3. initiative[i].persisted /\ initiative[i].current_stage >= FirstMeasuredStage
    BY <1>2 DEF MetricsGoverned
  <1>4. initiative'[i].persisted /\ initiative'[i].current_stage >= initiative[i].current_stage
    BY <1>3, PersistedStays, StageStays
  <1>5. IInv'
    BY NextPreserves
  <1>6. /\ initiative[i].current_stage \in Int /\ initiative'[i].current_stage \in Int
        /\ FirstMeasuredStage \in Int
    BY <1>5, StageAssumption, MeasuredAssumption DEF IInv, TypeOK, InitiativeRow, Stages
  <1>7. QED
    BY <1>2, <1>3, <1>4, <1>6

-----------------------------------------------------------------------------
(* Every step of this module is a step of Lifecycle, or leaves it alone. *)

LEMMA ReadIsLifecycleStep ==
    ASSUME ObsIInv, NEW b \in Reports, ReadInitiative(b)
    PROVE  [Next]_vars
  <1>1. PICK m : m = measuring[b].measurement.metric
    OBVIOUS
  <1>2. m \in Metric /\ m[1] \in Initiatives
        /\ initiative[m[1]].persisted /\ initiative[m[1]].current_stage >= FirstMeasuredStage
    BY <1>1 DEF ReadInitiative, ObsIInv, ReportsApart, MetricsGoverned, Metric
  <1>3. b \notin DOMAIN report
    BY DEF ReadInitiative, ObsIInv, BreachesReported
  <1>4. CASE UNCHANGED report
    BY <1>4 DEF ReadInitiative, rows, vars
  <1>5. CASE /\ MayDrift(m[1])
             /\ initiative[m[1]].version < MaxVersion
             /\ report' = Put(report, b, [initiative |-> m[1], version |-> initiative[m[1]].version])
    <2>1. UNCHANGED <<rows, assessed, loaded, evaluation>>
      BY DEF ReadInitiative
    <2>2. ReadForBreach(b, m[1])
      BY <1>2, <1>3, <1>5, <2>1 DEF ReadForBreach, MayDrift
    <2>3. QED
      BY <1>2, <2>2 DEF SentinelStep, Next
  <1>6. QED
    BY <1>1, <1>4, <1>5 DEF ReadInitiative

LEMMA EveryStepIsLifecycleStep ==
    ASSUME ObsIInv, [ObsNext]_<<vars, obsVars>>
    PROVE  [Next]_vars
  <1>1. CASE OtherLifecycleStep
    BY <1>1 DEF OtherLifecycleStep, Next
  <1>2. ASSUME NEW m \in Metric, NEW definition \in Definitions, DefineMetric(m, definition)
        PROVE  UNCHANGED vars
    BY <1>2 DEF DefineMetric
  <1>3. ASSUME NEW b \in Reports, ReportStep(b)
        PROVE  [Next]_vars
    <2>1. CASE (\E measurement \in Measurements : Receive(b, measurement)) \/ Flush(b)
      BY <2>1 DEF Receive, Flush
    <2>2. CASE ReadInitiative(b)
      BY <2>2, ReadIsLifecycleStep
    <2>3. CASE CommitObservation(b) \/ AbandonObservation(b)
      <3>1. RecordDrift(b) \/ AbandonReport(b) \/ UNCHANGED vars
        BY <2>3 DEF CommitObservation, AbandonObservation
      <3>2. QED
        BY <1>3, <3>1 DEF SentinelStep, Next
    <2>4. QED
      BY <1>3, <2>1, <2>2, <2>3 DEF ReportStep
  <1>4. CASE UNCHANGED <<vars, obsVars>>
    BY <1>4
  <1>5. QED
    BY <1>1, <1>2, <1>3, <1>4 DEF ObsNext

-----------------------------------------------------------------------------
(* Every step keeps the invariant. *)

\* Definitions are added and never changed: what was observed stays explained.
LEMMA AlertsStayExplained ==
    ASSUME AlertsExplained, observation' = observation, Defined \subseteq Defined',
           \A m \in Defined : metric'[m] = metric[m]
    PROVE  AlertsExplained'
  <1>1. SUFFICES ASSUME NEW k \in Keys, NEW n \in DOMAIN observation[k], NEW row,
                        row = observation[k][n]
                 PROVE  row.metric \in Defined' /\ (row.alert <=> Breaches(row.metric, row.value)')
    BY DEF AlertsExplained
  <1>2. row.metric \in Defined /\ (row.alert <=> Breaches(row.metric, row.value))
    BY <1>1 DEF AlertsExplained
  <1>3. metric'[row.metric] = metric[row.metric]
    BY <1>2
  <1>4. QED
    BY <1>2, <1>3 DEF Breaches

LEMMA LifecyclePreserves ==
    ASSUME ObsIInv, [Next]_vars, report' = report, UNCHANGED obsVars
    PROVE  ObsIInv'
  <1>1. /\ metric' = metric /\ observation' = observation /\ measuring' = measuring
    BY DEF obsVars
  <1>2. IInv' /\ MetricsGoverned'
    BY <1>1, NextPreserves, MetricsStayGoverned DEF ObsIInv
  <1>3. ReportsApart' /\ BreachesReported'
    BY <1>1 DEF ObsIInv, ReportsApart, BreachesReported, Defined
  <1>4. ObservedOnce' /\ AlertsExplained'
    BY <1>1, AlertsStayExplained DEF ObsIInv, ObservedOnce, Defined
  <1>5. QED
    BY <1>1, <1>2, <1>3, <1>4 DEF ObsIInv

LEMMA DefineMetricPreserves ==
    ASSUME ObsIInv, NEW m \in Metric, NEW definition \in Definitions, DefineMetric(m, definition)
    PROVE  ObsIInv'
  <1>1. /\ UNCHANGED vars /\ observation' = observation /\ measuring' = measuring
        /\ Defined' = Defined \cup {m}
        /\ \A d \in Defined : metric'[d] = metric[d]
        /\ initiative[m[1]].persisted /\ initiative[m[1]].current_stage >= FirstMeasuredStage
    BY DEF DefineMetric, Put, Defined
  <1>2. initiative' = initiative /\ report' = report
    BY <1>1 DEF vars
  <1>3. IInv'
    BY <1>1, NextPreserves DEF ObsIInv
  <1>4. MetricsGoverned'
    BY <1>1, <1>2 DEF ObsIInv, MetricsGoverned
  <1>5. ReportsApart' /\ BreachesReported'
    BY <1>1, <1>2 DEF ObsIInv, ReportsApart, BreachesReported
  <1>6. ObservedOnce' /\ AlertsExplained'
    BY <1>1, AlertsStayExplained DEF ObsIInv, ObservedOnce
  <1>7. QED
    BY <1>1, <1>3, <1>4, <1>5, <1>6 DEF ObsIInv

LEMMA ReceivePreserves ==
    ASSUME ObsIInv, NEW b \in Reports, NEW measurement \in Measurements, Receive(b, measurement)
    PROVE  ObsIInv'
  <1>1. /\ b \notin DOMAIN measuring
        /\ measurement.metric \in Defined
        /\ measurement.idempotency_key \in Keys
        /\ UNCHANGED vars /\ metric' = metric /\ observation' = observation
        /\ Defined' = Defined
    BY MeasurementsAssumption DEF Receive, Measurement, Defined
  <1>2. PICK new : /\ new = [measurement |-> measurement, phase |-> "received"]
                   /\ measuring' = Put(measuring, b, new)
    BY DEF Receive
  <1>3. /\ new = [measurement |-> new.measurement, phase |-> new.phase]
        /\ new.measurement = measurement /\ new.phase = "received"
    BY <1>2
  <1>4. /\ DOMAIN measuring' = DOMAIN measuring \cup {b}
        /\ measuring'[b] = new
        /\ \A c \in DOMAIN measuring : measuring'[c] = measuring[c]
    BY <1>1, <1>2 DEF Put
  <1>5. initiative' = initiative /\ report' = report
    BY <1>1 DEF vars
  <1>6. IInv'
    BY <1>1, NextPreserves DEF ObsIInv
  <1>7. MetricsGoverned'
    BY <1>1, <1>5 DEF ObsIInv, MetricsGoverned
  <1>8. ReportsApart'
    BY <1>1, <1>3, <1>4 DEF ObsIInv, ReportsApart
  <1>9. BreachesReported'
    BY <1>1, <1>4, <1>5 DEF ObsIInv, BreachesReported
  <1>10. ObservedOnce' /\ AlertsExplained'
    BY <1>1, AlertsStayExplained DEF ObsIInv, ObservedOnce
  <1>11. QED
    BY <1>1, <1>6, <1>7, <1>8, <1>9, <1>10 DEF ObsIInv

\* A report goes on to its next phase.
LEMMA PhaseMoved ==
    ASSUME ObsIInv, NEW b \in DOMAIN measuring, NEW phase,
           measuring' = [measuring EXCEPT ![b].phase = phase]
    PROVE  /\ DOMAIN measuring' = DOMAIN measuring
           /\ measuring'[b] = [measurement |-> measuring'[b].measurement,
                               phase |-> measuring'[b].phase]
           /\ measuring'[b].measurement = measuring[b].measurement
           /\ measuring'[b].phase = phase
           /\ \A c \in DOMAIN measuring : c # b => measuring'[c] = measuring[c]
  <1>1. PICK old, measurement, previous :
           old = measuring[b] /\ old = [measurement |-> measurement, phase |-> previous]
    BY DEF ObsIInv, ReportsApart
  <1>2. PICK new : new = [old EXCEPT !.phase = phase]
    OBVIOUS
  <1>3. /\ new = [measurement |-> new.measurement, phase |-> new.phase]
        /\ new.measurement = measurement /\ new.phase = phase /\ old.measurement = measurement
    BY <1>1, <1>2
  <1>4. measuring' = [measuring EXCEPT ![b] = new]
    BY <1>1, <1>2
  <1>5. QED
    BY <1>1, <1>3, <1>4

LEMMA FlushPreserves ==
    ASSUME ObsIInv, NEW b \in Reports, Flush(b)
    PROVE  ObsIInv'
  <1>1. /\ b \in DOMAIN measuring
        /\ UNCHANGED vars /\ metric' = metric /\ observation' = observation /\ Defined' = Defined
        /\ measuring' = [measuring EXCEPT ![b].phase = "flushed"]
    BY DEF Flush, Defined
  <1>2. PICK key : key = measuring[b].measurement.idempotency_key
    OBVIOUS
  <1>3. /\ measuring[b].phase = "received"
        /\ observation[key] = << >>
        /\ \A c \in DOMAIN measuring :
              measuring[c].phase # "received" => measuring[c].measurement.idempotency_key # key
    BY <1>2 DEF Flush, Unconstrained
  <1>4. /\ DOMAIN measuring' = DOMAIN measuring
        /\ measuring'[b] = [measurement |-> measuring'[b].measurement,
                            phase |-> measuring'[b].phase]
        /\ measuring'[b].measurement = measuring[b].measurement
        /\ measuring'[b].phase = "flushed"
        /\ \A c \in DOMAIN measuring : c # b => measuring'[c] = measuring[c]
    BY <1>1, PhaseMoved
  <1>5. initiative' = initiative /\ report' = report
    BY <1>1 DEF vars
  <1>6. IInv'
    BY <1>1, NextPreserves DEF ObsIInv
  <1>7. MetricsGoverned'
    BY <1>1, <1>5 DEF ObsIInv, MetricsGoverned
  <1>8. ReportsApart'
    BY <1>1, <1>2, <1>3, <1>4 DEF ObsIInv, ReportsApart
  <1>9. BreachesReported'
    BY <1>1, <1>3, <1>4, <1>5 DEF ObsIInv, BreachesReported
  <1>10. ObservedOnce' /\ AlertsExplained'
    BY <1>1, AlertsStayExplained DEF ObsIInv, ObservedOnce
  <1>11. QED
    BY <1>1, <1>6, <1>7, <1>8, <1>9, <1>10 DEF ObsIInv

LEMMA ReadInitiativePreserves ==
    ASSUME ObsIInv, NEW b \in Reports, ReadInitiative(b)
    PROVE  ObsIInv'
  <1>1. /\ b \in DOMAIN measuring
        /\ metric' = metric /\ observation' = observation /\ Defined' = Defined
        /\ measuring' = [measuring EXCEPT ![b].phase = "checked"]
        /\ measuring[b].phase = "flushed"
    BY DEF ReadInitiative, Defined
  <1>2. DOMAIN report' \subseteq DOMAIN report \cup {b}
    BY DEF ReadInitiative, Put
  <1>3. /\ DOMAIN measuring' = DOMAIN measuring
        /\ measuring'[b] = [measurement |-> measuring'[b].measurement,
                            phase |-> measuring'[b].phase]
        /\ measuring'[b].measurement = measuring[b].measurement
        /\ measuring'[b].phase = "checked"
        /\ \A c \in DOMAIN measuring : c # b => measuring'[c] = measuring[c]
    BY <1>1, PhaseMoved
  <1>4. [Next]_vars
    BY ReadIsLifecycleStep
  <1>5. IInv' /\ MetricsGoverned'
    BY <1>1, <1>4, NextPreserves, MetricsStayGoverned DEF ObsIInv
  <1>6. ReportsApart'
    BY <1>1, <1>3 DEF ObsIInv, ReportsApart
  <1>7. BreachesReported'
    BY <1>2, <1>1, <1>3 DEF ObsIInv, BreachesReported
  <1>8. ObservedOnce' /\ AlertsExplained'
    BY <1>1, AlertsStayExplained DEF ObsIInv, ObservedOnce
  <1>9. QED
    BY <1>1, <1>5, <1>6, <1>7, <1>8 DEF ObsIInv

\* A report has ended: what is left of the others.
LEMMA ReportLeft ==
    ASSUME ObsIInv, NEW b \in Reports, CommitObservation(b) \/ AbandonObservation(b)
    PROVE  /\ b \in DOMAIN measuring
           /\ DOMAIN measuring' = DOMAIN measuring \ {b}
           /\ \A c \in DOMAIN measuring' : measuring'[c] = measuring[c]
           /\ metric' = metric /\ Defined' = Defined
           /\ IInv' /\ MetricsGoverned' /\ BreachesReported'
  <1>1. /\ b \in DOMAIN measuring
        /\ DOMAIN measuring' = DOMAIN measuring \ {b}
        /\ \A c \in DOMAIN measuring' : measuring'[c] = measuring[c]
        /\ metric' = metric /\ Defined' = Defined
    BY DEF CommitObservation, AbandonObservation, Forget, Defined
  <1>2. [Next]_vars
    <2>1. RecordDrift(b) \/ AbandonReport(b) \/ UNCHANGED vars
      BY DEF CommitObservation, AbandonObservation
    <2>2. QED
      BY <2>1 DEF SentinelStep, Next
  <1>3. IInv' /\ MetricsGoverned'
    BY <1>1, <1>2, NextPreserves, MetricsStayGoverned DEF ObsIInv
  <1>4. DOMAIN report' = DOMAIN report \ {b}
    <2>1. CASE b \in DOMAIN report
      BY <2>1 DEF CommitObservation, AbandonObservation, RecordDrift, AbandonReport, Forget
    <2>2. CASE b \notin DOMAIN report
      <3>1. UNCHANGED vars
        BY <2>2 DEF CommitObservation, AbandonObservation
      <3>2. QED
        BY <2>2, <3>1 DEF vars
    <2>3. QED
      BY <2>1, <2>2
  <1>5. BreachesReported'
    BY <1>1, <1>4 DEF ObsIInv, BreachesReported
  <1>6. QED
    BY <1>1, <1>3, <1>5

LEMMA AbandonObservationPreserves ==
    ASSUME ObsIInv, NEW b \in Reports, AbandonObservation(b)
    PROVE  ObsIInv'
  <1>1. /\ b \in DOMAIN measuring
        /\ DOMAIN measuring' = DOMAIN measuring \ {b}
        /\ \A c \in DOMAIN measuring' : measuring'[c] = measuring[c]
        /\ metric' = metric /\ Defined' = Defined
        /\ IInv' /\ MetricsGoverned' /\ BreachesReported'
    BY ReportLeft
  <1>2. observation' = observation
    BY DEF AbandonObservation
  <1>3. ReportsApart'
    BY <1>1, <1>2 DEF ObsIInv, ReportsApart
  <1>4. ObservedOnce' /\ AlertsExplained'
    BY <1>1, <1>2, AlertsStayExplained DEF ObsIInv, ObservedOnce
  <1>5. QED
    BY <1>1, <1>2, <1>3, <1>4 DEF ObsIInv

LEMMA CommitObservationPreserves ==
    ASSUME ObsIInv, NEW b \in Reports, CommitObservation(b)
    PROVE  ObsIInv'
  <1>1. /\ b \in DOMAIN measuring
        /\ DOMAIN measuring' = DOMAIN measuring \ {b}
        /\ \A c \in DOMAIN measuring' : measuring'[c] = measuring[c]
        /\ metric' = metric /\ Defined' = Defined
        /\ IInv' /\ MetricsGoverned' /\ BreachesReported'
    BY ReportLeft
  <1>2. PICK key, m, value : key = measuring[b].measurement.idempotency_key
                             /\ m = measuring[b].measurement.metric
                             /\ value = measuring[b].measurement.value
    OBVIOUS
  <1>3. /\ key \in Keys /\ m \in Defined
        /\ observation[key] = << >>
        /\ \A c \in DOMAIN measuring :
              measuring[c].phase # "received" /\ measuring[c].measurement.idempotency_key = key
                 => c = b
    BY <1>1, <1>2 DEF ObsIInv, ReportsApart, CommitObservation
  <1>4. PICK row :
           /\ row.metric = m /\ row.value = value /\ (row.alert <=> Breaches(m, value))
           /\ observation' = [observation EXCEPT ![key] = Append(observation[key], row)]
    <2>1. PICK report_of : report_of = measuring[b].measurement
      OBVIOUS
    <2>2. PICK row :
             row = [metric |-> report_of.metric, value |-> report_of.value,
                    observed_at |-> report_of.observed_at,
                    alert |-> Breaches(report_of.metric, report_of.value)]
      OBVIOUS
    <2>3. observation' = [observation EXCEPT ![report_of.idempotency_key] = Append(@, row)]
      BY <2>1, <2>2 DEF CommitObservation
    <2>4. row.metric = report_of.metric /\ row.value = report_of.value
          /\ (row.alert <=> Breaches(report_of.metric, report_of.value))
      BY <2>2
    <2>5. /\ row.metric = m /\ row.value = value /\ (row.alert <=> Breaches(m, value))
          /\ observation' = [observation EXCEPT ![key] = Append(observation[key], row)]
      <3>1. report_of.metric = m /\ report_of.value = value /\ report_of.idempotency_key = key
        BY <1>2, <2>1
      <3>2. Breaches(report_of.metric, report_of.value) <=> Breaches(m, value)
        BY <3>1 DEF Breaches
      <3>3. row.metric = m /\ row.value = value /\ (row.alert <=> Breaches(m, value))
        BY <2>4, <3>1, <3>2
      <3>4. observation' = [observation EXCEPT ![key] = Append(observation[key], row)]
        BY <2>3, <3>1
      <3>5. QED
        BY <3>3, <3>4
    <2>6. QED
      BY <2>5
  <1>6. /\ DOMAIN observation' = Keys
        /\ observation'[key] = << row >>
        /\ \A k \in Keys : k # key => observation'[k] = observation[k]
    <2>1. Append(<< >>, row) = << row >>
      OBVIOUS
    <2>2. observation' = [observation EXCEPT ![key] = << row >>]
      BY <1>3, <1>4, <2>1
    <2>3. DOMAIN observation = Keys
      BY DEF ObsIInv
    <2>4. QED
      BY <1>3, <2>2, <2>3
  <1>7. ReportsApart'
    BY <1>1, <1>3, <1>6 DEF ObsIInv, ReportsApart
  <1>8. ObservedOnce'
    <2>1. SUFFICES ASSUME NEW k \in Keys
                   PROVE  Len(observation'[k]) <= 1
      BY DEF ObservedOnce
    <2>2. CASE k = key
      <3>1. Len(<< row >>) = 1
        OBVIOUS
      <3>2. Len(observation'[k]) = 1
        BY <1>6, <2>2, <3>1
      <3>3. QED
        BY <3>2
    <2>3. CASE k # key
      BY <1>6, <2>3 DEF ObsIInv, ObservedOnce
    <2>4. QED
      BY <2>2, <2>3
  <1>9. AlertsExplained'
    <2>1. SUFFICES ASSUME NEW k \in Keys, NEW n \in DOMAIN observation'[k], NEW r,
                          r = observation'[k][n]
                   PROVE  r.metric \in Defined' /\ (r.alert <=> Breaches(r.metric, r.value)')
      BY DEF AlertsExplained
    <2>2. r.metric \in Defined /\ (r.alert <=> Breaches(r.metric, r.value))
      <3>1. CASE k = key
        <4>1. r = row
          BY <1>6, <2>1, <3>1
        <4>2. QED
          BY <1>3, <1>4, <4>1
      <3>2. CASE k # key
        BY <1>6, <2>1, <3>2 DEF ObsIInv, AlertsExplained
      <3>3. QED
        BY <3>1, <3>2
    <2>3. QED
      BY <1>1, <2>2 DEF Breaches
  <1>10. QED
    BY <1>1, <1>6, <1>7, <1>8, <1>9 DEF ObsIInv

-----------------------------------------------------------------------------
(* All steps. *)

LEMMA ObsInitEstablishes ==
    ASSUME ObsInit
    PROVE  ObsIInv
  <1>1. IInv /\ DOMAIN report = {}
    BY InitEstablishes DEF ObsInit, Init
  <1>2. DOMAIN metric = {} /\ DOMAIN measuring = {}
        /\ DOMAIN observation = Keys /\ \A k \in Keys : observation[k] = << >>
    BY DEF ObsInit
  <1>3. MetricsGoverned /\ ReportsApart /\ BreachesReported
    BY <1>1, <1>2 DEF MetricsGoverned, ReportsApart, BreachesReported, Defined
  <1>4. ObservedOnce /\ AlertsExplained
    BY <1>2 DEF ObservedOnce, AlertsExplained
  <1>5. QED
    BY <1>1, <1>2, <1>3, <1>4 DEF ObsIInv

LEMMA ObsNextPreserves ==
    ASSUME ObsIInv, [ObsNext]_<<vars, obsVars>>
    PROVE  ObsIInv'
  <1>1. CASE OtherLifecycleStep /\ UNCHANGED obsVars
    <2>1. report' = report
      BY <1>1 DEF OtherLifecycleStep, AssessmentStep, HumanStep, PacerStep, Assess, LoadInitiative,
         RecordNoTransition, ProposeTransition, AdvanceAutomatically, AbandonAssessment, Hold, Resume,
         ApproveTransition, RejectTransition, PromoteCandidate, SlaElapses, StartEvaluation,
         CommitEvaluation, AbandonEvaluation, sessions, EndAssessment
    <2>2. QED
      BY <1>1, <2>1, EveryStepIsLifecycleStep, LifecyclePreserves
  <1>2. CASE UNCHANGED <<vars, obsVars>>
    <2>1. report' = report /\ UNCHANGED obsVars
      BY <1>2 DEF vars
    <2>2. QED
      BY <2>1, EveryStepIsLifecycleStep, LifecyclePreserves
  <1>3. QED
    BY <1>1, <1>2, DefineMetricPreserves, ReceivePreserves, FlushPreserves, ReadInitiativePreserves,
       CommitObservationPreserves, AbandonObservationPreserves DEF ObsNext, ReportStep

\* Whatever is measured and reported beside whatever the lifecycle does.
THEOREM ObsInvariance == ObsSpec => []ObsIInv
  <1>1. ObsInit => ObsIInv
    BY ObsInitEstablishes
  <1>2. ObsIInv /\ [ObsNext]_<<vars, obsVars>> => ObsIInv'
    BY ObsNextPreserves
  <1>3. QED
    BY <1>1, <1>2, PTL DEF ObsSpec

\* However often a measurement is reported under its key, and however many reports find the
\* key unused at the same time, it is observed once (uq_metric_observation_idempotency_key).
THEOREM KeysObservedOnce == ObsSpec => []ObservedOnce
  BY ObsInvariance, PTL DEF ObsIInv

\* An observation has an alert exactly if it breaches the SLO that governs its metric, also
\* after any number of later definitions (record_observation, define_metric).
THEOREM AlertsGoverned == ObsSpec => []AlertsExplained
  BY ObsInvariance, PTL DEF ObsIInv

\* With everything Sentinel does the initiatives only take steps of Lifecycle, so what is
\* proved of Lifecycle holds here: record_observation checks no stage, and still only marks
\* initiatives that have reached the measured stages.
THEOREM LifecycleImplemented == ObsSpec => ImplementsLifecycle
  <1>1. ObsInit => Init
    BY DEF ObsInit
  <1>2. ObsIInv /\ [ObsNext]_<<vars, obsVars>> => [Next]_vars
    BY EveryStepIsLifecycleStep
  <1>3. QED
    BY <1>1, <1>2, ObsInvariance, PTL DEF ObsSpec, ImplementsLifecycle, Spec

\* A held initiative stands with metric reports in progress, too: a drift is compared with
\* the version of the hold.
THEOREM HeldStandsBesideReports == ObsSpec => HeldInitiativeStands
  BY LifecycleImplemented, HeldStands DEF ImplementsLifecycle

-----------------------------------------------------------------------------
(* Realized value: the latest observation of a metric. *)

\* Reports are of measurements, and what they observed has a time.
TimesKnown ==
    /\ \A b \in DOMAIN measuring : measuring[b].measurement \in Measurements
    /\ \A k \in Keys : \A n \in DOMAIN observation[k] : observation[k][n].observed_at \in Nat

HasLatest(rowsOfMetric) ==
    \E row \in rowsOfMetric : \A other \in rowsOfMetric : row.observed_at >= other.observed_at

\* What Realizer orders by has a last element, although nothing bounds the number of keys.
LatestExists ==
    \A m \in Metric : ObservationsOf(observation, m) # {} => HasLatest(ObservationsOf(observation, m))

LEMMA LatestTimeIsLatest ==
    ASSUME NEW S, HasLatest(S)
    PROVE  \E row \in S : /\ LatestTime(S) = row.observed_at
                          /\ \A other \in S : LatestTime(S) >= other.observed_at
  <1>1. PICK row : row = CHOOSE r \in S : \A other \in S : r.observed_at >= other.observed_at
    OBVIOUS
  <1>2. row \in S /\ \A other \in S : row.observed_at >= other.observed_at
    BY <1>1 DEF HasLatest
  <1>3. LatestTime(S) = row.observed_at
    BY <1>1 DEF LatestTime
  <1>4. QED
    BY <1>2, <1>3

\* One more row: there is a latest one again, and it is no earlier.
LEMMA LatestAdvances ==
    ASSUME NEW S, NEW row, row.observed_at \in Nat, \A r \in S : r.observed_at \in Nat,
           S # {} => HasLatest(S)
    PROVE  /\ HasLatest(S \cup {row})
           /\ S # {} => LatestTime(S \cup {row}) >= LatestTime(S)
  <1>1. HasLatest(S \cup {row})
    <2>1. CASE S = {}
      BY <2>1 DEF HasLatest
    <2>2. CASE S # {}
      <3>1. PICK last \in S : \A other \in S : last.observed_at >= other.observed_at
        BY <2>2 DEF HasLatest
      <3>2. CASE last.observed_at >= row.observed_at
        <4>1. \A other \in S \cup {row} : last.observed_at >= other.observed_at
          BY <3>1, <3>2
        <4>2. QED
          BY <4>1 DEF HasLatest
      <3>3. CASE ~(last.observed_at >= row.observed_at)
        <4>1. \A other \in S \cup {row} : row.observed_at >= other.observed_at
          BY <3>1, <3>3
        <4>2. QED
          BY <4>1 DEF HasLatest
      <3>4. QED
        BY <3>2, <3>3
    <2>3. QED
      BY <2>1, <2>2
  <1>2. ASSUME S # {}
        PROVE  LatestTime(S \cup {row}) >= LatestTime(S)
    <2>1. PICK last \in S : LatestTime(S) = last.observed_at
      BY <1>2, LatestTimeIsLatest
    <2>2. \A other \in S \cup {row} : LatestTime(S \cup {row}) >= other.observed_at
      BY <1>1, LatestTimeIsLatest
    <2>3. QED
      BY <2>1, <2>2
  <1>3. QED
    BY <1>1, <1>2

\* The observations of a metric, spelled out.
LEMMA ObservationsMember ==
    ASSUME NEW obs, NEW m, NEW row
    PROVE  row \in ObservationsOf(obs, m)
              <=> row.metric = m /\ \E k \in Keys : \E n \in DOMAIN obs[k] : row = obs[k][n]
  BY DEF ObservationsOf

\* What a step does to the observations: nothing, or one row of a used-up key is added.
Records(row) ==
    /\ row \in ObservationRow
    /\ \E key \in Keys :
          /\ observation[key] = << >>
          /\ observation' = [k \in Keys |-> IF k = key THEN << row >> ELSE observation[k]]

LEMMA EveryStepRecords ==
    ASSUME ObsIInv, TimesKnown, [ObsNext]_<<vars, obsVars>>
    PROVE  /\ \A b \in DOMAIN measuring' : measuring'[b].measurement \in Measurements
           /\ observation' = observation \/ \E row : Records(row)
  <1>1. CASE UNCHANGED obsVars
    BY <1>1 DEF obsVars, TimesKnown
  <1>2. ASSUME NEW m \in Metric, NEW definition \in Definitions, DefineMetric(m, definition)
        PROVE  measuring' = measuring /\ observation' = observation
    BY <1>2 DEF DefineMetric
  <1>3. ASSUME NEW b \in Reports, NEW measurement \in Measurements, Receive(b, measurement)
        PROVE  /\ \A c \in DOMAIN measuring' : measuring'[c].measurement \in Measurements
               /\ observation' = observation
    <2>1. PICK new : /\ new = [measurement |-> measurement, phase |-> "received"]
                     /\ measuring' = Put(measuring, b, new)
      BY <1>3 DEF Receive
    <2>2. new.measurement \in Measurements
      BY <2>1
    <2>3. QED
      <3>1. /\ DOMAIN measuring' = DOMAIN measuring \cup {b}
            /\ measuring'[b] = new
            /\ \A c \in DOMAIN measuring : c # b => measuring'[c] = measuring[c]
        BY <2>1 DEF Put
      <3>2. \A c \in DOMAIN measuring : measuring[c].measurement \in Measurements
        BY DEF TimesKnown
      <3>3. \A c \in DOMAIN measuring' : measuring'[c].measurement \in Measurements
        BY <2>2, <3>1, <3>2
      <3>4. QED
        BY <1>3, <3>3 DEF Receive
  <1>4. ASSUME NEW b \in Reports, Flush(b) \/ ReadInitiative(b)
        PROVE  /\ \A c \in DOMAIN measuring' : measuring'[c].measurement \in Measurements
               /\ observation' = observation
    <2>1. PICK phase : b \in DOMAIN measuring /\ measuring' = [measuring EXCEPT ![b].phase = phase]
                       /\ observation' = observation
      BY <1>4 DEF Flush, ReadInitiative
    <2>2. /\ DOMAIN measuring' = DOMAIN measuring
          /\ measuring'[b].measurement = measuring[b].measurement
          /\ \A c \in DOMAIN measuring : c # b => measuring'[c] = measuring[c]
      BY <2>1, PhaseMoved
    <2>3. QED
      BY <2>1, <2>2 DEF TimesKnown
  <1>5. ASSUME NEW b \in Reports, CommitObservation(b) \/ AbandonObservation(b)
        PROVE  \A c \in DOMAIN measuring' : measuring'[c].measurement \in Measurements
    <2>1. /\ DOMAIN measuring' = DOMAIN measuring \ {b}
          /\ \A c \in DOMAIN measuring' : measuring'[c] = measuring[c]
      BY <1>5, ReportLeft
    <2>2. QED
      BY <2>1 DEF TimesKnown
  <1>6. ASSUME NEW b \in Reports, AbandonObservation(b)
        PROVE  observation' = observation
    BY <1>6 DEF AbandonObservation
  <1>7. ASSUME NEW b \in Reports, CommitObservation(b)
        PROVE  \E row : Records(row)
    <2>1. PICK of, key : of = measuring[b].measurement /\ key = of.idempotency_key
      OBVIOUS
    <2>2. /\ of \in Measurement /\ key \in Keys
          /\ of.metric \in Metric /\ of.value \in Int /\ of.observed_at \in Nat
      BY <1>7, <2>1, MeasurementsAssumption DEF TimesKnown, CommitObservation, Measurement
    <2>3. observation[key] = << >> /\ DOMAIN observation = Keys
      BY <1>7, <2>1 DEF CommitObservation, ObsIInv, ReportsApart
    <2>4. PICK row :
             /\ row = [metric |-> of.metric, value |-> of.value, observed_at |-> of.observed_at,
                       alert |-> Breaches(of.metric, of.value)]
             /\ observation' = [observation EXCEPT ![of.idempotency_key] = Append(@, row)]
      BY <1>7, <2>1 DEF CommitObservation
    <2>5. row \in ObservationRow
      <3>1. Breaches(of.metric, of.value) \in BOOLEAN
        BY DEF Breaches
      <3>2. QED
        BY <2>2, <2>4, <3>1 DEF ObservationRow
    <2>6. observation' = [k \in Keys |-> IF k = key THEN << row >> ELSE observation[k]]
      <3>1. Append(<< >>, row) = << row >>
        OBVIOUS
      <3>2. QED
        BY <2>1, <2>3, <2>4, <3>1
    <2>7. Records(row)
      BY <2>2, <2>3, <2>5, <2>6 DEF Records
    <2>8. QED
      BY <2>7
  <1>8. CASE UNCHANGED <<vars, obsVars>>
    BY <1>1, <1>8
  <1>9. CASE ObsNext
    BY <1>1, <1>2, <1>3, <1>4, <1>5, <1>6, <1>7, <1>9 DEF ObsNext, ReportStep, TimesKnown
  <1>10. QED
    BY <1>8, <1>9

\* The observations of a metric after a step: as before, or with one more.
LEMMA ObservationsGrow ==
    ASSUME NEW row, Records(row), NEW m
    PROVE  \/ ObservationsOf(observation', m) = ObservationsOf(observation, m)
           \/ ObservationsOf(observation', m) = ObservationsOf(observation, m) \cup {row}
  <1>1. PICK key \in Keys :
           /\ observation[key] = << >>
           /\ observation'[key] = << row >>
           /\ \A k \in Keys : k # key => observation'[k] = observation[k]
    BY DEF Records
  <1>2. DOMAIN << row >> = {1} /\ << row >>[1] = row
    OBVIOUS
  <1>3. \A r : (\E k \in Keys : \E n \in DOMAIN observation'[k] : r = observation'[k][n])
               <=> r = row \/ \E k \in Keys : \E n \in DOMAIN observation[k] : r = observation[k][n]
    <2>1. SUFFICES ASSUME NEW r
                   PROVE  (\E k \in Keys : \E n \in DOMAIN observation'[k] : r = observation'[k][n])
               <=> r = row \/ \E k \in Keys : \E n \in DOMAIN observation[k] : r = observation[k][n]
      OBVIOUS
    <2>2. ASSUME NEW k \in Keys
          PROVE  (\E n \in DOMAIN observation'[k] : r = observation'[k][n])
                    <=> (k = key /\ r = row) \/ \E n \in DOMAIN observation[k] : r = observation[k][n]
      <3>1. CASE k = key
        BY <1>1, <1>2, <3>1
      <3>2. CASE k # key
        BY <1>1, <3>2
      <3>3. QED
        BY <3>1, <3>2
    <2>3. QED
      BY <1>1, <2>2
  <1>4. \A r : r \in ObservationsOf(observation', m)
               <=> r \in ObservationsOf(observation, m) \/ (r = row /\ row.metric = m)
    BY <1>3, ObservationsMember
  <1>5. CASE row.metric = m
    BY <1>4, <1>5
  <1>6. CASE row.metric # m
    BY <1>4, <1>6
  <1>7. QED
    BY <1>5, <1>6

LEMMA ObservationsTimed ==
    ASSUME TimesKnown, NEW m, NEW row \in ObservationsOf(observation, m)
    PROVE  row.observed_at \in Nat
  BY ObservationsMember DEF TimesKnown

LEMMA ValuesAdvance ==
    ASSUME ObsIInv, TimesKnown, LatestExists, [ObsNext]_<<vars, obsVars>>
    PROVE  /\ TimesKnown' /\ LatestExists'
           /\ \A m \in Metric : ObservationsOf(observation, m) # {} =>
                 LatestTime(ObservationsOf(observation', m)) >= LatestTime(ObservationsOf(observation, m))
  <1>1. /\ \A b \in DOMAIN measuring' : measuring'[b].measurement \in Measurements
        /\ observation' = observation \/ \E row : Records(row)
    BY EveryStepRecords
  <1>2. TimesKnown'
    <2>1. \A k \in Keys : \A n \in DOMAIN observation'[k] : observation'[k][n].observed_at \in Nat
      <3>1. CASE observation' = observation
        BY <3>1 DEF TimesKnown
      <3>2. ASSUME NEW row, Records(row)
            PROVE  \A k \in Keys : \A n \in DOMAIN observation'[k] : observation'[k][n].observed_at \in Nat
        <4>1. DOMAIN << row >> = {1} /\ << row >>[1] = row
          OBVIOUS
        <4>2. row.observed_at \in Nat
          BY <3>2 DEF Records, ObservationRow
        <4>3. QED
          BY <3>2, <4>1, <4>2 DEF Records, TimesKnown
      <3>3. QED
        BY <1>1, <3>1, <3>2
    <2>2. QED
      BY <1>1, <2>1 DEF TimesKnown
  <1>3. ASSUME NEW m \in Metric
        PROVE  /\ ObservationsOf(observation', m) # {} => HasLatest(ObservationsOf(observation', m))
               /\ ObservationsOf(observation, m) # {} =>
                     LatestTime(ObservationsOf(observation', m))
                        >= LatestTime(ObservationsOf(observation, m))
    <2>1. PICK S, T : S = ObservationsOf(observation, m) /\ T = ObservationsOf(observation', m)
      OBVIOUS
    <2>2. (\A r \in S : r.observed_at \in Nat) /\ (S # {} => HasLatest(S))
      BY <2>1, ObservationsTimed DEF LatestExists
    <2>3. CASE T = S
      <3>1. S # {} => LatestTime(S) \in Nat
        BY <2>2, LatestTimeIsLatest
      <3>2. QED
        BY <2>1, <2>2, <2>3, <3>1
    <2>4. ASSUME NEW row, row.observed_at \in Nat, T = S \cup {row}
          PROVE  (T # {} => HasLatest(T)) /\ (S # {} => LatestTime(T) >= LatestTime(S))
      BY <2>2, <2>4, LatestAdvances
    <2>5. T = S \/ \E row : row.observed_at \in Nat /\ T = S \cup {row}
      <3>1. \A row : Records(row) => row.observed_at \in Nat
        BY DEF Records, ObservationRow
      <3>2. QED
        BY <1>1, <2>1, <3>1, ObservationsGrow
    <2>6. QED
      BY <2>1, <2>3, <2>4, <2>5
  <1>4. QED
    BY <1>2, <1>3 DEF LatestExists

\* A measurement that arrives late or again never takes the place of a later one: the value
\* that Realizer shows of a metric never goes back in time (summarize, ORDER BY observed_at).
THEOREM ValuesNeverGoBack == ObsSpec => ValueNeverGoesBack
  <1>1. ObsInit => TimesKnown /\ LatestExists
    BY ObservationsMember DEF ObsInit, TimesKnown, LatestExists
  <1>2. ObsIInv /\ TimesKnown /\ LatestExists /\ [ObsNext]_<<vars, obsVars>>
           => TimesKnown' /\ LatestExists'
    BY ValuesAdvance
  <1>3. ObsIInv /\ TimesKnown /\ LatestExists /\ [ObsNext]_<<vars, obsVars>> =>
           [\A m \in Metric : ObservationsOf(observation, m) # {} =>
               LatestTime(ObservationsOf(observation', m)) >= LatestTime(ObservationsOf(observation, m))
           ]_<<vars, obsVars>>
    BY ValuesAdvance
  <1>4. QED
    BY <1>1, <1>2, <1>3, ObsInvariance, PTL DEF ObsSpec, ValueNeverGoesBack

-----------------------------------------------------------------------------
(* Types. *)

\* A report is in one of its phases.
PhasesKnown ==
    /\ DOMAIN measuring \subseteq Reports
    /\ \A b \in DOMAIN measuring : measuring[b].phase \in {"received", "flushed", "checked"}

\* Definitions are only added, phases moved on, and rows recorded as they were measured.
LEMMA ObsTypesKept ==
    ASSUME ObsIInv, TimesKnown, ObsTypeOK, [ObsNext]_<<vars, obsVars>>
    PROVE  ObsTypeOK'
  <1>1. Defined' \subseteq Metric /\ \A m \in Defined' : metric'[m] \in Definition
    <2>1. CASE metric' = metric
      BY <2>1 DEF ObsTypeOK, Defined
    <2>2. ASSUME NEW m \in Metric, NEW definition \in Definitions, DefineMetric(m, definition)
          PROVE  Defined' \subseteq Metric /\ \A d \in Defined' : metric'[d] \in Definition
      <3>1. metric' = Put(metric, m, definition)
        BY <2>2 DEF DefineMetric
      <3>2. definition \in Definition
        BY DefinitionsAssumption
      <3>3. /\ Defined' = Defined \cup {m} /\ metric'[m] = definition
            /\ \A d \in Defined : d # m => metric'[d] = metric[d]
        BY <3>1 DEF Put, Defined
      <3>4. QED
        BY <3>2, <3>3 DEF ObsTypeOK
    <2>3. ASSUME NEW b \in Reports, ReportStep(b)
          PROVE  metric' = metric
      BY <2>3 DEF ReportStep, Receive, Flush, ReadInitiative, CommitObservation, AbandonObservation
    <2>4. QED
      BY <2>1, <2>2, <2>3 DEF ObsNext, obsVars
  <1>2. PhasesKnown'
    <2>0. PhasesKnown
      BY DEF ObsTypeOK, PhasesKnown
    <2>1. CASE measuring' = measuring
      BY <2>0, <2>1 DEF PhasesKnown
    <2>2. ASSUME NEW b \in Reports, NEW measurement \in Measurements, Receive(b, measurement)
          PROVE  PhasesKnown'
      <3>1. PICK new : /\ new = [measurement |-> measurement, phase |-> "received"]
                       /\ measuring' = Put(measuring, b, new)
        BY <2>2 DEF Receive
      <3>2. new.phase = "received"
        BY <3>1
      <3>3. /\ DOMAIN measuring' = DOMAIN measuring \cup {b}
            /\ measuring'[b] = new
            /\ \A c \in DOMAIN measuring : c # b => measuring'[c] = measuring[c]
        BY <3>1 DEF Put
      <3>4. QED
        BY <2>0, <3>2, <3>3 DEF PhasesKnown
    <2>3. ASSUME NEW b \in Reports, Flush(b) \/ ReadInitiative(b)
          PROVE  PhasesKnown'
      <3>1. PICK phase \in {"flushed", "checked"} :
               b \in DOMAIN measuring /\ measuring' = [measuring EXCEPT ![b].phase = phase]
        BY <2>3 DEF Flush, ReadInitiative
      <3>2. /\ DOMAIN measuring' = DOMAIN measuring
            /\ measuring'[b].phase = phase
            /\ \A c \in DOMAIN measuring : c # b => measuring'[c] = measuring[c]
        BY <3>1, PhaseMoved
      <3>3. QED
        BY <2>0, <3>1, <3>2 DEF PhasesKnown
    <2>4. ASSUME NEW b \in Reports, CommitObservation(b) \/ AbandonObservation(b)
          PROVE  PhasesKnown'
      BY <2>0, <2>4, ReportLeft DEF PhasesKnown
    <2>5. QED
      BY <2>1, <2>2, <2>3, <2>4 DEF ObsNext, ReportStep, obsVars, DefineMetric
  <1>3. observation' \in [Keys -> Seq(ObservationRow)]
    <2>1. CASE observation' = observation
      BY <2>1 DEF ObsTypeOK
    <2>2. ASSUME NEW row, Records(row)
          PROVE  observation' \in [Keys -> Seq(ObservationRow)]
      <3>1. << row >> \in Seq(ObservationRow)
        BY <2>2 DEF Records
      <3>2. QED
        BY <2>2, <3>1 DEF Records, ObsTypeOK
    <2>3. QED
      BY <2>1, <2>2, EveryStepRecords
  <1>4. \A b \in DOMAIN measuring' :
           measuring'[b] \in [measurement: Measurements, phase: {"received", "flushed", "checked"}]
    <2>1. SUFFICES ASSUME NEW b \in DOMAIN measuring'
                   PROVE  measuring'[b] \in
                             [measurement: Measurements, phase: {"received", "flushed", "checked"}]
      OBVIOUS
    <2>2. measuring'[b] = [measurement |-> measuring'[b].measurement, phase |-> measuring'[b].phase]
      BY ObsNextPreserves DEF ObsIInv, ReportsApart
    <2>3. measuring'[b].measurement \in Measurements
      BY EveryStepRecords
    <2>4. QED
      BY <1>2, <2>2, <2>3 DEF PhasesKnown
  <1>5. QED
    BY <1>1, <1>2, <1>3, <1>4 DEF ObsTypeOK, PhasesKnown

\* What is defined, measured and observed has its type, and so have the rows and sessions of
\* the lifecycle beside it.
THEOREM ObsTypeCorrect == ObsSpec => [](TypeOK /\ ObsTypeOK)
  <1>1. ObsInit => TimesKnown /\ LatestExists /\ ObsTypeOK
    <2>1. ASSUME ObsInit
          PROVE  ObsTypeOK
      <3>1. DOMAIN metric = {} /\ DOMAIN measuring = {}
            /\ observation = [k \in Keys |-> << >>]
        BY <2>1 DEF ObsInit
      <3>2. << >> \in Seq(ObservationRow)
        OBVIOUS
      <3>3. QED
        BY <3>1, <3>2 DEF ObsTypeOK, Defined
    <2>2. QED
      BY <2>1, ObservationsMember DEF ObsInit, TimesKnown, LatestExists
  <1>2. ObsIInv /\ (TimesKnown /\ LatestExists /\ ObsTypeOK) /\ [ObsNext]_<<vars, obsVars>>
           => (TimesKnown /\ LatestExists /\ ObsTypeOK)'
    BY ValuesAdvance, ObsTypesKept
  <1>3. ObsIInv => TypeOK
    BY DEF ObsIInv, IInv
  <1>4. QED
    BY <1>1, <1>2, <1>3, ObsInvariance, PTL DEF ObsSpec

=============================================================================
