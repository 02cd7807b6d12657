------------------------------ MODULE Lifecycle ------------------------------
(***************************************************************************)
(* The authoritative lifecycle of an initiative: the rows of the tables    *)
(* initiatives and lifecycle_transitions, and everything that writes them: *)
(* StageMaster (oliver/utils/lifecycle/service.py) on behalf of assessed   *)
(* emails and of human commands, Pacer's stall detection                   *)
(* (utils/pacer/service.py) and Sentinel's SLO drift                       *)
(* (utils/operations/service.py).                                          *)
(*                                                                         *)
(* Every writer is a database session under READ COMMITTED.  Human         *)
(* commands lock the rows they decide on, so each of them is one step.     *)
(* The assessment of an email, a Pacer evaluation and a metric report read *)
(* first and write later, and rely on a compare-and-swap on                *)
(* initiatives.version; each of them is a reading step and a committing    *)
(* step, and the session can fail in between.                              *)
(*                                                                         *)
(* Abstracted: reasons, actors and timestamps; the assessment itself (a    *)
(* gate outcome chosen among those its stage can produce); the two advance *)
(* outcomes ADVANCE and CONDITIONAL_ADVANCE, which StageMaster does not    *)
(* distinguish; the age of a stage (overdue says that it reached the SLA). *)
(***************************************************************************)
EXTENDS Naturals, FiniteSets

CONSTANTS
    Initiatives,        \* identifiers of initiatives
    Transitions,        \* identifiers of lifecycle_transitions rows
    Assessments,        \* assessed emails that can be in progress together
    Evaluations,        \* Pacer evaluations that can be in progress together
    Reports,            \* metric reports that can be in progress together
    NoInitiative,       \* "the thread is not linked to an initiative"
    LastStage,          \* the terminal stage: DI5 in the code
    FirstMeasuredStage, \* the first stage with governed metrics: DI3 in the code
    MaxVersion          \* bound: no new work starts on a row of this version

ASSUME StageAssumption == LastStage \in Nat /\ LastStage >= 2
ASSUME MeasuredAssumption == FirstMeasuredStage \in 1..LastStage
ASSUME BoundAssumption == MaxVersion \in Nat \ {0}
ASSUME NoInitiativeAssumption == NoInitiative \notin Initiatives

VARIABLES
    initiative, \* the row of each initiative, committed or (not persisted) its defaults
    overdue,    \* has the initiative been in its stage for the stage's SLA?
    transition, \* the committed lifecycle_transitions rows, by identifier
    assessed,   \* assessments whose gate outcome is known, by assessment
    loaded,     \* the initiative row each assessment has read since
    evaluation, \* the versions each Pacer evaluation read of the rows it found stalled
    report,     \* the version each breaching metric report read
    stalls      \* how many INITIATIVE_STALLED events were recorded, per initiative and stage

rows == <<initiative, overdue, transition, stalls>>
sessions == <<assessed, loaded, evaluation, report>>
vars == <<initiative, overdue, transition, assessed, loaded, evaluation, report, stalls>>

-----------------------------------------------------------------------------

Stages == 1..LastStage
NoStage == 0
LifecycleStates == {"Discovered", "Assessed", "Active", "Stalled", "Drifted", "OnHold", "NoGo"}
GateOutcomes == {"ADVANCE", "DO_NOT_ADVANCE", "HOLD_FOR_EVIDENCE", "CONTINUE_MONITORING"}

InitiativeRow ==
    [persisted: BOOLEAN, current_stage: Stages, lifecycle_state: LifecycleStates,
     is_on_hold: BOOLEAN, version: Nat]

TransitionRow ==
    [initiative: Initiatives, type: {"ADVANCE", "NO_GO", "HOLD", "RESUME"},
     from_stage: Stages, to_stage: Stages \cup {NoStage},
     status: {"PENDING", "APPLIED", "APPROVED", "REJECTED"}, expected_version: Nat]

Assessment ==
    [thread: Initiatives \cup {NoInitiative}, stage: Stages, outcome: GateOutcomes,
     requires_human_review: BOOLEAN]

Snapshot == [initiative: Initiatives, row: InitiativeRow]

\* The column defaults a new InitiativeDb gets.
NewRow ==
    [persisted |-> FALSE, current_stage |-> 1, lifecycle_state |-> "Assessed",
     is_on_hold |-> FALSE, version |-> 1]

Persisted == {i \in Initiatives : initiative[i].persisted}

\* Rows inserted by a session that has not committed; their identifiers are taken.
Reserved == {loaded[r].initiative : r \in DOMAIN loaded}

\* Maps from identifiers: the committed rows of a table, the sessions in progress.
Put(f, k, value) == [x \in DOMAIN f \cup {k} |-> IF x = k THEN value ELSE f[x]]

Forget(f, k) == [x \in DOMAIN f \ {k} |-> f[x]]

\* Mutated: the UPDATE has lost its version condition.
AssumedUnchanged(i, version) == TRUE

\* The WHERE clause of every unlocked UPDATE of an initiative.
NotChangedSince(i, version) == initiative[i].version = version

\* The gate outcomes the policy engine can return for a stage.
PossibleOutcomes(stage) ==
    IF stage = LastStage THEN {"HOLD_FOR_EVIDENCE", "CONTINUE_MONITORING"}
    ELSE {"ADVANCE", "DO_NOT_ADVANCE", "HOLD_FOR_EVIDENCE"}

-----------------------------------------------------------------------------

Init ==
    /\ initiative = [i \in Initiatives |-> NewRow]
    /\ overdue = [i \in Initiatives |-> FALSE]
    /\ transition = << >>
    /\ assessed = << >>
    /\ loaded = << >>
    /\ evaluation = << >>
    /\ report = << >>
    /\ stalls = [i \in Initiatives |-> [s \in Stages |-> 0]]

\* A session of /respond starts: it reads the stage of the thread's initiative, or
\* takes the first stage when the thread has none, and the agent assesses that stage.
Assess(r, thread) ==
    LET stage == IF thread = NoInitiative THEN 1 ELSE initiative[thread].current_stage
    IN  /\ r \notin DOMAIN assessed
        /\ \E outcome \in PossibleOutcomes(stage), review \in BOOLEAN :
              /\ outcome # "ADVANCE" => review = FALSE
              /\ assessed' = Put(assessed, r,
                    [thread |-> thread, stage |-> stage, outcome |-> outcome,
                     requires_human_review |-> review])
        /\ UNCHANGED <<rows, loaded, evaluation, report>>

\* After the coach has answered, ensure_initiative reads the thread and its row again.  The
\* thread may have been linked, matched or linked to another initiative by then (another
\* session of a thread without initiative overwrites the link), or a row is inserted.
LoadInitiative(r, i) ==
    /\ r \in DOMAIN assessed
    /\ r \notin DOMAIN loaded
    /\ \/ assessed[r].thread = i
       \/ initiative[i].persisted
       \/ assessed[r].thread = NoInitiative /\ i \notin Reserved
    /\ initiative[i].version < MaxVersion
    /\ loaded' = Put(loaded, r, [initiative |-> i, row |-> initiative[i]])
    /\ UNCHANGED <<rows, assessed, evaluation, report>>

\* The session ends; its transaction is committed or rolled back.
EndAssessment(r) ==
    /\ assessed' = Forget(assessed, r)
    /\ loaded' = Forget(loaded, r)

\* A provider error, a lifecycle conflict or a crash: the transaction is rolled back.
AbandonAssessment(r) ==
    /\ r \in DOMAIN assessed
    /\ EndAssessment(r)
    /\ UNCHANGED <<rows, evaluation, report>>

-----------------------------------------------------------------------------
(* StageMaster.process_assessment, on the snapshot the session read. *)

\* transition_for_assessment rejects an assessment of another stage.
ReadyToProcess(r) ==
    /\ r \in DOMAIN loaded
    /\ assessed[r].stage = loaded[r].row.current_stage

DesiredState(row, outcome) ==
    IF row.is_on_hold THEN "OnHold"
    ELSE IF outcome = "HOLD_FOR_EVIDENCE" THEN "Stalled"
    ELSE "Active"

\* Mutated: the last stage is no reason for review.
ReviewRequiredByConfidence(r) ==
    LET row == loaded[r].row
    IN  \/ assessed[r].outcome = "DO_NOT_ADVANCE"
        \/ row.is_on_hold
        \/ assessed[r].requires_human_review

ReviewRequired(r) ==
    LET row == loaded[r].row
    IN  \/ assessed[r].outcome = "DO_NOT_ADVANCE"
        \/ row.is_on_hold
        \/ row.current_stage + 1 = LastStage
        \/ assessed[r].requires_human_review

\* Mutated: the version is not incremented.
SwapLifecycleStateSameVersion(i, expected_version, state) ==
    /\ NotChangedSince(i, expected_version)
    /\ initiative' = [initiative EXCEPT ![i].persisted = TRUE,
                                        ![i].lifecycle_state = state]

\* Mutated: a blind write.
OverwriteLifecycleState(i, expected_version, state) ==
    initiative' = [initiative EXCEPT ![i].persisted = TRUE,
                                     ![i].lifecycle_state = state,
                                     ![i].version = expected_version + 1]

\* UPDATE initiatives SET lifecycle_state, version WHERE id AND version = expected.
SwapLifecycleState(i, expected_version, state) ==
    /\ NotChangedSince(i, expected_version)
    /\ initiative' = [initiative EXCEPT ![i].persisted = TRUE,
                                        ![i].lifecycle_state = state,
                                        ![i].version = expected_version + 1]

\* Mutated: the version is not incremented.
SwapStageSameVersion(i, expected_version, stage) ==
    /\ NotChangedSince(i, expected_version)
    /\ initiative' = [initiative EXCEPT ![i].persisted = TRUE,
                                        ![i].current_stage = stage,
                                        ![i].lifecycle_state = "Active"]
    /\ overdue' = [overdue EXCEPT ![i] = FALSE]

\* Mutated: a blind write.
OverwriteStage(i, expected_version, stage) ==
    /\ initiative' = [initiative EXCEPT ![i].persisted = TRUE,
                                        ![i].current_stage = stage,
                                        ![i].lifecycle_state = "Active",
                                        ![i].version = expected_version + 1]
    /\ overdue' = [overdue EXCEPT ![i] = FALSE]

\* UPDATE initiatives SET current_stage, lifecycle_state, stage_entered_at, version
\* WHERE id AND version = expected.
SwapStage(i, expected_version, stage) ==
    /\ NotChangedSince(i, expected_version)
    /\ initiative' = [initiative EXCEPT ![i].persisted = TRUE,
                                        ![i].current_stage = stage,
                                        ![i].lifecycle_state = "Active",
                                        ![i].version = expected_version + 1]
    /\ overdue' = [overdue EXCEPT ![i] = FALSE]

\* A new lifecycle_transitions row, from the stage and version of the row that was read.
InsertTransition(t, i, row, type, to_stage, status) ==
    /\ t \notin DOMAIN transition
    /\ transition' = Put(transition, t,
          [initiative |-> i, type |-> type, from_stage |-> row.current_stage,
           to_stage |-> to_stage, status |-> status, expected_version |-> row.version])

\* The policy asks for no transition: the lifecycle state alone is brought up to date.
RecordNoTransition(r) ==
    /\ ReadyToProcess(r)
    /\ assessed[r].outcome \in {"HOLD_FOR_EVIDENCE", "CONTINUE_MONITORING"}
    /\ LET i == loaded[r].initiative
           row == loaded[r].row
           desired == DesiredState(row, assessed[r].outcome)
       IN  \/ /\ row.lifecycle_state = desired
              /\ initiative' = [initiative EXCEPT ![i].persisted = TRUE]
           \/ /\ row.lifecycle_state # desired
              /\ SwapLifecycleState(i, row.version, desired)
    /\ EndAssessment(r)
    /\ UNCHANGED <<overdue, transition, evaluation, report, stalls>>

\* A proposal is queued for a human; the initiative is not touched.
ProposeTransition(r, t) ==
    /\ ReadyToProcess(r)
    /\ assessed[r].outcome \in {"ADVANCE", "DO_NOT_ADVANCE"}
    /\ ReviewRequired(r)
    /\ LET i == loaded[r].initiative
           row == loaded[r].row
       IN  /\ IF assessed[r].outcome = "ADVANCE"
              THEN InsertTransition(t, i, row, "ADVANCE", row.current_stage + 1, "PENDING")
              ELSE InsertTransition(t, i, row, "NO_GO", NoStage, "PENDING")
           /\ initiative' = [initiative EXCEPT ![i].persisted = TRUE]
    /\ EndAssessment(r)
    /\ UNCHANGED <<overdue, evaluation, report, stalls>>

\* The policy's own authority: one stage forward, below the last stage.
AdvanceAutomatically(r, t) ==
    /\ ReadyToProcess(r)
    /\ assessed[r].outcome = "ADVANCE"
    /\ ~ReviewRequired(r)
    /\ LET i == loaded[r].initiative
           row == loaded[r].row
       IN  /\ InsertTransition(t, i, row, "ADVANCE", row.current_stage + 1, "APPLIED")
           /\ SwapStage(i, row.version, row.current_stage + 1)
    /\ EndAssessment(r)
    /\ UNCHANGED <<evaluation, report, stalls>>

-----------------------------------------------------------------------------
(* Human commands: the rows they read are locked until they commit. *)

\* _human_state_transition: an APPLIED row from the current stage to itself.
RecordHumanTransition(t, i, type) ==
    InsertTransition(t, i, initiative[i], type, initiative[i].current_stage, "APPLIED")

\* Mutated: an initiative that is on hold is held again.
HoldAgain(i, t) ==
    /\ initiative[i].persisted
    /\ initiative[i].version < MaxVersion
    /\ RecordHumanTransition(t, i, "HOLD")
    /\ initiative' = [initiative EXCEPT ![i].is_on_hold = TRUE,
                                        ![i].lifecycle_state = "OnHold",
                                        ![i].version = @ + 1]
    /\ UNCHANGED <<overdue, sessions, stalls>>

Hold(i, t) ==
    /\ initiative[i].persisted
    /\ ~initiative[i].is_on_hold
    /\ initiative[i].version < MaxVersion
    /\ RecordHumanTransition(t, i, "HOLD")
    /\ initiative' = [initiative EXCEPT ![i].is_on_hold = TRUE,
                                        ![i].lifecycle_state = "OnHold",
                                        ![i].version = @ + 1]
    /\ UNCHANGED <<overdue, sessions, stalls>>

Resume(i, t) ==
    /\ initiative[i].persisted
    /\ initiative[i].is_on_hold
    /\ initiative[i].version < MaxVersion
    /\ RecordHumanTransition(t, i, "RESUME")
    /\ initiative' = [initiative EXCEPT ![i].is_on_hold = FALSE,
                                        ![i].lifecycle_state = "Active",
                                        ![i].version = @ + 1]
    /\ UNCHANGED <<overdue, sessions, stalls>>

\* Mutated: a proposal can be decided twice.
DecidableAgain(t) ==
    /\ t \in DOMAIN transition
    /\ transition[t].type \in {"ADVANCE", "NO_GO"}
    /\ NotChangedSince(transition[t].initiative, transition[t].expected_version)

\* Mutated: a proposal can be decided after the initiative has changed.
DecidableForever(t) ==
    /\ t \in DOMAIN transition
    /\ transition[t].status = "PENDING"

\* decide_transition's checks, with both rows locked.
Decidable(t) ==
    /\ t \in DOMAIN transition
    /\ transition[t].status = "PENDING"
    /\ NotChangedSince(transition[t].initiative, transition[t].expected_version)

ApproveTransition(t) ==
    /\ Decidable(t)
    /\ LET i == transition[t].initiative
       IN  /\ ~initiative[i].is_on_hold
           /\ \/ /\ transition[t].type = "ADVANCE"
                 /\ SwapStage(i, initiative[i].version, transition[t].to_stage)
              \/ /\ transition[t].type = "NO_GO"
                 /\ SwapLifecycleState(i, initiative[i].version, "NoGo")
                 /\ UNCHANGED overdue
    /\ transition' = [transition EXCEPT ![t].status = "APPROVED"]
    /\ UNCHANGED <<sessions, stalls>>

RejectTransition(t) ==
    /\ Decidable(t)
    /\ transition' = [transition EXCEPT ![t].status = "REJECTED"]
    /\ UNCHANGED <<initiative, overdue, sessions, stalls>>

-----------------------------------------------------------------------------
(* Scout, time, Pacer and Sentinel. *)

\* Promotion of a Scout candidate inserts an initiative of its own.
PromoteCandidate(i) ==
    /\ ~initiative[i].persisted
    /\ i \notin Reserved
    /\ initiative' = [initiative EXCEPT ![i].persisted = TRUE,
                                        ![i].lifecycle_state = "Discovered"]
    /\ UNCHANGED <<overdue, transition, sessions, stalls>>

\* Time passes: days_in_stage reaches the SLA of the stage (the last one has none).
SlaElapses(i) ==
    /\ initiative[i].persisted
    /\ initiative[i].current_stage < LastStage
    /\ ~overdue[i]
    /\ overdue' = [overdue EXCEPT ![i] = TRUE]
    /\ UNCHANGED <<initiative, transition, sessions, stalls>>

\* cadence_for's stall_flag, and not already recorded as stalled.
NewlyStalled(i) ==
    /\ initiative[i].persisted
    /\ overdue[i]
    /\ ~initiative[i].is_on_hold
    /\ initiative[i].current_stage < LastStage
    /\ initiative[i].lifecycle_state \notin {"NoGo", "Stalled"}

\* evaluate_all reads every initiative; what it will update follows from that read.
StartEvaluation(p) ==
    /\ p \notin DOMAIN evaluation
    /\ evaluation' = Put(evaluation, p,
          [i \in {j \in Initiatives : NewlyStalled(j)} |-> initiative[i].version])
    /\ UNCHANGED <<rows, assessed, loaded, report>>

\* Mutated: every row that was found stalled is updated.
CommitEvaluationBlindly(p) ==
    /\ p \in DOMAIN evaluation
    /\ initiative' = [i \in Initiatives |->
                         IF i \in DOMAIN evaluation[p]
                         THEN [initiative[i] EXCEPT !.lifecycle_state = "Stalled",
                                                    !.version = evaluation[p][i] + 1]
                         ELSE initiative[i]]
    /\ stalls' = [i \in Initiatives |->
                     IF i \in DOMAIN evaluation[p]
                     THEN [stalls[i] EXCEPT ![initiative[i].current_stage] = @ + 1]
                     ELSE stalls[i]]
    /\ evaluation' = Forget(evaluation, p)
    /\ UNCHANGED <<overdue, transition, assessed, loaded, report>>

\* Each row that did not change since is updated; a row that did is skipped.
CommitEvaluation(p) ==
    /\ p \in DOMAIN evaluation
    /\ LET stalled == {i \in DOMAIN evaluation[p] : NotChangedSince(i, evaluation[p][i])}
       IN  /\ initiative' = [i \in Initiatives |->
                                IF i \in stalled
                                THEN [initiative[i] EXCEPT !.lifecycle_state = "Stalled",
                                                           !.version = evaluation[p][i] + 1]
                                ELSE initiative[i]]
           /\ stalls' = [i \in Initiatives |->
                            IF i \in stalled
                            THEN [stalls[i] EXCEPT ![initiative[i].current_stage] = @ + 1]
                            ELSE stalls[i]]
    /\ evaluation' = Forget(evaluation, p)
    /\ UNCHANGED <<overdue, transition, assessed, loaded, report>>

AbandonEvaluation(p) ==
    /\ p \in DOMAIN evaluation
    /\ evaluation' = Forget(evaluation, p)
    /\ UNCHANGED <<rows, assessed, loaded, report>>

\* A breaching SLO observation reads the initiative and finds that it may drift.
ReadForBreach(b, i) ==
    /\ b \notin DOMAIN report
    /\ initiative[i].persisted
    /\ initiative[i].current_stage >= FirstMeasuredStage
    /\ ~initiative[i].is_on_hold
    /\ initiative[i].lifecycle_state # "NoGo"
    /\ initiative[i].version < MaxVersion
    /\ report' = Put(report, b, [initiative |-> i, version |-> initiative[i].version])
    /\ UNCHANGED <<rows, assessed, loaded, evaluation>>

RecordDrift(b) ==
    /\ b \in DOMAIN report
    /\ SwapLifecycleState(report[b].initiative, report[b].version, "Drifted")
    /\ report' = Forget(report, b)
    /\ UNCHANGED <<overdue, transition, assessed, loaded, evaluation, stalls>>

AbandonReport(b) ==
    /\ b \in DOMAIN report
    /\ report' = Forget(report, b)
    /\ UNCHANGED <<rows, assessed, loaded, evaluation>>

-----------------------------------------------------------------------------

AssessmentStep(r) ==
    \/ \E thread \in Persisted \cup {NoInitiative} : Assess(r, thread)
    \/ \E i \in Initiatives : LoadInitiative(r, i)
    \/ RecordNoTransition(r)
    \/ \E t \in Transitions : ProposeTransition(r, t) \/ AdvanceAutomatically(r, t)
    \/ AbandonAssessment(r)

HumanStep ==
    \/ \E i \in Initiatives, t \in Transitions : Hold(i, t) \/ Resume(i, t)
    \/ \E t \in Transitions : ApproveTransition(t) \/ RejectTransition(t)

PacerStep(p) == StartEvaluation(p) \/ CommitEvaluation(p) \/ AbandonEvaluation(p)

SentinelStep(b) == (\E i \in Initiatives : ReadForBreach(b, i)) \/ RecordDrift(b) \/ AbandonReport(b)

Next ==
    \/ \E r \in Assessments : AssessmentStep(r)
    \/ HumanStep
    \/ \E i \in Initiatives : PromoteCandidate(i) \/ SlaElapses(i)
    \/ \E p \in Evaluations : PacerStep(p)
    \/ \E b \in Reports : SentinelStep(b)

Spec == Init /\ [][Next]_vars

-----------------------------------------------------------------------------
(* Properties. *)

\* The type of every variable.
TypeOK ==
    /\ initiative \in [Initiatives -> InitiativeRow]
    /\ overdue \in [Initiatives -> BOOLEAN]
    /\ stalls \in [Initiatives -> [Stages -> Nat]]
    /\ DOMAIN transition \subseteq Transitions
    /\ \A t \in DOMAIN transition : transition[t] \in TransitionRow
    /\ DOMAIN assessed \subseteq Assessments
    /\ \A r \in DOMAIN assessed : assessed[r] \in Assessment
    /\ DOMAIN loaded \subseteq DOMAIN assessed
    /\ \A r \in DOMAIN loaded : loaded[r] \in Snapshot
    /\ DOMAIN evaluation \subseteq Evaluations
    /\ \A p \in DOMAIN evaluation :
          /\ DOMAIN evaluation[p] \subseteq Initiatives
          /\ \A i \in DOMAIN evaluation[p] : evaluation[p][i] \in Nat
    /\ DOMAIN report \subseteq Reports
    /\ \A b \in DOMAIN report : report[b] \in [initiative : Initiatives, version : Nat]

\* The two columns that say an initiative is held, is_on_hold and lifecycle_state,
\* agree, whichever of assessments, Pacer, Sentinel and people writes them and
\* however stale the row it read.
HoldConsistent ==
    \A i \in Initiatives :
        initiative[i].is_on_hold <=> initiative[i].lifecycle_state = "OnHold"

\* The ADVANCE rows that took effect: applied by the policy or approved by a person.
Effective(t, i) ==
    /\ transition[t].initiative = i
    /\ transition[t].type = "ADVANCE"
    /\ transition[t].status \in {"APPLIED", "APPROVED"}

\* lifecycle_transitions accounts for current_stage: each stage below the current one
\* was left by exactly one effective advance, and no other was left.  Two assessments,
\* or an assessment and an approval, never both move an initiative off one stage.
LedgerExplainsStage ==
    \A i \in Initiatives :
        /\ \A s \in Stages :
              (s < initiative[i].current_stage)
                 <=> \E t \in DOMAIN transition : Effective(t, i) /\ transition[t].from_stage = s
        /\ \A t, u \in DOMAIN transition :
              (/\ Effective(t, i)
               /\ Effective(u, i)
               /\ transition[t].from_stage = transition[u].from_stage) => t = u

\* lifecycle_transitions accounts for is_on_hold: holds and resumes alternate.
LedgerExplainsHold ==
    \A i \in Initiatives :
        LET rowsOf(type) == {t \in DOMAIN transition :
                                transition[t].initiative = i /\ transition[t].type = type}
        IN  Cardinality(rowsOf("HOLD"))
               = Cardinality(rowsOf("RESUME")) + (IF initiative[i].is_on_hold THEN 1 ELSE 0)

\* A proposal that decide_transition still accepts describes the initiative as it is:
\* it leaves the current stage, and for the next one.  Approval applies to_stage
\* without looking at from_stage, so the version check must imply this.
FreshProposalApplies ==
    \A t \in DOMAIN transition :
        Decidable(t) =>
            LET stage == initiative[transition[t].initiative].current_stage
            IN  /\ transition[t].from_stage = stage
                /\ transition[t].to_stage = IF transition[t].type = "ADVANCE" THEN stage + 1
                                            ELSE NoStage

\* The last stage (DI5 Scale) is only ever entered by a person's approval.
LastStageNeedsApproval ==
    \A i \in Initiatives :
        initiative[i].current_stage = LastStage =>
            \E t \in DOMAIN transition :
                /\ Effective(t, i)
                /\ transition[t].to_stage = LastStage
                /\ transition[t].status = "APPROVED"

\* HOLD stops automatic movement: until it is resumed a held initiative keeps its stage
\* and its state, whatever an assessment, Pacer, Sentinel or an approval had read
\* before the hold was committed.
HeldInitiativeStands ==
    [][\A i \in Initiatives :
          initiative[i].is_on_hold /\ initiative'[i].is_on_hold =>
              /\ initiative'[i].current_stage = initiative[i].current_stage
              /\ initiative'[i].lifecycle_state = initiative[i].lifecycle_state]_vars

\* The ledger is append-only but for the one decision of a pending row.
DecisionIsFinal ==
    [][\A t \in DOMAIN transition :
          /\ t \in DOMAIN transition'
          /\ transition[t].status # "PENDING" => transition'[t] = transition[t]]_vars

\* Every committed change of an initiative takes the next version, so that no change
\* goes unseen by a session that compares versions; only its insertion does not.
EveryChangeVersioned ==
    [][\A i \in Initiatives :
          initiative'[i] # initiative[i] =>
              \/ initiative'[i].version = initiative[i].version + 1
              \/ ~initiative[i].persisted /\ initiative'[i].persisted]_vars

\* A stall is recorded only of an initiative that, when the event commits, is overdue
\* in a stage that has an SLA, not held, not closed by a No-Go and not already stalled,
\* although Pacer decided on a row it had read before.
StallJustified ==
    [][\A i \in Initiatives : stalls'[i] # stalls[i] => NewlyStalled(i)]_vars

\* The stage, the hold and the ledger implement the governed ladder: one stage at a
\* time, never while held, to the last stage by a person.
EnteredBy(i, s) ==
    IF \E t \in DOMAIN transition :
          Effective(t, i) /\ transition[t].to_stage = s /\ transition[t].status = "APPROVED"
    THEN "human"
    ELSE IF \E t \in DOMAIN transition : Effective(t, i) /\ transition[t].to_stage = s
    THEN "policy"
    ELSE "none"

Ladder == INSTANCE StageLadder WITH
    stage <- [i \in Initiatives |-> initiative[i].current_stage],
    held <- [i \in Initiatives |-> initiative[i].is_on_hold],
    authority <- [i \in Initiatives |-> [s \in 2..LastStage |-> EnteredBy(i, s)]]

ImplementsLadder == Ladder!LadderSpec

\* What the documents say of a No-Go: docs/01 lists the kill among the irreversible
\* actions that a person confirms.  So an initiative with an approved No-Go climbs no
\* further.
NoGoIsFinal ==
    [][\A i \in Initiatives :
          (\E t \in DOMAIN transition :
              /\ transition[t].initiative = i
              /\ transition[t].type = "NO_GO"
              /\ transition[t].status = "APPROVED")
          => initiative'[i].current_stage = initiative[i].current_stage]_vars

\* What Pacer's docstring says: each stall is recorded once.  An initiative enters a
\* stage once and its stage age only grows, so one stay in a stage has one stall.
StallRecordedOnce == \A i \in Initiatives, s \in Stages : stalls[i][s] <= 1
=============================================================================
