--------------------------- MODULE Lifecycle_proofs ---------------------------
(***************************************************************************)
(* Theorems about Lifecycle, for every set of initiatives, transitions,    *)
(* sessions and stages.  The inductive invariant IInv says what a version  *)
(* comparison buys: a snapshot, a proposal, a stall decision or a metric   *)
(* report whose version is still the row's version still describes the     *)
(* row.  The second part is about the ledger of transitions.               *)
(***************************************************************************)
EXTENDS Lifecycle, FiniteSetTheorems, TLAPS

\* No session and no proposal knows a version from the future, and what each of them
\* read is still true of the row as long as the version is.
SnapshotsValid ==
    \A r \in DOMAIN loaded :
        LET i == loaded[r].initiative
            row == loaded[r].row
        IN  /\ row.version <= initiative[i].version
            /\ row.version = initiative[i].version =>
                  /\ row.current_stage = initiative[i].current_stage
                  /\ row.lifecycle_state = initiative[i].lifecycle_state
                  /\ row.is_on_hold = initiative[i].is_on_hold

EvaluationsValid ==
    \A p \in DOMAIN evaluation : \A i \in DOMAIN evaluation[p] :
        /\ initiative[i].persisted
        /\ evaluation[p][i] <= initiative[i].version
        /\ evaluation[p][i] = initiative[i].version => NewlyStalled(i)

ReportsValid ==
    \A b \in DOMAIN report :
        LET i == report[b].initiative
        IN  /\ initiative[i].persisted
            /\ report[b].version <= initiative[i].version
            /\ report[b].version = initiative[i].version => ~initiative[i].is_on_hold

\* What every ledger row says, and what a pending one still says of the initiative.
TransitionValid(t) ==
    LET i == transition[t].initiative
    IN  /\ transition[t].expected_version <= initiative[i].version
        /\ transition[t].type = "ADVANCE" => transition[t].to_stage = transition[t].from_stage + 1
        /\ transition[t].type = "NO_GO" => transition[t].to_stage = NoStage
        /\ transition[t].status = "PENDING" => transition[t].type \in {"ADVANCE", "NO_GO"}
        /\ transition[t].type = "ADVANCE" => transition[t].to_stage \in Stages
        /\ transition[t].type = "ADVANCE" /\ transition[t].status = "APPLIED" =>
              transition[t].to_stage # LastStage
        /\ transition[t].status = "PENDING"
           /\ transition[t].expected_version = initiative[i].version =>
              transition[t].from_stage = initiative[i].current_stage

TransitionsValid == \A t \in DOMAIN transition : TransitionValid(t)

\* A row that no session has committed still has its defaults.
DefaultsUntilPersisted ==
    \A i \in Initiatives : ~initiative[i].persisted => initiative[i] = NewRow

OutcomesValid ==
    \A r \in DOMAIN assessed : assessed[r].outcome \in PossibleOutcomes(assessed[r].stage)

IInv ==
    /\ TypeOK
    /\ DefaultsUntilPersisted
    /\ OutcomesValid
    /\ SnapshotsValid
    /\ EvaluationsValid
    /\ ReportsValid
    /\ TransitionsValid
    /\ HoldConsistent
    /\ LedgerExplainsStage

-----------------------------------------------------------------------------

(* Maps and frames. *)

LEMMA MapPut ==
    ASSUME NEW f, NEW k, NEW v
    PROVE  /\ DOMAIN Put(f, k, v) = DOMAIN f \cup {k}
           /\ Put(f, k, v)[k] = v
           /\ \A x \in DOMAIN f : x # k => Put(f, k, v)[x] = f[x]
  BY DEF Put

\* A session map loses entries, and those that stay are as they were.
Shrinks(f, g) == DOMAIN g \subseteq DOMAIN f /\ \A x \in DOMAIN g : g[x] = f[x]

LEMMA MapForget ==
    ASSUME NEW f, NEW k
    PROVE  /\ Shrinks(f, Forget(f, k))
           /\ DOMAIN Forget(f, k) = DOMAIN f \ {k}
  BY DEF Forget, Shrinks

\* A step either leaves a row's version alone, and then all a session can have read of
\* it, or takes the next version.
RowKept(i) ==
    /\ initiative'[i].current_stage = initiative[i].current_stage
    /\ initiative'[i].lifecycle_state = initiative[i].lifecycle_state
    /\ initiative'[i].is_on_hold = initiative[i].is_on_hold
    /\ initiative'[i].version = initiative[i].version
    /\ initiative[i].persisted => initiative'[i].persisted
    /\ overdue[i] => overdue'[i]

RowChanged(i) ==
    /\ initiative'[i].version = initiative[i].version + 1
    /\ initiative'[i].persisted

RowsOnlyAdvance == \A i \in Initiatives : RowKept(i) \/ RowChanged(i)

LEMMA SnapshotsKept ==
    ASSUME TypeOK, TypeOK', SnapshotsValid, RowsOnlyAdvance, Shrinks(loaded, loaded')
    PROVE  SnapshotsValid'
  <1> SUFFICES ASSUME NEW r \in DOMAIN loaded'
               PROVE  LET i == loaded[r].initiative
                          row == loaded[r].row
                      IN  /\ row.version <= initiative'[i].version
                          /\ row.version = initiative'[i].version =>
                                /\ row.current_stage = initiative'[i].current_stage
                                /\ row.lifecycle_state = initiative'[i].lifecycle_state
                                /\ row.is_on_hold = initiative'[i].is_on_hold
    BY DEF SnapshotsValid, Shrinks
  <1>1. /\ r \in DOMAIN loaded
        /\ loaded[r] \in Snapshot
    BY DEF Shrinks, TypeOK
  <1>2. /\ loaded[r].initiative \in Initiatives
        /\ loaded[r].row.version \in Nat
        /\ initiative[loaded[r].initiative].version \in Nat
        /\ RowKept(loaded[r].initiative) \/ RowChanged(loaded[r].initiative)
    BY <1>1 DEF TypeOK, Snapshot, InitiativeRow, RowsOnlyAdvance
  <1> QED
    BY <1>1, <1>2 DEF SnapshotsValid, RowKept, RowChanged

LEMMA EvaluationsKept ==
    ASSUME TypeOK, TypeOK', EvaluationsValid, RowsOnlyAdvance, Shrinks(evaluation, evaluation')
    PROVE  EvaluationsValid'
  <1> SUFFICES ASSUME NEW p \in DOMAIN evaluation', NEW i \in DOMAIN evaluation[p]
               PROVE  /\ initiative'[i].persisted
                      /\ evaluation[p][i] <= initiative'[i].version
                      /\ evaluation[p][i] = initiative'[i].version => NewlyStalled(i)'
    BY DEF EvaluationsValid, Shrinks
  <1>1. /\ p \in DOMAIN evaluation
        /\ i \in Initiatives
        /\ evaluation[p][i] \in Nat
        /\ initiative[i].version \in Nat
        /\ RowKept(i) \/ RowChanged(i)
    BY DEF Shrinks, TypeOK, InitiativeRow, RowsOnlyAdvance
  <1>2. /\ initiative[i].persisted
        /\ evaluation[p][i] <= initiative[i].version
        /\ evaluation[p][i] = initiative[i].version => NewlyStalled(i)
    BY <1>1 DEF EvaluationsValid
  <1> QED
    BY <1>1, <1>2 DEF RowKept, RowChanged, NewlyStalled

LEMMA ReportsKept ==
    ASSUME TypeOK, TypeOK', ReportsValid, RowsOnlyAdvance, Shrinks(report, report')
    PROVE  ReportsValid'
  <1> SUFFICES ASSUME NEW b \in DOMAIN report'
               PROVE  LET i == report[b].initiative
                      IN  /\ initiative'[i].persisted
                          /\ report[b].version <= initiative'[i].version
                          /\ report[b].version = initiative'[i].version
                                => ~initiative'[i].is_on_hold
    BY DEF ReportsValid, Shrinks
  <1>1. /\ b \in DOMAIN report
        /\ report[b].initiative \in Initiatives
        /\ report[b].version \in Nat
        /\ initiative[report[b].initiative].version \in Nat
        /\ RowKept(report[b].initiative) \/ RowChanged(report[b].initiative)
    BY DEF Shrinks, TypeOK, InitiativeRow, RowsOnlyAdvance
  <1> QED
    BY <1>1 DEF ReportsValid, RowKept, RowChanged

\* A row of the ledger stays valid while it is not touched.
LEMMA TransitionKept ==
    ASSUME TypeOK, TypeOK', RowsOnlyAdvance,
           NEW t \in DOMAIN transition, TransitionValid(t),
           t \in DOMAIN transition', transition'[t] = transition[t]
    PROVE  TransitionValid(t)'
  <1>1. /\ transition[t].initiative \in Initiatives
        /\ transition[t].expected_version \in Nat
        /\ initiative[transition[t].initiative].version \in Nat
        /\ RowKept(transition[t].initiative) \/ RowChanged(transition[t].initiative)
    BY DEF TypeOK, InitiativeRow, TransitionRow, RowsOnlyAdvance
  <1> QED
    BY <1>1 DEF TransitionValid, RowKept, RowChanged

LEMMA TransitionsKept ==
    ASSUME TypeOK, TypeOK', TransitionsValid, RowsOnlyAdvance, transition' = transition
    PROVE  TransitionsValid'
  <1> SUFFICES ASSUME NEW t \in DOMAIN transition PROVE TransitionValid(t)'
    BY DEF TransitionsValid
  <1> QED
    BY TransitionKept DEF TransitionsValid

\* The ledger changes in one row: every row but u is an old row as it was.
ChangedOnlyAt(u) ==
    /\ DOMAIN transition' = DOMAIN transition \cup {u}
    /\ \A t \in DOMAIN transition : t # u => transition'[t] = transition[t]

LEMMA TransitionsChanged ==
    ASSUME TypeOK, TypeOK', TransitionsValid, RowsOnlyAdvance,
           NEW u, ChangedOnlyAt(u), TransitionValid(u)'
    PROVE  TransitionsValid'
  <1> SUFFICES ASSUME NEW t \in DOMAIN transition' PROVE TransitionValid(t)'
    BY DEF TransitionsValid
  <1>1. CASE t = u
    BY <1>1
  <1>2. CASE t # u
    BY <1>2, TransitionKept DEF TransitionsValid, ChangedOnlyAt
  <1> QED
    BY <1>1, <1>2

-----------------------------------------------------------------------------
(* The ledger and the stages. *)

SameStages == \A i \in Initiatives : initiative'[i].current_stage = initiative[i].current_stage

\* Rows that are not effective advances do not count.
LEMMA LedgerKept ==
    ASSUME LedgerExplainsStage, SameStages, transition' = transition
    PROVE  LedgerExplainsStage'
  BY DEF LedgerExplainsStage, SameStages, Effective

LEMMA LedgerKeptByOtherRow ==
    ASSUME LedgerExplainsStage, SameStages,
           NEW u, ChangedOnlyAt(u),
           \A i \in Initiatives : ~Effective(u, i)',
           u \in DOMAIN transition => \A i \in Initiatives : ~Effective(u, i)
    PROVE  LedgerExplainsStage'
  <1>1. ASSUME NEW i \in Initiatives, NEW t
        PROVE  /\ (t \in DOMAIN transition' /\ Effective(t, i)')
                     <=> (t \in DOMAIN transition /\ Effective(t, i))
               /\ t \in DOMAIN transition /\ Effective(t, i)
                     => transition'[t].from_stage = transition[t].from_stage
    BY DEF ChangedOnlyAt, Effective
  <1> QED
    BY <1>1 DEF LedgerExplainsStage, SameStages

\* One more effective advance, out of the stage the initiative leaves.
LEMMA LedgerAdvanced ==
    ASSUME TypeOK, LedgerExplainsStage,
           NEW j \in Initiatives,
           initiative'[j].current_stage = initiative[j].current_stage + 1,
           \A i \in Initiatives : i # j => initiative'[i].current_stage = initiative[i].current_stage,
           NEW u, ChangedOnlyAt(u),
           Effective(u, j)',
           transition'[u].from_stage = initiative[j].current_stage,
           u \in DOMAIN transition => \A i \in Initiatives : ~Effective(u, i)
    PROVE  LedgerExplainsStage'
  <1>1. ASSUME NEW i \in Initiatives, NEW t
        PROVE  /\ (t \in DOMAIN transition' /\ Effective(t, i)')
                     <=> \/ t \in DOMAIN transition /\ Effective(t, i)
                         \/ t = u /\ i = j
               /\ t \in DOMAIN transition /\ Effective(t, i)
                     => t # u /\ transition'[t].from_stage = transition[t].from_stage
    BY DEF ChangedOnlyAt, Effective
  <1>2. initiative[j].current_stage \in Stages
    BY DEF TypeOK, InitiativeRow
  <1> SUFFICES ASSUME NEW i \in Initiatives
               PROVE  /\ \A s \in Stages :
                            (s < initiative'[i].current_stage)
                               <=> \E t \in DOMAIN transition' :
                                      Effective(t, i)' /\ transition'[t].from_stage = s
                      /\ \A t, v \in DOMAIN transition' :
                            (/\ Effective(t, i)'
                             /\ Effective(v, i)'
                             /\ transition'[t].from_stage = transition'[v].from_stage) => t = v
    BY DEF LedgerExplainsStage
  <1>3. CASE i # j
    BY <1>1, <1>3 DEF LedgerExplainsStage
  <1>4. CASE i = j
    <2>1. ASSUME NEW t \in DOMAIN transition, Effective(t, j)
          PROVE  transition[t].from_stage # initiative[j].current_stage
      <3>1. ~(initiative[j].current_stage < initiative[j].current_stage)
        BY <1>2 DEF Stages
      <3> QED
        BY <1>2, <2>1, <3>1 DEF LedgerExplainsStage
    <2>2. ASSUME NEW s \in Stages
          PROVE  (s < initiative'[j].current_stage)
                    <=> (s < initiative[j].current_stage \/ s = initiative[j].current_stage)
      BY <1>2 DEF Stages
    <2>3. ASSUME NEW s \in Stages
          PROVE  (s < initiative'[j].current_stage)
                    <=> \E t \in DOMAIN transition' :
                           Effective(t, j)' /\ transition'[t].from_stage = s
      BY <1>1, <2>2 DEF LedgerExplainsStage, ChangedOnlyAt
    <2>4. ASSUME NEW t \in DOMAIN transition', NEW v \in DOMAIN transition',
                 Effective(t, j)', Effective(v, j)',
                 transition'[t].from_stage = transition'[v].from_stage
          PROVE  t = v
      BY <1>1, <2>1, <2>4 DEF LedgerExplainsStage
    <2> QED
      BY <1>4, <2>3, <2>4
  <1> QED
    BY <1>3, <1>4
-----------------------------------------------------------------------------
(* Steps that write no row: the sessions alone change. *)

\* A step that writes no row keeps what the invariant says of the rows alone.
LEMMA RowsUntouched ==
    ASSUME IInv, TypeOK', UNCHANGED rows
    PROVE  /\ DefaultsUntilPersisted'
           /\ RowsOnlyAdvance
           /\ TransitionsValid'
           /\ HoldConsistent'
           /\ LedgerExplainsStage'
  <1>1. RowsOnlyAdvance
    BY DEF rows, RowsOnlyAdvance, RowKept
  <1>2. TransitionsValid'
    BY <1>1, TransitionsKept DEF IInv, rows
  <1>3. LedgerExplainsStage'
    BY LedgerKept DEF IInv, rows, SameStages
  <1> QED
    BY <1>1, <1>2, <1>3 DEF IInv, rows, DefaultsUntilPersisted, HoldConsistent

\* The end of an assessment, by commit or rollback.
LEMMA AssessmentEnded ==
    ASSUME TypeOK, OutcomesValid, NEW r, EndAssessment(r)
    PROVE  /\ Shrinks(loaded, loaded')
           /\ Shrinks(assessed, assessed')
           /\ DOMAIN loaded' \subseteq DOMAIN assessed'
           /\ OutcomesValid'
  <1>1. /\ Shrinks(loaded, loaded') /\ DOMAIN loaded' = DOMAIN loaded \ {r}
        /\ Shrinks(assessed, assessed') /\ DOMAIN assessed' = DOMAIN assessed \ {r}
    BY MapForget DEF EndAssessment
  <1> QED
    BY <1>1 DEF TypeOK, OutcomesValid, Shrinks, PossibleOutcomes

LEMMA AssessStep ==
    ASSUME IInv, NEW r \in Assessments, NEW thread \in Persisted \cup {NoInitiative},
           Assess(r, thread)
    PROVE  IInv'
  <1> DEFINE stage == IF thread = NoInitiative THEN 1 ELSE initiative[thread].current_stage
  <1>1. PICK outcome \in PossibleOutcomes(stage), review \in BOOLEAN :
           assessed' = Put(assessed, r, [thread |-> thread, stage |-> stage, outcome |-> outcome,
                                         requires_human_review |-> review])
    BY DEF Assess
  <1>2. stage \in Stages
    BY StageAssumption DEF IInv, TypeOK, InitiativeRow, Persisted, Stages
  <1>3. [thread |-> thread, stage |-> stage, outcome |-> outcome,
         requires_human_review |-> review] \in Assessment
    BY <1>2 DEF Assessment, Persisted, PossibleOutcomes, GateOutcomes
  <1>4. /\ DOMAIN assessed' = DOMAIN assessed \cup {r}
        /\ assessed'[r] = [thread |-> thread, stage |-> stage, outcome |-> outcome,
                           requires_human_review |-> review]
        /\ \A x \in DOMAIN assessed : x # r => assessed'[x] = assessed[x]
    BY <1>1 DEF Put
  <1>5. UNCHANGED rows /\ UNCHANGED <<loaded, evaluation, report>>
    BY DEF Assess
  <1>6. TypeOK'
    BY <1>3, <1>4, <1>5 DEF IInv, TypeOK, rows
  <1>7. OutcomesValid'
    BY <1>4 DEF IInv, OutcomesValid, PossibleOutcomes
  <1>8. SnapshotsValid' /\ EvaluationsValid' /\ ReportsValid'
    BY <1>5 DEF IInv, SnapshotsValid, EvaluationsValid, ReportsValid, NewlyStalled, rows
  <1> QED
    BY <1>5, <1>6, <1>7, <1>8, RowsUntouched DEF IInv

LEMMA LoadInitiativeStep ==
    ASSUME IInv, NEW r \in Assessments, NEW i \in Initiatives, LoadInitiative(r, i)
    PROVE  IInv'
  <1>1. /\ DOMAIN loaded' = DOMAIN loaded \cup {r}
        /\ loaded'[r] = [initiative |-> i, row |-> initiative[i]]
        /\ \A x \in DOMAIN loaded : x # r => loaded'[x] = loaded[x]
    BY DEF LoadInitiative, Put
  <1>2. UNCHANGED rows /\ UNCHANGED <<assessed, evaluation, report>>
    BY DEF LoadInitiative
  <1>3. [initiative |-> i, row |-> initiative[i]] \in Snapshot
    BY DEF IInv, TypeOK, Snapshot
  <1>4. TypeOK'
    BY <1>1, <1>2, <1>3 DEF IInv, TypeOK, rows, LoadInitiative
  <1>5. SnapshotsValid'
    <2> SUFFICES ASSUME NEW x \in DOMAIN loaded'
                 PROVE  LET j == loaded'[x].initiative
                            row == loaded'[x].row
                        IN  /\ row.version <= initiative[j].version
                            /\ row.version = initiative[j].version =>
                                  /\ row.current_stage = initiative[j].current_stage
                                  /\ row.lifecycle_state = initiative[j].lifecycle_state
                                  /\ row.is_on_hold = initiative[j].is_on_hold
      BY <1>2 DEF SnapshotsValid, rows
    <2>1. CASE x = r
      BY <2>1, <1>1 DEF IInv, TypeOK, InitiativeRow
    <2>2. CASE x # r
      BY <2>2, <1>1 DEF IInv, SnapshotsValid
    <2> QED
      BY <2>1, <2>2
  <1>6. OutcomesValid' /\ EvaluationsValid' /\ ReportsValid'
    BY <1>2 DEF IInv, OutcomesValid, EvaluationsValid, ReportsValid, NewlyStalled, rows,
                PossibleOutcomes
  <1> QED
    BY <1>2, <1>4, <1>5, <1>6, RowsUntouched DEF IInv

\* Sessions that end without writing, of any kind.
LEMMA AbandonStep ==
    ASSUME IInv, UNCHANGED rows, OutcomesValid',
           Shrinks(assessed, assessed'), Shrinks(loaded, loaded'),
           DOMAIN loaded' \subseteq DOMAIN assessed',
           Shrinks(evaluation, evaluation'), Shrinks(report, report')
    PROVE  IInv'
  <1>1. TypeOK'
    BY DEF IInv, TypeOK, rows, Shrinks
  <1> QED
    BY <1>1, RowsUntouched, SnapshotsKept, EvaluationsKept, ReportsKept DEF IInv
-----------------------------------------------------------------------------
(* Steps that write rows. *)

SessionsShrink ==
    /\ Shrinks(assessed, assessed') /\ OutcomesValid'
    /\ Shrinks(loaded, loaded') /\ DOMAIN loaded' \subseteq DOMAIN assessed'
    /\ Shrinks(evaluation, evaluation')
    /\ Shrinks(report, report')

RowsTyped ==
    /\ initiative \in [Initiatives -> InitiativeRow]
    /\ overdue \in [Initiatives -> BOOLEAN]
    /\ stalls \in [Initiatives -> [Stages -> Nat]]
    /\ DOMAIN transition \subseteq Transitions
    /\ \A t \in DOMAIN transition : transition[t] \in TransitionRow

LEMMA TypeKept ==
    ASSUME TypeOK, RowsTyped', SessionsShrink
    PROVE  TypeOK'
  BY DEF TypeOK, RowsTyped, SessionsShrink, Shrinks

\* The session parts of the invariant follow from how rows change; a writer is left
\* with the parts that speak of the rows alone.
LEMMA WriterKeepsInvariant ==
    ASSUME IInv, RowsTyped', SessionsShrink, RowsOnlyAdvance,
           DefaultsUntilPersisted', TransitionsValid', HoldConsistent', LedgerExplainsStage'
    PROVE  IInv'
  <1>1. TypeOK'
    BY TypeKept DEF IInv
  <1> QED
    BY <1>1, SnapshotsKept, EvaluationsKept, ReportsKept DEF IInv, SessionsShrink

LEMMA SessionsUntouched ==
    ASSUME IInv, UNCHANGED sessions
    PROVE  SessionsShrink
  BY DEF IInv, TypeOK, OutcomesValid, PossibleOutcomes, sessions, SessionsShrink, Shrinks

LEMMA AssessmentCommitted ==
    ASSUME IInv, NEW r, EndAssessment(r), UNCHANGED <<evaluation, report>>
    PROVE  SessionsShrink
  BY AssessmentEnded DEF IInv, SessionsShrink, Shrinks

LEMMA EvaluationEnded ==
    ASSUME IInv, NEW p, evaluation' = Forget(evaluation, p), UNCHANGED <<assessed, loaded, report>>
    PROVE  SessionsShrink
  <1>1. Shrinks(evaluation, evaluation')
    BY MapForget
  <1>2. /\ OutcomesValid' /\ DOMAIN loaded' \subseteq DOMAIN assessed'
        /\ Shrinks(assessed, assessed') /\ Shrinks(loaded, loaded') /\ Shrinks(report, report')
    BY DEF IInv, TypeOK, OutcomesValid, PossibleOutcomes, Shrinks
  <1> QED
    BY <1>1, <1>2 DEF SessionsShrink

LEMMA ReportEnded ==
    ASSUME IInv, NEW b, report' = Forget(report, b), UNCHANGED <<assessed, loaded, evaluation>>
    PROVE  SessionsShrink
  <1>1. Shrinks(report, report')
    BY MapForget
  <1>2. /\ OutcomesValid' /\ DOMAIN loaded' \subseteq DOMAIN assessed'
        /\ Shrinks(assessed, assessed') /\ Shrinks(loaded, loaded') /\ Shrinks(evaluation, evaluation')
    BY DEF IInv, TypeOK, OutcomesValid, PossibleOutcomes, Shrinks
  <1> QED
    BY <1>1, <1>2 DEF SessionsShrink

\* The effect of a successful UPDATE of the lifecycle state.
LEMMA LifecycleStateSwapped ==
    ASSUME IInv, NEW i \in Initiatives, NEW v, NEW state \in LifecycleStates,
           SwapLifecycleState(i, v, state), UNCHANGED overdue,
           initiative[i].is_on_hold <=> state = "OnHold"
    PROVE  /\ initiative' \in [Initiatives -> InitiativeRow]
           /\ RowsOnlyAdvance
           /\ DefaultsUntilPersisted'
           /\ HoldConsistent'
           /\ SameStages
  <1>1. /\ initiative \in [Initiatives -> InitiativeRow]
        /\ initiative' = [initiative EXCEPT ![i].persisted = TRUE,
                                            ![i].lifecycle_state = state,
                                            ![i].version = v + 1]
        /\ v = initiative[i].version
    BY DEF IInv, TypeOK, SwapLifecycleState, NotChangedSince
  <1>2. initiative' \in [Initiatives -> InitiativeRow]
    BY <1>1 DEF InitiativeRow
  <1>3. RowsOnlyAdvance
    BY <1>1 DEF RowsOnlyAdvance, RowKept, RowChanged, InitiativeRow
  <1>4. DefaultsUntilPersisted' /\ HoldConsistent' /\ SameStages
    BY <1>1 DEF IInv, DefaultsUntilPersisted, HoldConsistent, SameStages, InitiativeRow
  <1> QED
    BY <1>2, <1>3, <1>4

\* The effect of a successful UPDATE of the stage.
LEMMA StageSwapped ==
    ASSUME IInv, NEW i \in Initiatives, NEW v, NEW stage \in Stages,
           SwapStage(i, v, stage), ~initiative[i].is_on_hold
    PROVE  /\ initiative' \in [Initiatives -> InitiativeRow]
           /\ overdue' \in [Initiatives -> BOOLEAN]
           /\ RowsOnlyAdvance
           /\ DefaultsUntilPersisted'
           /\ HoldConsistent'
           /\ initiative'[i].current_stage = stage
           /\ initiative'[i].version = v + 1
           /\ \A j \in Initiatives : j # i =>
                 initiative'[j].current_stage = initiative[j].current_stage
  <1>1. /\ initiative \in [Initiatives -> InitiativeRow]
        /\ overdue \in [Initiatives -> BOOLEAN]
        /\ initiative' = [initiative EXCEPT ![i].persisted = TRUE,
                                            ![i].current_stage = stage,
                                            ![i].lifecycle_state = "Active",
                                            ![i].version = v + 1]
        /\ overdue' = [overdue EXCEPT ![i] = FALSE]
        /\ v = initiative[i].version
    BY DEF IInv, TypeOK, SwapStage, NotChangedSince
  <1>2. initiative' \in [Initiatives -> InitiativeRow] /\ overdue' \in [Initiatives -> BOOLEAN]
    BY <1>1 DEF InitiativeRow, LifecycleStates
  <1>3. RowsOnlyAdvance
    BY <1>1 DEF RowsOnlyAdvance, RowKept, RowChanged, InitiativeRow
  <1>4. DefaultsUntilPersisted' /\ HoldConsistent'
    BY <1>1 DEF IInv, DefaultsUntilPersisted, HoldConsistent, InitiativeRow
  <1> QED
    BY <1>1, <1>2, <1>3, <1>4 DEF InitiativeRow

\* The effect of inserting a ledger row.
LEMMA TransitionInserted ==
    ASSUME TypeOK, NEW t \in Transitions, NEW i \in Initiatives, NEW row \in InitiativeRow,
           NEW type \in {"ADVANCE", "NO_GO", "HOLD", "RESUME"},
           NEW to_stage \in Stages \cup {NoStage},
           NEW status \in {"PENDING", "APPLIED"},
           InsertTransition(t, i, row, type, to_stage, status)
    PROVE  /\ t \notin DOMAIN transition
           /\ ChangedOnlyAt(t)
           /\ transition'[t] =
                 [initiative |-> i, type |-> type, from_stage |-> row.current_stage,
                  to_stage |-> to_stage, status |-> status, expected_version |-> row.version]
           /\ DOMAIN transition' \subseteq Transitions
           /\ \A u \in DOMAIN transition' : transition'[u] \in TransitionRow
  <1> DEFINE new == [initiative |-> i, type |-> type, from_stage |-> row.current_stage,
                     to_stage |-> to_stage, status |-> status, expected_version |-> row.version]
  <1>1. new \in TransitionRow
    BY DEF TransitionRow, InitiativeRow
  <1>2. /\ t \notin DOMAIN transition
        /\ DOMAIN transition' = DOMAIN transition \cup {t}
        /\ transition'[t] = new
        /\ \A u \in DOMAIN transition : u # t => transition'[u] = transition[u]
    BY DEF InsertTransition, Put
  <1> QED
    BY <1>1, <1>2 DEF ChangedOnlyAt, TypeOK
\* What the invariant says of the snapshot an assessment is processed on.
LEMMA ReadySnapshot ==
    ASSUME IInv, NEW r \in Assessments, ReadyToProcess(r)
    PROVE  /\ loaded[r].initiative \in Initiatives
           /\ loaded[r].row \in InitiativeRow
           /\ assessed[r].outcome \in PossibleOutcomes(loaded[r].row.current_stage)
           /\ loaded[r].row.version <= initiative[loaded[r].initiative].version
           /\ loaded[r].row.version = initiative[loaded[r].initiative].version =>
                 /\ loaded[r].row.current_stage = initiative[loaded[r].initiative].current_stage
                 /\ loaded[r].row.lifecycle_state = initiative[loaded[r].initiative].lifecycle_state
                 /\ loaded[r].row.is_on_hold = initiative[loaded[r].initiative].is_on_hold
  BY DEF IInv, TypeOK, OutcomesValid, SnapshotsValid, ReadyToProcess, Snapshot

\* A write that only makes the row a committed one.
LEMMA OnlyPersisted ==
    ASSUME IInv, NEW i \in Initiatives,
           initiative' = [initiative EXCEPT ![i].persisted = TRUE], UNCHANGED overdue
    PROVE  /\ initiative' \in [Initiatives -> InitiativeRow]
           /\ RowsOnlyAdvance
           /\ DefaultsUntilPersisted'
           /\ HoldConsistent'
           /\ SameStages
  <1>1. initiative \in [Initiatives -> InitiativeRow]
    BY DEF IInv, TypeOK
  <1>2. initiative' \in [Initiatives -> InitiativeRow]
    BY <1>1 DEF InitiativeRow
  <1>3. RowsOnlyAdvance /\ SameStages
    BY <1>1 DEF RowsOnlyAdvance, RowKept, InitiativeRow, SameStages
  <1>4. DefaultsUntilPersisted' /\ HoldConsistent'
    BY <1>1 DEF IInv, DefaultsUntilPersisted, HoldConsistent, InitiativeRow
  <1> QED
    BY <1>2, <1>3, <1>4

LEMMA RecordNoTransitionStep ==
    ASSUME IInv, NEW r \in Assessments, RecordNoTransition(r)
    PROVE  IInv'
  <1> DEFINE i == loaded[r].initiative
             row == loaded[r].row
             desired == DesiredState(row, assessed[r].outcome)
  <1>1. /\ EndAssessment(r)
        /\ UNCHANGED <<overdue, transition, evaluation, report, stalls>>
        /\ ReadyToProcess(r)
    BY DEF RecordNoTransition
  <1>2. SessionsShrink
    BY <1>1, AssessmentCommitted
  <1>3. /\ initiative' \in [Initiatives -> InitiativeRow]
        /\ RowsOnlyAdvance
        /\ DefaultsUntilPersisted'
        /\ HoldConsistent'
        /\ SameStages
    <2>1. CASE row.lifecycle_state = desired
              /\ initiative' = [initiative EXCEPT ![i].persisted = TRUE]
      BY <1>1, <2>1, ReadySnapshot, OnlyPersisted
    <2>2. CASE SwapLifecycleState(i, row.version, desired)
      <3>1. initiative[i].is_on_hold <=> desired = "OnHold"
        BY <1>1, <2>2, ReadySnapshot DEF SwapLifecycleState, NotChangedSince, DesiredState
      <3>2. desired \in LifecycleStates
        BY DEF DesiredState, LifecycleStates
      <3> QED
        BY <1>1, <2>2, <3>1, <3>2, ReadySnapshot, LifecycleStateSwapped
    <2> QED
      BY <2>1, <2>2 DEF RecordNoTransition
  <1>4. RowsTyped'
    BY <1>1, <1>3 DEF IInv, TypeOK, RowsTyped
  <1>5. TransitionsValid'
    BY <1>1, <1>2, <1>3, <1>4, TypeKept, TransitionsKept DEF IInv
  <1>6. LedgerExplainsStage'
    BY <1>1, <1>3, LedgerKept DEF IInv
  <1> QED
    BY <1>2, <1>3, <1>4, <1>5, <1>6, WriterKeepsInvariant

LEMMA ProposeTransitionStep ==
    ASSUME IInv, NEW r \in Assessments, NEW t \in Transitions, ProposeTransition(r, t)
    PROVE  IInv'
  <1>0. PICK i \in Initiatives, row \in InitiativeRow :
           i = loaded[r].initiative /\ row = loaded[r].row
    BY ReadySnapshot DEF ProposeTransition
  <1>1. /\ EndAssessment(r)
        /\ UNCHANGED <<overdue, evaluation, report, stalls>>
        /\ ReadyToProcess(r)
        /\ initiative' = [initiative EXCEPT ![i].persisted = TRUE]
        /\ assessed[r].outcome \in {"ADVANCE", "DO_NOT_ADVANCE"}
    BY <1>0 DEF ProposeTransition
  <1>2. SessionsShrink
    BY <1>1, AssessmentCommitted
  <1>3. row.current_stage \in Stages /\ row.version \in Nat
    BY DEF InitiativeRow
  <1>4. /\ initiative' \in [Initiatives -> InitiativeRow]
        /\ RowsOnlyAdvance
        /\ DefaultsUntilPersisted'
        /\ HoldConsistent'
        /\ SameStages
    BY <1>1, <1>3, OnlyPersisted
  <1>5. PICK type \in {"ADVANCE", "NO_GO"}, to_stage \in Stages \cup {NoStage} :
           /\ InsertTransition(t, i, row, type, to_stage, "PENDING")
           /\ type = "ADVANCE" => to_stage = row.current_stage + 1 /\ to_stage \in Stages
           /\ type = "NO_GO" => to_stage = NoStage
    <2>1. CASE assessed[r].outcome = "ADVANCE"
      <3>1. row.current_stage # LastStage
        BY <1>0, <1>1, <2>1, ReadySnapshot DEF PossibleOutcomes
      <3>2. row.current_stage + 1 \in Stages
        BY <1>3, <3>1, StageAssumption DEF Stages
      <3> QED
        BY <1>0, <2>1, <3>2 DEF ProposeTransition
    <2>2. CASE assessed[r].outcome # "ADVANCE"
      BY <1>0, <2>2 DEF ProposeTransition
    <2> QED
      BY <2>1, <2>2
  <1>6. /\ t \notin DOMAIN transition
        /\ ChangedOnlyAt(t)
        /\ transition'[t] =
              [initiative |-> i, type |-> type, from_stage |-> row.current_stage,
               to_stage |-> to_stage, status |-> "PENDING", expected_version |-> row.version]
        /\ DOMAIN transition' \subseteq Transitions
        /\ \A u \in DOMAIN transition' : transition'[u] \in TransitionRow
    <2>1. /\ type \in {"ADVANCE", "NO_GO", "HOLD", "RESUME"}
          /\ "PENDING" \in {"PENDING", "APPLIED"}
          /\ TypeOK
      BY DEF IInv
    <2> QED
      BY <1>5, <2>1, TransitionInserted
  <1>7. RowsTyped'
    BY <1>1, <1>4, <1>6 DEF IInv, TypeOK, RowsTyped
  <1>8. TypeOK'
    BY <1>2, <1>7, TypeKept DEF IInv
  <1>9. TransitionValid(t)'
    BY <1>0, <1>1, <1>3, <1>4, <1>5, <1>6, ReadySnapshot
       DEF TransitionValid, SameStages, IInv, TypeOK, InitiativeRow
  <1>10. TransitionsValid'
    BY <1>4, <1>6, <1>8, <1>9, TransitionsChanged DEF IInv
  <1>11. LedgerExplainsStage'
    BY <1>4, <1>6, LedgerKeptByOtherRow DEF IInv, Effective
  <1> QED
    BY <1>2, <1>4, <1>7, <1>10, <1>11, WriterKeepsInvariant

LEMMA AdvanceAutomaticallyStep ==
    ASSUME IInv, NEW r \in Assessments, NEW t \in Transitions, AdvanceAutomatically(r, t)
    PROVE  IInv'
  <1>0. PICK i \in Initiatives, row \in InitiativeRow :
           i = loaded[r].initiative /\ row = loaded[r].row
    BY ReadySnapshot DEF AdvanceAutomatically
  <1> DEFINE next == row.current_stage + 1
  <1>1. /\ EndAssessment(r)
        /\ UNCHANGED <<evaluation, report, stalls>>
        /\ ReadyToProcess(r)
        /\ assessed[r].outcome = "ADVANCE"
        /\ ~row.is_on_hold
        /\ next # LastStage
        /\ InsertTransition(t, i, row, "ADVANCE", next, "APPLIED")
        /\ SwapStage(i, row.version, next)
    BY <1>0 DEF AdvanceAutomatically, ReviewRequired
  <1>2. SessionsShrink
    BY <1>1, AssessmentCommitted
  <1>3. row.current_stage \in Stages /\ row.version \in Nat
    BY DEF InitiativeRow
  <1>4. /\ row.version = initiative[i].version
        /\ row.current_stage = initiative[i].current_stage
        /\ ~initiative[i].is_on_hold
    BY <1>0, <1>1, ReadySnapshot DEF SwapStage, NotChangedSince
  <1>5. next \in Stages
    <2>1. row.current_stage # LastStage
      BY <1>0, <1>1, ReadySnapshot DEF PossibleOutcomes
    <2> QED
      BY <1>3, <2>1, StageAssumption DEF Stages
  <1>6. /\ initiative' \in [Initiatives -> InitiativeRow]
        /\ overdue' \in [Initiatives -> BOOLEAN]
        /\ RowsOnlyAdvance
        /\ DefaultsUntilPersisted'
        /\ HoldConsistent'
        /\ initiative'[i].current_stage = next
        /\ initiative'[i].version = row.version + 1
        /\ \A j \in Initiatives : j # i =>
              initiative'[j].current_stage = initiative[j].current_stage
    BY <1>1, <1>3, <1>4, <1>5, StageSwapped
  <1>7. /\ t \notin DOMAIN transition
        /\ ChangedOnlyAt(t)
        /\ transition'[t] =
              [initiative |-> i, type |-> "ADVANCE", from_stage |-> row.current_stage,
               to_stage |-> next, status |-> "APPLIED", expected_version |-> row.version]
        /\ DOMAIN transition' \subseteq Transitions
        /\ \A u \in DOMAIN transition' : transition'[u] \in TransitionRow
    BY <1>1, <1>3, <1>5, TransitionInserted DEF IInv
  <1>8. RowsTyped'
    BY <1>1, <1>6, <1>7 DEF IInv, TypeOK, RowsTyped
  <1>9. TypeOK'
    BY <1>2, <1>8, TypeKept DEF IInv
  <1>10. TransitionValid(t)'
    BY <1>1, <1>3, <1>5, <1>6, <1>7 DEF TransitionValid
  <1>11. TransitionsValid'
    BY <1>6, <1>7, <1>9, <1>10, TransitionsChanged DEF IInv
  <1>12. LedgerExplainsStage'
    <2>1. Effective(t, i)'
      BY <1>7 DEF Effective
    <2> QED
      BY <1>3, <1>4, <1>6, <1>7, <2>1, LedgerAdvanced DEF IInv
  <1> QED
    BY <1>2, <1>6, <1>8, <1>11, <1>12, WriterKeepsInvariant
-----------------------------------------------------------------------------
(* Human commands. *)

LEMMA HoldStep ==
    ASSUME IInv, NEW i \in Initiatives, NEW t \in Transitions, Hold(i, t) \/ Resume(i, t)
    PROVE  IInv'
  <1>1. PICK type \in {"HOLD", "RESUME"} :
           InsertTransition(t, i, initiative[i], type, initiative[i].current_stage, "APPLIED")
    BY DEF Hold, Resume, RecordHumanTransition
  <1>2. PICK held \in BOOLEAN :
           /\ initiative[i].persisted
           /\ initiative' = [initiative EXCEPT ![i].is_on_hold = held,
                                ![i].lifecycle_state = IF held THEN "OnHold" ELSE "Active",
                                ![i].version = @ + 1]
           /\ UNCHANGED <<overdue, sessions, stalls>>
    <2>1. CASE Hold(i, t)
      BY <2>1 DEF Hold
    <2>2. CASE Resume(i, t)
      BY <2>2 DEF Resume
    <2> QED
      BY <2>1, <2>2
  <1>3. SessionsShrink
    BY <1>2, SessionsUntouched
  <1>4. initiative \in [Initiatives -> InitiativeRow] /\ initiative[i] \in InitiativeRow
    BY DEF IInv, TypeOK
  <1>5. /\ initiative' \in [Initiatives -> InitiativeRow]
        /\ initiative'[i].version = initiative[i].version + 1
        /\ initiative[i].version \in Nat
        /\ RowsOnlyAdvance
        /\ SameStages
    <2>1. initiative' \in [Initiatives -> InitiativeRow]
      BY <1>2, <1>4 DEF InitiativeRow, LifecycleStates
    <2> QED
      BY <1>2, <1>4, <2>1 DEF InitiativeRow, RowsOnlyAdvance, RowKept, RowChanged, SameStages
  <1>6. DefaultsUntilPersisted' /\ HoldConsistent'
    BY <1>2, <1>4 DEF IInv, DefaultsUntilPersisted, HoldConsistent, InitiativeRow
  <1>7. /\ t \notin DOMAIN transition
        /\ ChangedOnlyAt(t)
        /\ transition'[t] =
              [initiative |-> i, type |-> type, from_stage |-> initiative[i].current_stage,
               to_stage |-> initiative[i].current_stage, status |-> "APPLIED",
               expected_version |-> initiative[i].version]
        /\ DOMAIN transition' \subseteq Transitions
        /\ \A u \in DOMAIN transition' : transition'[u] \in TransitionRow
    <2>1. /\ type \in {"ADVANCE", "NO_GO", "HOLD", "RESUME"}
          /\ "APPLIED" \in {"PENDING", "APPLIED"}
          /\ TypeOK
          /\ initiative[i].current_stage \in Stages \cup {NoStage}
      BY <1>4 DEF IInv, InitiativeRow
    <2> QED
      BY <1>1, <1>4, <2>1, TransitionInserted
  <1>8. RowsTyped'
    BY <1>2, <1>5, <1>7 DEF IInv, TypeOK, RowsTyped, sessions
  <1>9. TypeOK'
    BY <1>3, <1>8, TypeKept DEF IInv
  <1>10. TransitionValid(t)'
    BY <1>5, <1>7 DEF TransitionValid
  <1>11. TransitionsValid'
    BY <1>5, <1>7, <1>9, <1>10, TransitionsChanged DEF IInv
  <1>12. LedgerExplainsStage'
    BY <1>5, <1>7, LedgerKeptByOtherRow DEF IInv, Effective
  <1> QED
    BY <1>3, <1>5, <1>6, <1>8, <1>11, <1>12, WriterKeepsInvariant

\* What the invariant says of a proposal that can be decided.
LEMMA DecidableProposal ==
    ASSUME IInv, NEW t, Decidable(t)
    PROVE  /\ t \in Transitions
           /\ transition[t] \in TransitionRow
           /\ transition[t].initiative \in Initiatives
           /\ transition[t].status = "PENDING"
           /\ transition[t].type \in {"ADVANCE", "NO_GO"}
           /\ transition[t].from_stage = initiative[transition[t].initiative].current_stage
           /\ transition[t].type = "ADVANCE" =>
                 /\ transition[t].to_stage
                       = initiative[transition[t].initiative].current_stage + 1
                 /\ transition[t].to_stage \in Stages
           /\ transition[t].type = "NO_GO" => transition[t].to_stage = NoStage
           /\ \A i \in Initiatives : ~Effective(t, i)
  <1>1. t \in DOMAIN transition /\ TransitionValid(t) /\ transition[t].status = "PENDING"
        /\ transition[t].expected_version = initiative[transition[t].initiative].version
    BY DEF IInv, Decidable, TransitionsValid, NotChangedSince
  <1>2. transition[t] \in TransitionRow /\ t \in Transitions
    BY <1>1 DEF IInv, TypeOK
  <1> QED
    BY <1>1, <1>2 DEF TransitionValid, TransitionRow, Effective

\* The effect of deciding a proposal on the ledger.
LEMMA TransitionDecided ==
    ASSUME IInv, NEW t, Decidable(t), NEW status \in {"APPROVED", "REJECTED"},
           transition' = [transition EXCEPT ![t].status = status]
    PROVE  /\ ChangedOnlyAt(t)
           /\ transition'[t] = [transition[t] EXCEPT !.status = status]
           /\ DOMAIN transition' \subseteq Transitions
           /\ \A u \in DOMAIN transition' : transition'[u] \in TransitionRow
  <1>1. t \in DOMAIN transition /\ DOMAIN transition' = DOMAIN transition
    BY DEF Decidable
  <1>2. [transition[t] EXCEPT !.status = status] \in TransitionRow
    BY DecidableProposal DEF TransitionRow
  <1> QED
    BY <1>1, <1>2 DEF ChangedOnlyAt, IInv, TypeOK

LEMMA ApproveTransitionStep ==
    ASSUME IInv, NEW t \in Transitions, ApproveTransition(t)
    PROVE  IInv'
  <1>1. /\ Decidable(t)
        /\ transition' = [transition EXCEPT ![t].status = "APPROVED"]
        /\ UNCHANGED <<sessions, stalls>>
    BY DEF ApproveTransition
  <1>2. SessionsShrink
    BY <1>1, SessionsUntouched
  <1>3. PICK i \in Initiatives : i = transition[t].initiative
    BY <1>1, DecidableProposal
  <1>4. initiative[i] \in InitiativeRow /\ transition[t].expected_version \in Nat
    BY <1>1, DecidableProposal DEF IInv, TypeOK, TransitionRow
  <1>5. /\ ChangedOnlyAt(t)
        /\ transition'[t] = [transition[t] EXCEPT !.status = "APPROVED"]
        /\ DOMAIN transition' \subseteq Transitions
        /\ \A u \in DOMAIN transition' : transition'[u] \in TransitionRow
    BY <1>1, TransitionDecided
  <1>6. /\ transition'[t].initiative = i
        /\ transition'[t].type = transition[t].type
        /\ transition'[t].from_stage = initiative[i].current_stage
        /\ transition'[t].to_stage = transition[t].to_stage
        /\ transition'[t].expected_version = initiative[i].version
        /\ transition'[t].status = "APPROVED"
    BY <1>1, <1>3, <1>5, DecidableProposal DEF TransitionRow, Decidable, NotChangedSince
  <1>7. CASE transition[t].type = "ADVANCE"
    <2>1. SwapStage(i, initiative[i].version, transition[t].to_stage) /\ ~initiative[i].is_on_hold
      BY <1>3, <1>7 DEF ApproveTransition
    <2>2. /\ initiative' \in [Initiatives -> InitiativeRow]
          /\ overdue' \in [Initiatives -> BOOLEAN]
          /\ RowsOnlyAdvance
          /\ DefaultsUntilPersisted'
          /\ HoldConsistent'
          /\ initiative'[i].current_stage = transition[t].to_stage
          /\ initiative'[i].version = initiative[i].version + 1
          /\ \A j \in Initiatives : j # i =>
                initiative'[j].current_stage = initiative[j].current_stage
      BY <1>1, <1>7, <2>1, DecidableProposal, StageSwapped
    <2>3. transition[t].to_stage = initiative[i].current_stage + 1 /\ transition[t].to_stage \in Stages
      BY <1>1, <1>3, <1>7, DecidableProposal
    <2>4. RowsTyped'
      BY <1>1, <1>5, <2>2 DEF IInv, TypeOK, RowsTyped
    <2>5. TransitionValid(t)'
      BY <1>4, <1>6, <1>7, <2>2, <2>3 DEF TransitionValid, InitiativeRow
    <2>6. TransitionsValid'
      BY <1>2, <1>5, <2>2, <2>4, <2>5, TypeKept, TransitionsChanged DEF IInv
    <2>7. LedgerExplainsStage'
      <3>1. Effective(t, i)'
        BY <1>6, <1>7 DEF Effective
      <3> QED
        BY <1>1, <1>5, <1>6, <2>2, <2>3, <3>1, DecidableProposal, LedgerAdvanced DEF IInv
    <2> QED
      BY <1>2, <2>2, <2>4, <2>6, <2>7, WriterKeepsInvariant
  <1>8. CASE transition[t].type = "NO_GO"
    <2>1. /\ SwapLifecycleState(i, initiative[i].version, "NoGo")
          /\ ~initiative[i].is_on_hold
          /\ UNCHANGED overdue
          /\ "NoGo" \in LifecycleStates
      BY <1>3, <1>8 DEF ApproveTransition, LifecycleStates
    <2>2. /\ initiative' \in [Initiatives -> InitiativeRow]
          /\ RowsOnlyAdvance
          /\ DefaultsUntilPersisted'
          /\ HoldConsistent'
          /\ SameStages
      BY <2>1, LifecycleStateSwapped
    <2>3. RowsTyped'
      BY <1>1, <1>5, <2>1, <2>2 DEF IInv, TypeOK, RowsTyped
    <2>4. TransitionValid(t)'
      <3>1. initiative[i].version <= initiative'[i].version
        BY <1>4, <2>2 DEF RowsOnlyAdvance, RowKept, RowChanged, InitiativeRow
      <3> QED
        BY <1>1, <1>6, <1>8, <3>1, DecidableProposal DEF TransitionValid
    <2>5. TransitionsValid'
      BY <1>2, <1>5, <2>2, <2>3, <2>4, TypeKept, TransitionsChanged DEF IInv
    <2>6. LedgerExplainsStage'
      BY <1>1, <1>5, <1>6, <1>8, <2>2, DecidableProposal, LedgerKeptByOtherRow DEF IInv, Effective
    <2> QED
      BY <1>2, <2>2, <2>3, <2>5, <2>6, WriterKeepsInvariant
  <1> QED
    BY <1>1, <1>7, <1>8, DecidableProposal

LEMMA RejectTransitionStep ==
    ASSUME IInv, NEW t \in Transitions, RejectTransition(t)
    PROVE  IInv'
  <1>1. /\ Decidable(t)
        /\ transition' = [transition EXCEPT ![t].status = "REJECTED"]
        /\ UNCHANGED <<initiative, overdue, sessions, stalls>>
    BY DEF RejectTransition
  <1>2. SessionsShrink
    BY <1>1, SessionsUntouched
  <1>3. /\ ChangedOnlyAt(t)
        /\ transition'[t] = [transition[t] EXCEPT !.status = "REJECTED"]
        /\ DOMAIN transition' \subseteq Transitions
        /\ \A u \in DOMAIN transition' : transition'[u] \in TransitionRow
    BY <1>1, TransitionDecided
  <1>4. RowsTyped'
    BY <1>1, <1>3 DEF IInv, TypeOK, RowsTyped
  <1>5. RowsOnlyAdvance /\ SameStages /\ DefaultsUntilPersisted' /\ HoldConsistent'
    BY <1>1 DEF RowsOnlyAdvance, RowKept, SameStages, IInv, DefaultsUntilPersisted, HoldConsistent
  <1>6. TransitionValid(t)
    BY <1>1 DEF IInv, TransitionsValid, Decidable
  <1>7. /\ transition[t] \in TransitionRow
        /\ transition[t].status = "PENDING"
        /\ transition[t].type \in {"ADVANCE", "NO_GO"}
    BY <1>1, DecidableProposal
  <1>8. TransitionValid(t)'
    BY <1>1, <1>3, <1>6, <1>7 DEF TransitionValid, TransitionRow
  <1>9. TransitionsValid'
    BY <1>2, <1>3, <1>4, <1>5, <1>8, TypeKept, TransitionsChanged DEF IInv
  <1>10. LedgerExplainsStage'
    <2>1. \A i \in Initiatives : ~Effective(t, i)'
      BY <1>3, <1>7 DEF Effective, TransitionRow
    <2> QED
      BY <1>1, <1>3, <1>5, <2>1, DecidableProposal, LedgerKeptByOtherRow DEF IInv
  <1> QED
    BY <1>2, <1>4, <1>5, <1>9, <1>10, WriterKeepsInvariant
-----------------------------------------------------------------------------
(* Scout, time, Pacer and Sentinel. *)

LEMMA PromoteCandidateStep ==
    ASSUME IInv, NEW i \in Initiatives, PromoteCandidate(i)
    PROVE  IInv'
  <1>1. /\ ~initiative[i].persisted
        /\ i \notin Reserved
        /\ initiative' = [initiative EXCEPT ![i].persisted = TRUE,
                                            ![i].lifecycle_state = "Discovered"]
        /\ UNCHANGED <<overdue, transition, sessions, stalls>>
    BY DEF PromoteCandidate
  <1>2. SessionsShrink
    BY <1>1, SessionsUntouched
  <1>3. initiative \in [Initiatives -> InitiativeRow]
    BY DEF IInv, TypeOK
  <1>4. initiative' \in [Initiatives -> InitiativeRow]
    BY <1>1, <1>3 DEF InitiativeRow, LifecycleStates
  <1>5. TypeOK'
    BY <1>1, <1>2, <1>4, TypeKept DEF IInv, TypeOK, RowsTyped
  <1>6. initiative[i] = NewRow
    BY <1>1 DEF IInv, DefaultsUntilPersisted
  <1>7. /\ DefaultsUntilPersisted'
        /\ HoldConsistent'
        /\ SameStages
        /\ \A j \in Initiatives : initiative'[j].version = initiative[j].version
        /\ \A j \in Initiatives : j # i => initiative'[j] = initiative[j]
        /\ initiative'[i].persisted
    BY <1>1, <1>3, <1>6
       DEF IInv, DefaultsUntilPersisted, HoldConsistent, SameStages, InitiativeRow, NewRow
  <1>8. UNCHANGED <<overdue, transition, assessed, loaded, evaluation, report>>
    BY <1>1 DEF sessions
  <1>9. SnapshotsValid'
    <2>1. ASSUME NEW r \in DOMAIN loaded
          PROVE  initiative'[loaded[r].initiative] = initiative[loaded[r].initiative]
      BY <1>1, <1>7 DEF Reserved, IInv, TypeOK, Snapshot
    <2> QED
      BY <1>8, <2>1 DEF IInv, SnapshotsValid
  <1>10. EvaluationsValid' /\ ReportsValid'
    <2>1. ASSUME NEW p \in DOMAIN evaluation, NEW j \in DOMAIN evaluation[p]
          PROVE  initiative'[j] = initiative[j]
      BY <1>1, <1>7 DEF IInv, EvaluationsValid, TypeOK
    <2>2. ASSUME NEW b \in DOMAIN report
          PROVE  initiative'[report[b].initiative] = initiative[report[b].initiative]
      BY <1>1, <1>7 DEF IInv, ReportsValid, TypeOK
    <2>3. EvaluationsValid'
      BY <1>8, <2>1 DEF IInv, EvaluationsValid, NewlyStalled
    <2>4. ReportsValid'
      BY <1>8, <2>2 DEF IInv, ReportsValid
    <2> QED
      BY <2>3, <2>4
  <1>11. TransitionsValid'
    <2>1. ASSUME NEW t \in DOMAIN transition
          PROVE  LET j == transition[t].initiative
                 IN  /\ initiative'[j].version = initiative[j].version
                     /\ initiative'[j].current_stage = initiative[j].current_stage
      BY <1>7 DEF IInv, TypeOK, TransitionRow, SameStages
    <2> QED
      BY <1>8, <2>1 DEF IInv, TransitionsValid, TransitionValid
  <1>12. LedgerExplainsStage'
    BY <1>1, <1>7, LedgerKept DEF IInv
  <1> QED
    BY <1>2, <1>5, <1>7, <1>9, <1>10, <1>11, <1>12 DEF IInv, SessionsShrink

LEMMA SlaElapsesStep ==
    ASSUME IInv, NEW i \in Initiatives, SlaElapses(i)
    PROVE  IInv'
  <1>1. /\ overdue' = [overdue EXCEPT ![i] = TRUE]
        /\ UNCHANGED <<initiative, transition, sessions, stalls>>
        /\ overdue \in [Initiatives -> BOOLEAN]
    BY DEF SlaElapses, IInv, TypeOK
  <1>2. SessionsShrink
    BY <1>1, SessionsUntouched
  <1>3. RowsTyped'
    BY <1>1 DEF IInv, TypeOK, RowsTyped
  <1>4. /\ RowsOnlyAdvance
        /\ SameStages
        /\ DefaultsUntilPersisted'
        /\ HoldConsistent'
    BY <1>1 DEF RowsOnlyAdvance, RowKept, SameStages, IInv, DefaultsUntilPersisted, HoldConsistent
  <1>5. TransitionsValid' /\ LedgerExplainsStage'
    BY <1>1, <1>2, <1>3, <1>4, TypeKept, TransitionsKept, LedgerKept DEF IInv
  <1> QED
    BY <1>2, <1>3, <1>4, <1>5, WriterKeepsInvariant

LEMMA StartEvaluationStep ==
    ASSUME IInv, NEW p \in Evaluations, StartEvaluation(p)
    PROVE  IInv'
  <1> DEFINE read == [i \in {j \in Initiatives : NewlyStalled(j)} |-> initiative[i].version]
  <1>1. /\ UNCHANGED rows /\ UNCHANGED <<assessed, loaded, report>>
        /\ DOMAIN evaluation' = DOMAIN evaluation \cup {p}
        /\ evaluation'[p] = read
        /\ \A q \in DOMAIN evaluation : q # p => evaluation'[q] = evaluation[q]
    BY DEF StartEvaluation, Put
  <1>2. /\ DOMAIN read \subseteq Initiatives
        /\ \A i \in DOMAIN read : /\ read[i] = initiative[i].version
                                   /\ initiative[i].version \in Nat
                                   /\ NewlyStalled(i)
    BY DEF IInv, TypeOK, InitiativeRow
  <1>3. TypeOK'
    BY <1>1, <1>2 DEF IInv, TypeOK, rows
  <1>4. EvaluationsValid'
    <2> SUFFICES ASSUME NEW q \in DOMAIN evaluation', NEW i \in DOMAIN evaluation'[q]
                 PROVE  /\ initiative[i].persisted
                        /\ evaluation'[q][i] <= initiative[i].version
                        /\ evaluation'[q][i] = initiative[i].version => NewlyStalled(i)
      BY <1>1 DEF EvaluationsValid, NewlyStalled, rows
    <2>1. CASE q = p
      BY <1>1, <1>2, <2>1 DEF NewlyStalled
    <2>2. CASE q # p
      BY <1>1, <2>2 DEF IInv, EvaluationsValid
    <2> QED
      BY <2>1, <2>2
  <1>5. OutcomesValid' /\ SnapshotsValid' /\ ReportsValid'
    BY <1>1 DEF IInv, OutcomesValid, SnapshotsValid, ReportsValid, PossibleOutcomes, rows
  <1> QED
    BY <1>1, <1>3, <1>4, <1>5, RowsUntouched DEF IInv

LEMMA StalledRow ==
    ASSUME NEW row \in InitiativeRow
    PROVE  [row EXCEPT !.lifecycle_state = "Stalled", !.version = row.version + 1] \in InitiativeRow
  <1>1. row.version + 1 \in Nat
    BY DEF InitiativeRow
  <1> QED
    BY <1>1 DEF InitiativeRow, LifecycleStates

LEMMA StallCounted ==
    ASSUME NEW counts \in [Stages -> Nat], NEW s
    PROVE  [counts EXCEPT ![s] = @ + 1] \in [Stages -> Nat]
  <1>1. ASSUME NEW x \in Stages PROVE counts[x] + 1 \in Nat
    OBVIOUS
  <1>2. CASE s \in Stages
    BY <1>1, <1>2
  <1>3. CASE s \notin Stages
    BY <1>3
  <1> QED
    BY <1>2, <1>3

LEMMA CommitEvaluationStep ==
    ASSUME IInv, NEW p \in Evaluations, CommitEvaluation(p)
    PROVE  IInv'
  <1> DEFINE stalled == {i \in DOMAIN evaluation[p] : NotChangedSince(i, evaluation[p][i])}
  <1>1. /\ initiative' = [i \in Initiatives |->
                            IF i \in stalled
                            THEN [initiative[i] EXCEPT !.lifecycle_state = "Stalled",
                                                       !.version = evaluation[p][i] + 1]
                            ELSE initiative[i]]
        /\ stalls' = [i \in Initiatives |->
                         IF i \in stalled
                         THEN [stalls[i] EXCEPT ![initiative[i].current_stage] = @ + 1]
                         ELSE stalls[i]]
        /\ evaluation' = Forget(evaluation, p)
        /\ UNCHANGED <<overdue, transition, assessed, loaded, report>>
        /\ p \in DOMAIN evaluation
    BY DEF CommitEvaluation
  <1>2. SessionsShrink
    BY <1>1, EvaluationEnded
  <1>3. ASSUME NEW i \in stalled
        PROVE  /\ i \in Initiatives
               /\ initiative[i].persisted
               /\ ~initiative[i].is_on_hold
               /\ initiative[i].lifecycle_state # "OnHold"
               /\ evaluation[p][i] = initiative[i].version
    BY <1>1 DEF IInv, TypeOK, EvaluationsValid, NewlyStalled, NotChangedSince, HoldConsistent
  <1>4. ASSUME NEW i \in Initiatives
        PROVE  /\ initiative'[i] \in InitiativeRow
               /\ stalls'[i] \in [Stages -> Nat]
               /\ RowKept(i) \/ RowChanged(i)
               /\ initiative'[i].current_stage = initiative[i].current_stage
               /\ ~initiative'[i].persisted => initiative'[i] = initiative[i]
               /\ initiative'[i].persisted <=> initiative[i].persisted
               /\ initiative'[i].is_on_hold <=> initiative'[i].lifecycle_state = "OnHold"
    <2>1. /\ initiative[i] \in InitiativeRow
          /\ stalls[i] \in [Stages -> Nat]
          /\ initiative[i].is_on_hold <=> initiative[i].lifecycle_state = "OnHold"
      BY DEF IInv, TypeOK, HoldConsistent
    <2>2. CASE i \in stalled
      <3>1. /\ initiative'[i] = [initiative[i] EXCEPT !.lifecycle_state = "Stalled",
                                                     !.version = initiative[i].version + 1]
            /\ stalls'[i] = [stalls[i] EXCEPT ![initiative[i].current_stage] = @ + 1]
        BY <1>1, <1>3, <2>2
      <3>2. initiative'[i] \in InitiativeRow
        BY <2>1, <3>1, StalledRow
      <3>5. stalls'[i] \in [Stages -> Nat]
        BY <2>1, <3>1, StallCounted
      <3>3. /\ initiative'[i].persisted = initiative[i].persisted
            /\ initiative'[i].is_on_hold = initiative[i].is_on_hold
            /\ initiative'[i].current_stage = initiative[i].current_stage
            /\ initiative'[i].lifecycle_state = "Stalled"
            /\ initiative'[i].version = initiative[i].version + 1
        BY <2>1, <3>1 DEF InitiativeRow
      <3>4. initiative[i].persisted /\ ~initiative[i].is_on_hold
        BY <1>3, <2>2
      <3> QED
        BY <3>2, <3>3, <3>4, <3>5 DEF RowChanged
    <2>3. CASE i \notin stalled
      BY <1>1, <2>1, <2>3 DEF RowKept
    <2> QED
      BY <2>2, <2>3
  <1>5. RowsTyped'
    BY <1>1, <1>4 DEF IInv, TypeOK, RowsTyped
  <1>6. RowsOnlyAdvance /\ SameStages
    BY <1>4 DEF RowsOnlyAdvance, SameStages
  <1>7. DefaultsUntilPersisted' /\ HoldConsistent'
    BY <1>4 DEF IInv, DefaultsUntilPersisted, HoldConsistent
  <1>8. TransitionsValid' /\ LedgerExplainsStage'
    BY <1>1, <1>2, <1>5, <1>6, TypeKept, TransitionsKept, LedgerKept DEF IInv
  <1> QED
    BY <1>2, <1>5, <1>6, <1>7, <1>8, WriterKeepsInvariant

LEMMA ReadForBreachStep ==
    ASSUME IInv, NEW b \in Reports, NEW i \in Initiatives, ReadForBreach(b, i)
    PROVE  IInv'
  <1>1. /\ UNCHANGED rows /\ UNCHANGED <<assessed, loaded, evaluation>>
        /\ DOMAIN report' = DOMAIN report \cup {b}
        /\ report'[b] = [initiative |-> i, version |-> initiative[i].version]
        /\ \A c \in DOMAIN report : c # b => report'[c] = report[c]
        /\ initiative[i].persisted
        /\ ~initiative[i].is_on_hold
    BY DEF ReadForBreach, Put
  <1>2. initiative[i].version \in Nat
    BY DEF IInv, TypeOK, InitiativeRow
  <1>3. TypeOK'
    BY <1>1, <1>2 DEF IInv, TypeOK, rows
  <1>4. ReportsValid'
    BY <1>1, <1>2 DEF IInv, ReportsValid, rows
  <1>5. OutcomesValid' /\ SnapshotsValid' /\ EvaluationsValid'
    BY <1>1 DEF IInv, OutcomesValid, SnapshotsValid, EvaluationsValid, NewlyStalled,
                PossibleOutcomes, rows
  <1> QED
    BY <1>1, <1>3, <1>4, <1>5, RowsUntouched DEF IInv

LEMMA RecordDriftStep ==
    ASSUME IInv, NEW b \in Reports, RecordDrift(b)
    PROVE  IInv'
  <1>1. /\ b \in DOMAIN report
        /\ SwapLifecycleState(report[b].initiative, report[b].version, "Drifted")
        /\ report' = Forget(report, b)
        /\ UNCHANGED <<overdue, transition, assessed, loaded, evaluation, stalls>>
    BY DEF RecordDrift
  <1>2. SessionsShrink
    BY <1>1, ReportEnded
  <1>3. PICK i \in Initiatives : i = report[b].initiative
    BY <1>1 DEF IInv, TypeOK
  <1>4. ~initiative[i].is_on_hold
    BY <1>1, <1>3 DEF IInv, ReportsValid, SwapLifecycleState, NotChangedSince
  <1>5. /\ initiative' \in [Initiatives -> InitiativeRow]
        /\ RowsOnlyAdvance
        /\ DefaultsUntilPersisted'
        /\ HoldConsistent'
        /\ SameStages
    <2>1. "Drifted" \in LifecycleStates
      BY DEF LifecycleStates
    <2> QED
      BY <1>1, <1>3, <1>4, <2>1, LifecycleStateSwapped
  <1>6. RowsTyped'
    BY <1>1, <1>5 DEF IInv, TypeOK, RowsTyped
  <1>7. TransitionsValid' /\ LedgerExplainsStage'
    BY <1>1, <1>2, <1>5, <1>6, TypeKept, TransitionsKept, LedgerKept DEF IInv
  <1> QED
    BY <1>2, <1>5, <1>6, <1>7, WriterKeepsInvariant

LEMMA AbandonedSessionStep ==
    ASSUME IInv,
           \/ \E r \in Assessments : AbandonAssessment(r)
           \/ \E p \in Evaluations : AbandonEvaluation(p)
           \/ \E b \in Reports : AbandonReport(b)
    PROVE  IInv'
  <1>1. ASSUME NEW r \in Assessments, AbandonAssessment(r)
        PROVE  IInv'
    <2>1. EndAssessment(r) /\ UNCHANGED rows /\ UNCHANGED <<evaluation, report>>
      BY <1>1 DEF AbandonAssessment
    <2> QED
      BY <2>1, AssessmentCommitted, AbandonStep DEF SessionsShrink
  <1>2. ASSUME NEW p \in Evaluations, AbandonEvaluation(p)
        PROVE  IInv'
    <2>1. /\ evaluation' = Forget(evaluation, p)
          /\ UNCHANGED rows /\ UNCHANGED <<assessed, loaded, report>>
      BY <1>2 DEF AbandonEvaluation
    <2> QED
      BY <2>1, EvaluationEnded, AbandonStep DEF SessionsShrink
  <1>3. ASSUME NEW b \in Reports, AbandonReport(b)
        PROVE  IInv'
    <2>1. /\ report' = Forget(report, b)
          /\ UNCHANGED rows /\ UNCHANGED <<assessed, loaded, evaluation>>
      BY <1>3 DEF AbandonReport
    <2> QED
      BY <2>1, ReportEnded, AbandonStep DEF SessionsShrink
  <1> QED
    BY <1>1, <1>2, <1>3

-----------------------------------------------------------------------------
(* The invariant. *)

LEMMA InitEstablishes == Init => IInv
  <1> SUFFICES ASSUME Init PROVE IInv
    OBVIOUS
  <1>1. /\ NewRow \in InitiativeRow
        /\ NewRow.current_stage = 1
        /\ NewRow.lifecycle_state = "Assessed" /\ NewRow.is_on_hold = FALSE
    BY StageAssumption DEF NewRow, InitiativeRow, Stages, LifecycleStates
  <1>2. TypeOK
    BY <1>1 DEF Init, TypeOK
  <1>3. HoldConsistent
    BY <1>1 DEF Init, HoldConsistent
  <1>4. LedgerExplainsStage
    <2>1. \A s \in Stages : ~(s < 1)
      BY StageAssumption DEF Stages
    <2> QED
      BY <1>1, <2>1 DEF Init, LedgerExplainsStage, Effective
  <1> QED
    BY <1>2, <1>3, <1>4
       DEF Init, IInv, DefaultsUntilPersisted, OutcomesValid, SnapshotsValid, EvaluationsValid,
           ReportsValid, TransitionsValid

LEMMA NextPreserves == IInv /\ [Next]_vars => IInv'
  <1> SUFFICES ASSUME IInv, [Next]_vars PROVE IInv'
    OBVIOUS
  <1>1. ASSUME NEW r \in Assessments, AssessmentStep(r)
        PROVE  IInv'
    BY <1>1, AssessStep, LoadInitiativeStep, RecordNoTransitionStep, ProposeTransitionStep,
       AdvanceAutomaticallyStep, AbandonedSessionStep DEF AssessmentStep
  <1>2. CASE HumanStep
    BY <1>2, HoldStep, ApproveTransitionStep, RejectTransitionStep DEF HumanStep
  <1>3. ASSUME NEW i \in Initiatives, PromoteCandidate(i) \/ SlaElapses(i)
        PROVE  IInv'
    BY <1>3, PromoteCandidateStep, SlaElapsesStep
  <1>4. ASSUME NEW p \in Evaluations, PacerStep(p)
        PROVE  IInv'
    BY <1>4, StartEvaluationStep, CommitEvaluationStep, AbandonedSessionStep DEF PacerStep
  <1>5. ASSUME NEW b \in Reports, SentinelStep(b)
        PROVE  IInv'
    BY <1>5, ReadForBreachStep, RecordDriftStep, AbandonedSessionStep DEF SentinelStep
  <1>6. CASE UNCHANGED vars
    <2>1. UNCHANGED <<initiative, overdue, transition, assessed, loaded, evaluation, report, stalls>>
      BY <1>6 DEF vars
    <2>2. SessionsShrink
      BY <2>1, SessionsUntouched DEF sessions
    <2> QED
      BY <2>1, <2>2, AbandonStep DEF rows, SessionsShrink
  <1> QED
    BY <1>1, <1>2, <1>3, <1>4, <1>5, <1>6 DEF Next

\* The inductive invariant holds in every reachable state: every version a session or a
\* proposal still compares with is a version of the row it read.
THEOREM Invariance == Spec => []IInv
  <1>1. Init => IInv
    BY InitEstablishes
  <1>2. IInv /\ [Next]_vars => IInv'
    BY NextPreserves
  <1> QED
    BY <1>1, <1>2, PTL DEF Spec

\* Every variable keeps its type, so a stage is never left above the last one.
THEOREM TypeCorrect == Spec => []TypeOK
  BY Invariance, PTL DEF IInv

\* The two columns that say an initiative is held agree, whoever writes them.
THEOREM HoldIsConsistent == Spec => []HoldConsistent
  BY Invariance, PTL DEF IInv

\* The ledger accounts for the stage of every initiative, one advance per stage left.
THEOREM LedgerExplains == Spec => []LedgerExplainsStage
  BY Invariance, PTL DEF IInv

\* A proposal that can still be decided describes the initiative as it is.
THEOREM ProposalsFresh == Spec => []FreshProposalApplies
  <1>1. IInv => FreshProposalApplies
    <2> SUFFICES ASSUME IInv, NEW t \in DOMAIN transition, Decidable(t)
                 PROVE  LET stage == initiative[transition[t].initiative].current_stage
                        IN  /\ transition[t].from_stage = stage
                            /\ transition[t].to_stage = IF transition[t].type = "ADVANCE"
                                                       THEN stage + 1 ELSE NoStage
      BY DEF FreshProposalApplies
    <2> QED
      BY DecidableProposal
  <1> QED
    BY <1>1, Invariance, PTL

\* The last stage is only entered by a person's approval: the ledger has an effective
\* advance out of the stage below, and no applied row goes to the last stage.
THEOREM LastStageApproved == Spec => []LastStageNeedsApproval
  <1>1. IInv => LastStageNeedsApproval
    <2> SUFFICES ASSUME IInv, NEW i \in Initiatives, initiative[i].current_stage = LastStage
                 PROVE  \E t \in DOMAIN transition :
                           /\ Effective(t, i)
                           /\ transition[t].to_stage = LastStage
                           /\ transition[t].status = "APPROVED"
      BY DEF LastStageNeedsApproval
    <2>1. LastStage - 1 \in Stages /\ LastStage - 1 < LastStage
      BY StageAssumption DEF Stages
    <2>2. PICK t \in DOMAIN transition : Effective(t, i) /\ transition[t].from_stage = LastStage - 1
      BY <2>1 DEF IInv, LedgerExplainsStage
    <2>3. TransitionValid(t)
      BY DEF IInv, TransitionsValid
    <2>4. transition[t].to_stage = LastStage
      BY <2>2, <2>3, StageAssumption DEF TransitionValid, Effective
    <2> QED
      BY <2>2, <2>3, <2>4 DEF TransitionValid, Effective
  <1> QED
    BY <1>1, Invariance, PTL
-----------------------------------------------------------------------------
(* What a step may do to the rows. *)

\* The actions that write rows; every other step leaves them alone.
Writes ==
    \/ \E r \in Assessments : RecordNoTransition(r)
    \/ \E r \in Assessments, t \in Transitions : ProposeTransition(r, t) \/ AdvanceAutomatically(r, t)
    \/ \E i \in Initiatives, t \in Transitions : Hold(i, t) \/ Resume(i, t)
    \/ \E t \in Transitions : ApproveTransition(t) \/ RejectTransition(t)
    \/ \E i \in Initiatives : PromoteCandidate(i) \/ SlaElapses(i)
    \/ \E p \in Evaluations : CommitEvaluation(p)
    \/ \E b \in Reports : RecordDrift(b)

LEMMA WritesOrNot == [Next]_vars => Writes \/ UNCHANGED rows
  <1> SUFFICES ASSUME [Next]_vars PROVE Writes \/ UNCHANGED rows
    OBVIOUS
  <1>1. ASSUME NEW r \in Assessments, AssessmentStep(r)
        PROVE  Writes \/ UNCHANGED rows
    BY <1>1 DEF AssessmentStep, Assess, LoadInitiative, AbandonAssessment, Writes
  <1>2. CASE HumanStep
    BY <1>2 DEF HumanStep, Writes
  <1>3. ASSUME NEW i \in Initiatives, PromoteCandidate(i) \/ SlaElapses(i)
        PROVE  Writes \/ UNCHANGED rows
    BY <1>3 DEF Writes
  <1>4. ASSUME NEW p \in Evaluations, PacerStep(p)
        PROVE  Writes \/ UNCHANGED rows
    BY <1>4 DEF PacerStep, StartEvaluation, AbandonEvaluation, Writes
  <1>5. ASSUME NEW b \in Reports, SentinelStep(b)
        PROVE  Writes \/ UNCHANGED rows
    BY <1>5 DEF SentinelStep, ReadForBreach, AbandonReport, Writes
  <1>6. CASE UNCHANGED vars
    BY <1>6 DEF vars, rows
  <1> QED
    BY <1>1, <1>2, <1>3, <1>4, <1>5, <1>6 DEF Next

\* A stall is recorded only of a row that is, at that moment, newly stalled: the version
\* that was compared is the one Pacer had read, so what Pacer found is still true.
THEOREM StallsJustified == Spec => StallJustified
  <1>1. IInv /\ [Next]_vars => \A i \in Initiatives : stalls'[i] # stalls[i] => NewlyStalled(i)
    <2> SUFFICES ASSUME IInv, [Next]_vars, NEW i \in Initiatives, stalls'[i] # stalls[i]
                 PROVE  NewlyStalled(i)
      OBVIOUS
    <2>1. PICK p \in Evaluations : CommitEvaluation(p)
      BY WritesOrNot
         DEF Writes, rows, RecordNoTransition, ProposeTransition, AdvanceAutomatically, Hold, Resume,
             ApproveTransition, RejectTransition, PromoteCandidate, SlaElapses, RecordDrift
    <2>2. p \in DOMAIN evaluation /\ i \in DOMAIN evaluation[p] /\ NotChangedSince(i, evaluation[p][i])
      BY <2>1 DEF CommitEvaluation
    <2> QED
      BY <2>2 DEF IInv, EvaluationsValid, NotChangedSince
  <1> QED
    BY <1>1, Invariance, PTL DEF Spec, StallJustified
\* What a write does to one row: nothing but mark it committed, or the insertion of a
\* candidate, or a change of the version it was decided on.
RowUntouched(i) ==
    /\ initiative'[i].current_stage = initiative[i].current_stage
    /\ initiative'[i].lifecycle_state = initiative[i].lifecycle_state
    /\ initiative'[i].is_on_hold = initiative[i].is_on_hold
    /\ initiative'[i] # initiative[i] => ~initiative[i].persisted /\ initiative'[i].persisted

RowInserted(i) == ~initiative[i].persisted /\ initiative'[i].persisted /\ ~initiative[i].is_on_hold

\* A row that is held before and after a change of version keeps its stage and state.
RowUpdated(i) ==
    /\ initiative'[i].version = initiative[i].version + 1
    /\ initiative[i].is_on_hold /\ initiative'[i].is_on_hold =>
          /\ initiative'[i].current_stage = initiative[i].current_stage
          /\ initiative'[i].lifecycle_state = initiative[i].lifecycle_state

RowWritten(i) == RowUntouched(i) \/ RowInserted(i) \/ RowUpdated(i)

LEMMA SameRow ==
    ASSUME NEW i \in Initiatives, initiative'[i] = initiative[i]
    PROVE  RowWritten(i)
  BY DEF RowWritten, RowUntouched

LEMMA OnlyPersistedWritten ==
    ASSUME IInv, NEW j, NEW i \in Initiatives,
           initiative' = [initiative EXCEPT ![j].persisted = TRUE]
    PROVE  RowWritten(i)
  <1>1. initiative \in [Initiatives -> InitiativeRow] /\ initiative[i] \in InitiativeRow
    BY DEF IInv, TypeOK
  <1>2. CASE i # j
    BY <1>1, <1>2, SameRow
  <1>3. CASE i = j
    <2>1. initiative'[i] = [initiative[i] EXCEPT !.persisted = TRUE]
      BY <1>1, <1>3
    <2> QED
      BY <1>1, <2>1 DEF RowWritten, RowUntouched, InitiativeRow
  <1> QED
    BY <1>2, <1>3

LEMMA LifecycleStateWritten ==
    ASSUME IInv, NEW j \in Initiatives, NEW v, NEW state, NEW i \in Initiatives,
           SwapLifecycleState(j, v, state), initiative[j].is_on_hold => state = "OnHold"
    PROVE  RowWritten(i)
  <1>1. /\ initiative \in [Initiatives -> InitiativeRow]
        /\ initiative[i].is_on_hold <=> initiative[i].lifecycle_state = "OnHold"
    BY DEF IInv, TypeOK, HoldConsistent
  <1>2. /\ v = initiative[j].version
        /\ initiative' = [initiative EXCEPT ![j].persisted = TRUE,
                                            ![j].lifecycle_state = state,
                                            ![j].version = v + 1]
    BY DEF SwapLifecycleState, NotChangedSince
  <1>3. CASE i # j
    BY <1>1, <1>2, <1>3, SameRow
  <1>4. CASE i = j
    <2>1. /\ initiative'[i].version = initiative[i].version + 1
          /\ initiative'[i].lifecycle_state = state
          /\ initiative'[i].current_stage = initiative[i].current_stage
      BY <1>1, <1>2, <1>4 DEF InitiativeRow
    <2> QED
      BY <1>1, <1>4, <2>1 DEF RowWritten, RowUpdated
  <1> QED
    BY <1>3, <1>4

LEMMA StageWritten ==
    ASSUME IInv, NEW j \in Initiatives, NEW v, NEW stage, NEW i \in Initiatives,
           SwapStage(j, v, stage), ~initiative[j].is_on_hold
    PROVE  RowWritten(i)
  <1>1. initiative \in [Initiatives -> InitiativeRow]
    BY DEF IInv, TypeOK
  <1>2. /\ v = initiative[j].version
        /\ initiative' = [initiative EXCEPT ![j].persisted = TRUE,
                                            ![j].current_stage = stage,
                                            ![j].lifecycle_state = "Active",
                                            ![j].version = v + 1]
    BY DEF SwapStage, NotChangedSince
  <1>3. CASE i # j
    BY <1>1, <1>2, <1>3, SameRow
  <1>4. CASE i = j
    <2>1. initiative'[i].version = initiative[i].version + 1
      BY <1>1, <1>2, <1>4 DEF InitiativeRow
    <2> QED
      BY <1>4, <2>1 DEF RowWritten, RowUpdated
  <1> QED
    BY <1>3, <1>4

LEMMA WritesOfEveryStep ==
    ASSUME IInv, [Next]_vars, NEW i \in Initiatives
    PROVE  RowWritten(i)
  <1>1. ASSUME NEW r \in Assessments, RecordNoTransition(r)
        PROVE  RowWritten(i)
    <2> DEFINE j == loaded[r].initiative
               row == loaded[r].row
               desired == DesiredState(row, assessed[r].outcome)
    <2>1. ReadyToProcess(r)
      BY <1>1 DEF RecordNoTransition
    <2>2. CASE initiative' = [initiative EXCEPT ![j].persisted = TRUE]
      BY <2>2, OnlyPersistedWritten
    <2>3. CASE SwapLifecycleState(j, row.version, desired)
      <3>1. initiative[j].is_on_hold => desired = "OnHold"
        BY <2>1, <2>3, ReadySnapshot DEF SwapLifecycleState, NotChangedSince, DesiredState
      <3> QED
        BY <2>1, <2>3, <3>1, ReadySnapshot, LifecycleStateWritten
    <2> QED
      BY <1>1, <2>2, <2>3 DEF RecordNoTransition
  <1>2. ASSUME NEW r \in Assessments, NEW t \in Transitions, ProposeTransition(r, t)
        PROVE  RowWritten(i)
    BY <1>2, OnlyPersistedWritten DEF ProposeTransition
  <1>3. ASSUME NEW r \in Assessments, NEW t \in Transitions, AdvanceAutomatically(r, t)
        PROVE  RowWritten(i)
    <2>1. /\ ReadyToProcess(r)
          /\ ~loaded[r].row.is_on_hold
          /\ SwapStage(loaded[r].initiative, loaded[r].row.version, loaded[r].row.current_stage + 1)
      BY <1>3 DEF AdvanceAutomatically, ReviewRequired
    <2>2. ~initiative[loaded[r].initiative].is_on_hold
      BY <2>1, ReadySnapshot DEF SwapStage, NotChangedSince
    <2> QED
      BY <2>1, <2>2, ReadySnapshot, StageWritten
  <1>4. ASSUME NEW j \in Initiatives, NEW t \in Transitions, Hold(j, t) \/ Resume(j, t)
        PROVE  RowWritten(i)
    <2>1. initiative \in [Initiatives -> InitiativeRow]
      BY DEF IInv, TypeOK
    <2>2. CASE i # j
      BY <1>4, <2>1, <2>2, SameRow DEF Hold, Resume
    <2>3. CASE i = j
      <3>1. initiative'[i].version = initiative[i].version + 1
        BY <1>4, <2>1, <2>3 DEF Hold, Resume, InitiativeRow
      <3>2. ~(initiative[i].is_on_hold /\ initiative'[i].is_on_hold)
        BY <1>4, <2>1, <2>3 DEF Hold, Resume, InitiativeRow
      <3> QED
        BY <3>1, <3>2 DEF RowWritten, RowUpdated
    <2> QED
      BY <2>2, <2>3
  <1>5. ASSUME NEW t \in Transitions, ApproveTransition(t)
        PROVE  RowWritten(i)
    BY <1>5, DecidableProposal, StageWritten, LifecycleStateWritten DEF ApproveTransition
  <1>6. ASSUME NEW j \in Initiatives, PromoteCandidate(j)
        PROVE  RowWritten(i)
    <2>1. initiative \in [Initiatives -> InitiativeRow]
      BY DEF IInv, TypeOK
    <2>2. CASE i # j
      BY <1>6, <2>1, <2>2, SameRow DEF PromoteCandidate
    <2>3. CASE i = j
      <3>1. ~initiative[i].persisted /\ initiative'[i].persisted
        BY <1>6, <2>1, <2>3 DEF PromoteCandidate, InitiativeRow
      <3>2. ~initiative[i].is_on_hold
        BY <3>1 DEF IInv, DefaultsUntilPersisted, NewRow
      <3> QED
        BY <3>1, <3>2 DEF RowWritten, RowInserted
    <2> QED
      BY <2>2, <2>3
  <1>7. ASSUME NEW p \in Evaluations, CommitEvaluation(p)
        PROVE  RowWritten(i)
    <2>1. initiative[i] \in InitiativeRow
      BY DEF IInv, TypeOK
    <2>2. CASE i \in DOMAIN evaluation[p] /\ NotChangedSince(i, evaluation[p][i])
      <3>1. initiative'[i] = [initiative[i] EXCEPT !.lifecycle_state = "Stalled",
                                                   !.version = initiative[i].version + 1]
        BY <1>7, <2>2 DEF CommitEvaluation, NotChangedSince
      <3>2. initiative'[i].version = initiative[i].version + 1
        BY <2>1, <3>1 DEF InitiativeRow
      <3>3. ~initiative[i].is_on_hold
        BY <1>7, <2>2 DEF CommitEvaluation, IInv, EvaluationsValid, NotChangedSince, NewlyStalled
      <3> QED
        BY <3>2, <3>3 DEF RowWritten, RowUpdated
    <2>3. CASE ~(i \in DOMAIN evaluation[p] /\ NotChangedSince(i, evaluation[p][i]))
      BY <1>7, <2>3, SameRow DEF CommitEvaluation
    <2> QED
      BY <2>2, <2>3
  <1>8. ASSUME NEW b \in Reports, RecordDrift(b)
        PROVE  RowWritten(i)
    <2>1. /\ report[b].initiative \in Initiatives
          /\ SwapLifecycleState(report[b].initiative, report[b].version, "Drifted")
          /\ ~initiative[report[b].initiative].is_on_hold
      BY <1>8 DEF RecordDrift, IInv, TypeOK, ReportsValid, SwapLifecycleState, NotChangedSince
    <2> QED
      BY <2>1, LifecycleStateWritten
  <1>9. CASE UNCHANGED initiative
    BY <1>9, SameRow
  <1> QED
    BY <1>1, <1>2, <1>3, <1>4, <1>5, <1>6, <1>7, <1>8, <1>9, WritesOrNot
       DEF Writes, rows, RejectTransition, SlaElapses

\* A held initiative keeps its stage and state until it is resumed.
THEOREM HeldStands == Spec => HeldInitiativeStands
  <1>1. IInv /\ [Next]_vars =>
           \A i \in Initiatives :
              initiative[i].is_on_hold /\ initiative'[i].is_on_hold =>
                  /\ initiative'[i].current_stage = initiative[i].current_stage
                  /\ initiative'[i].lifecycle_state = initiative[i].lifecycle_state
    BY WritesOfEveryStep DEF RowWritten, RowUntouched, RowInserted, RowUpdated
  <1> QED
    BY <1>1, Invariance, PTL DEF Spec, HeldInitiativeStands

\* Every committed change of an initiative but its insertion takes the next version.
THEOREM ChangesVersioned == Spec => EveryChangeVersioned
  <1>1. IInv /\ [Next]_vars =>
           \A i \in Initiatives :
              initiative'[i] # initiative[i] =>
                  \/ initiative'[i].version = initiative[i].version + 1
                  \/ ~initiative[i].persisted /\ initiative'[i].persisted
    BY WritesOfEveryStep DEF RowWritten, RowUntouched, RowInserted, RowUpdated
  <1> QED
    BY <1>1, Invariance, PTL DEF Spec, EveryChangeVersioned

-----------------------------------------------------------------------------
(***************************************************************************)
(* The ledger: decisions are final, holds and resumes alternate, and from  *)
(* lifecycle_transitions alone every change of a stage or a hold can be    *)
(* explained as a step of StageLadder.  The invariant is IInv, with the    *)
(* finite ledger that counting needs.                                      *)
(***************************************************************************)
(* What a step may do to the ledger and to the holds. *)

HoldsKept == \A i \in Initiatives : initiative'[i].is_on_hold = initiative[i].is_on_hold

\* A row is appended.
Appends(t, row) == t \notin DOMAIN transition /\ transition' = Put(transition, t, row)

\* A pending row is decided.
Decides(t, status) ==
    /\ t \in DOMAIN transition
    /\ transition[t].status = "PENDING"
    /\ transition' = [transition EXCEPT ![t].status = status]

\* A hold, or the end of one, is appended with the change of the column.
HoldsOthersKept(i) ==
    \A j \in Initiatives : j # i => initiative'[j].is_on_hold = initiative[j].is_on_hold

HoldAppended(i, t, row) ==
    /\ Appends(t, row)
    /\ row.initiative = i /\ row.type = "HOLD"
    /\ ~initiative[i].is_on_hold
    /\ initiative'[i].is_on_hold
    /\ HoldsOthersKept(i)

ResumeAppended(i, t, row) ==
    /\ Appends(t, row)
    /\ row.initiative = i /\ row.type = "RESUME"
    /\ initiative[i].is_on_hold
    /\ ~initiative'[i].is_on_hold
    /\ HoldsOthersKept(i)

LedgerStep ==
    \/ transition' = transition /\ HoldsKept
    \/ (\E t, row : Appends(t, row) /\ row.type \in {"ADVANCE", "NO_GO"}) /\ HoldsKept
    \/ (\E t, status : Decides(t, status)) /\ HoldsKept
    \/ \E i \in Initiatives : \E t, row : HoldAppended(i, t, row) \/ ResumeAppended(i, t, row)

\* Writes of other columns keep the hold of every row, and its stage.
LEMMA PersistedKeepsHolds ==
    ASSUME IInv, NEW j, initiative' = [initiative EXCEPT ![j].persisted = TRUE]
    PROVE  HoldsKept /\ SameStages
  <1>1. SUFFICES ASSUME NEW i \in Initiatives
                 PROVE  /\ initiative'[i].is_on_hold = initiative[i].is_on_hold
                        /\ initiative'[i].current_stage = initiative[i].current_stage
    BY DEF HoldsKept, SameStages
  <1>2. initiative \in [Initiatives -> InitiativeRow] /\ initiative[i] \in InitiativeRow
    BY DEF IInv, TypeOK
  <1>3. \/ initiative'[i] = initiative[i]
        \/ initiative'[i] = [initiative[i] EXCEPT !.persisted = TRUE]
    BY <1>2
  <1>4. QED
    BY <1>2, <1>3 DEF InitiativeRow

LEMMA StateKeepsHolds ==
    ASSUME IInv, NEW j, NEW v, NEW state, SwapLifecycleState(j, v, state)
    PROVE  HoldsKept /\ SameStages
  <1>1. SUFFICES ASSUME NEW i \in Initiatives
                 PROVE  /\ initiative'[i].is_on_hold = initiative[i].is_on_hold
                        /\ initiative'[i].current_stage = initiative[i].current_stage
    BY DEF HoldsKept, SameStages
  <1>2. initiative \in [Initiatives -> InitiativeRow] /\ initiative[i] \in InitiativeRow
    BY DEF IInv, TypeOK
  <1>3. \/ initiative'[i] = initiative[i]
        \/ initiative'[i] = [initiative[i] EXCEPT !.persisted = TRUE, !.lifecycle_state = state,
                                                  !.version = v + 1]
    BY <1>2 DEF SwapLifecycleState
  <1>4. QED
    BY <1>2, <1>3 DEF InitiativeRow

LEMMA StageKeepsHolds ==
    ASSUME IInv, NEW j, NEW v, NEW stage, SwapStage(j, v, stage)
    PROVE  HoldsKept
  <1>1. SUFFICES ASSUME NEW i \in Initiatives
                 PROVE  initiative'[i].is_on_hold = initiative[i].is_on_hold
    BY DEF HoldsKept
  <1>2. initiative \in [Initiatives -> InitiativeRow] /\ initiative[i] \in InitiativeRow
    BY DEF IInv, TypeOK
  <1>3. \/ initiative'[i] = initiative[i]
        \/ initiative'[i] = [initiative[i] EXCEPT !.persisted = TRUE, !.current_stage = stage,
                                                  !.lifecycle_state = "Active", !.version = v + 1]
    BY <1>2 DEF SwapStage
  <1>4. QED
    BY <1>2, <1>3 DEF InitiativeRow

\* A human command appends the row that says what it does to the hold.
LEMMA HoldAppends ==
    ASSUME IInv, NEW i \in Initiatives, NEW t, Hold(i, t)
    PROVE  \E row : HoldAppended(i, t, row)
  <1>1. initiative \in [Initiatives -> InitiativeRow] /\ initiative[i] \in InitiativeRow
    BY DEF IInv, TypeOK
  <1> DEFINE row == [initiative |-> i, type |-> "HOLD", from_stage |-> initiative[i].current_stage,
                     to_stage |-> initiative[i].current_stage, status |-> "APPLIED",
                     expected_version |-> initiative[i].version]
  <1>2. Appends(t, row)
    BY DEF Hold, RecordHumanTransition, InsertTransition, Appends
  <1>3. ~initiative[i].is_on_hold /\ initiative'[i].is_on_hold
    BY <1>1 DEF Hold, InitiativeRow
  <1>4. HoldsOthersKept(i)
    BY <1>1 DEF Hold, HoldsOthersKept
  <1>5. HoldAppended(i, t, row)
    BY <1>2, <1>3, <1>4 DEF HoldAppended
  <1>6. QED
    BY <1>5

LEMMA ResumeAppends ==
    ASSUME IInv, NEW i \in Initiatives, NEW t, Resume(i, t)
    PROVE  \E row : ResumeAppended(i, t, row)
  <1>1. initiative \in [Initiatives -> InitiativeRow] /\ initiative[i] \in InitiativeRow
    BY DEF IInv, TypeOK
  <1> DEFINE row == [initiative |-> i, type |-> "RESUME", from_stage |-> initiative[i].current_stage,
                     to_stage |-> initiative[i].current_stage, status |-> "APPLIED",
                     expected_version |-> initiative[i].version]
  <1>2. Appends(t, row)
    BY DEF Resume, RecordHumanTransition, InsertTransition, Appends
  <1>3. initiative[i].is_on_hold /\ ~initiative'[i].is_on_hold
    BY <1>1 DEF Resume, InitiativeRow
  <1>4. HoldsOthersKept(i)
    BY <1>1 DEF Resume, HoldsOthersKept
  <1>5. ResumeAppended(i, t, row)
    BY <1>2, <1>3, <1>4 DEF ResumeAppended
  <1>6. QED
    BY <1>5

\* An assessment appends an advance or a No-Go.
LEMMA AssessmentAppends ==
    ASSUME NEW t, NEW i, NEW old, NEW type \in {"ADVANCE", "NO_GO"}, NEW to, NEW status,
           InsertTransition(t, i, old, type, to, status)
    PROVE  \E row : Appends(t, row) /\ row.type \in {"ADVANCE", "NO_GO"}
  <1> DEFINE row == [initiative |-> i, type |-> type, from_stage |-> old.current_stage,
                     to_stage |-> to, status |-> status, expected_version |-> old.version]
  <1>1. Appends(t, row) /\ row.type \in {"ADVANCE", "NO_GO"}
    BY DEF InsertTransition, Appends
  <1>2. QED
    BY <1>1

LEMMA EveryLedgerStep ==
    ASSUME IInv, [Next]_vars
    PROVE  LedgerStep
  <1>1. ASSUME NEW r \in Assessments, RecordNoTransition(r)
        PROVE  LedgerStep
    <2>1. HoldsKept
      BY <1>1, PersistedKeepsHolds, StateKeepsHolds DEF RecordNoTransition
    <2>2. transition' = transition
      BY <1>1 DEF RecordNoTransition
    <2>3. QED
      BY <2>1, <2>2 DEF LedgerStep
  <1>2. ASSUME NEW r \in Assessments, NEW t \in Transitions, ProposeTransition(r, t)
        PROVE  LedgerStep
    <2>1. HoldsKept
      BY <1>2, PersistedKeepsHolds DEF ProposeTransition
    <2>2. \E row : Appends(t, row) /\ row.type \in {"ADVANCE", "NO_GO"}
      BY <1>2, AssessmentAppends DEF ProposeTransition
    <2>3. QED
      BY <2>1, <2>2 DEF LedgerStep
  <1>3. ASSUME NEW r \in Assessments, NEW t \in Transitions, AdvanceAutomatically(r, t)
        PROVE  LedgerStep
    <2>1. HoldsKept
      BY <1>3, StageKeepsHolds DEF AdvanceAutomatically
    <2>2. \E row : Appends(t, row) /\ row.type \in {"ADVANCE", "NO_GO"}
      BY <1>3, AssessmentAppends DEF AdvanceAutomatically
    <2>3. QED
      BY <2>1, <2>2 DEF LedgerStep
  <1>4. ASSUME NEW i \in Initiatives, NEW t \in Transitions, Hold(i, t) \/ Resume(i, t)
        PROVE  LedgerStep
    BY <1>4, HoldAppends, ResumeAppends DEF LedgerStep
  <1>5. ASSUME NEW t \in Transitions, ApproveTransition(t)
        PROVE  LedgerStep
    <2>1. HoldsKept
      BY <1>5, StageKeepsHolds, StateKeepsHolds DEF ApproveTransition
    <2>2. Decides(t, "APPROVED")
      BY <1>5 DEF ApproveTransition, Decidable, Decides
    <2>3. QED
      BY <2>1, <2>2 DEF LedgerStep
  <1>6. ASSUME NEW t \in Transitions, RejectTransition(t)
        PROVE  LedgerStep
    <2>1. HoldsKept
      BY <1>6 DEF RejectTransition, HoldsKept
    <2>2. Decides(t, "REJECTED")
      BY <1>6 DEF RejectTransition, Decidable, Decides
    <2>3. QED
      BY <2>1, <2>2 DEF LedgerStep
  <1>7. ASSUME NEW i \in Initiatives, PromoteCandidate(i)
        PROVE  LedgerStep
    <2>1. HoldsKept
      <3>1. SUFFICES ASSUME NEW j \in Initiatives
                     PROVE  initiative'[j].is_on_hold = initiative[j].is_on_hold
        BY DEF HoldsKept
      <3>2. initiative \in [Initiatives -> InitiativeRow] /\ initiative[j] \in InitiativeRow
        BY DEF IInv, TypeOK
      <3>3. \/ initiative'[j] = initiative[j]
            \/ initiative'[j] = [initiative[j] EXCEPT !.persisted = TRUE,
                                                      !.lifecycle_state = "Discovered"]
        BY <1>7, <3>2 DEF PromoteCandidate
      <3>4. QED
        BY <3>2, <3>3 DEF InitiativeRow
    <2>2. QED
      BY <1>7, <2>1 DEF PromoteCandidate, LedgerStep
  <1>8. ASSUME NEW p \in Evaluations, CommitEvaluation(p)
        PROVE  LedgerStep
    <2>1. HoldsKept
      <3>1. SUFFICES ASSUME NEW j \in Initiatives
                     PROVE  initiative'[j].is_on_hold = initiative[j].is_on_hold
        BY DEF HoldsKept
      <3>2. initiative[j] \in InitiativeRow
        BY DEF IInv, TypeOK
      <3>3. \/ initiative'[j] = initiative[j]
            \/ initiative'[j] = [initiative[j] EXCEPT !.lifecycle_state = "Stalled",
                                                      !.version = evaluation[p][j] + 1]
        BY <1>8 DEF CommitEvaluation
      <3>4. QED
        BY <3>2, <3>3 DEF InitiativeRow
    <2>2. QED
      BY <1>8, <2>1 DEF CommitEvaluation, LedgerStep
  <1>9. ASSUME NEW b \in Reports, RecordDrift(b)
        PROVE  LedgerStep
    BY <1>9, StateKeepsHolds DEF RecordDrift, LedgerStep
  <1>10. CASE UNCHANGED <<transition, initiative>>
    BY <1>10 DEF LedgerStep, HoldsKept
  <1>11. QED
    BY <1>1, <1>2, <1>3, <1>4, <1>5, <1>6, <1>7, <1>8, <1>9, <1>10, WritesOrNot
       DEF Writes, rows, SlaElapses

\* The ledger only grows, and a row that a person or the policy decided stays as it is.
THEOREM DecisionsFinal == Spec => DecisionIsFinal
  <1>1. ASSUME IInv, [Next]_vars, NEW t \in DOMAIN transition
        PROVE  /\ t \in DOMAIN transition'
               /\ transition[t].status # "PENDING" => transition'[t] = transition[t]
    <2>1. LedgerStep
      BY <1>1, EveryLedgerStep
    <2>2. ASSUME NEW u, NEW row, Appends(u, row)
          PROVE  t \in DOMAIN transition' /\ transition'[t] = transition[t]
      BY <2>2 DEF Appends, Put
    <2>3. ASSUME NEW u, NEW status, Decides(u, status)
          PROVE  /\ t \in DOMAIN transition'
                 /\ transition[t].status # "PENDING" => transition'[t] = transition[t]
      BY <2>3 DEF Decides
    <2>4. QED
      BY <2>1, <2>2, <2>3 DEF LedgerStep, HoldAppended, ResumeAppended
  <1>2. IInv /\ [Next]_vars =>
           \A t \in DOMAIN transition :
              /\ t \in DOMAIN transition'
              /\ transition[t].status # "PENDING" => transition'[t] = transition[t]
    BY <1>1
  <1>3. QED
    BY <1>2, Invariance, PTL DEF Spec, DecisionIsFinal

-----------------------------------------------------------------------------
(* Counting holds and resumes. *)

RowsOf(i, type) ==
    {t \in DOMAIN transition : transition[t].initiative = i /\ transition[t].type = type}

LedgerFinite == IsFiniteSet(DOMAIN transition)

HoldsCounted ==
    \A i \in Initiatives :
        /\ initiative[i].is_on_hold =>
              Cardinality(RowsOf(i, "HOLD")) = Cardinality(RowsOf(i, "RESUME")) + 1
        /\ ~initiative[i].is_on_hold =>
              Cardinality(RowsOf(i, "HOLD")) = Cardinality(RowsOf(i, "RESUME"))

LEMMA RowsFinite ==
    ASSUME LedgerFinite, NEW i, NEW type
    PROVE  IsFiniteSet(RowsOf(i, type)) /\ Cardinality(RowsOf(i, type)) \in Nat
  <1>1. RowsOf(i, type) \subseteq DOMAIN transition
    BY DEF RowsOf
  <1>2. QED
    BY <1>1, FS_Subset, FS_CardinalityType DEF LedgerFinite

\* An appended row is counted where it belongs, and nowhere else.
LEMMA RowAppended ==
    ASSUME LedgerFinite, NEW t, NEW row, Appends(t, row)
    PROVE  /\ LedgerFinite'
           /\ \A i, type :
                 Cardinality(RowsOf(i, type)') =
                    Cardinality(RowsOf(i, type))
                       + (IF row.initiative = i /\ row.type = type THEN 1 ELSE 0)
  <1>1. /\ t \notin DOMAIN transition
        /\ DOMAIN transition' = DOMAIN transition \cup {t}
        /\ transition'[t] = row
        /\ \A u \in DOMAIN transition : transition'[u] = transition[u]
    BY DEF Appends, Put
  <1>2. LedgerFinite'
    BY <1>1, FS_AddElement DEF LedgerFinite
  <1>3. ASSUME NEW i, NEW type
        PROVE  Cardinality(RowsOf(i, type)') =
                  Cardinality(RowsOf(i, type))
                     + (IF row.initiative = i /\ row.type = type THEN 1 ELSE 0)
    <2>1. t \notin RowsOf(i, type)
      BY <1>1 DEF RowsOf
    <2>2. CASE row.initiative = i /\ row.type = type
      <3>1. RowsOf(i, type)' = RowsOf(i, type) \cup {t}
        BY <1>1, <2>2 DEF RowsOf
      <3>2. QED
        BY <2>1, <2>2, <3>1, RowsFinite, FS_AddElement
    <2>3. CASE ~(row.initiative = i /\ row.type = type)
      <3>1. RowsOf(i, type)' = RowsOf(i, type)
        BY <1>1, <2>3 DEF RowsOf
      <3>2. QED
        BY <2>3, <3>1, RowsFinite
    <2>4. QED
      BY <2>2, <2>3
  <1>4. QED
    BY <1>2, <1>3

\* A decision changes no row's initiative or type.
LEMMA RowDecided ==
    ASSUME IInv, NEW t, NEW status, Decides(t, status)
    PROVE  /\ DOMAIN transition' = DOMAIN transition
           /\ \A i, type : RowsOf(i, type)' = RowsOf(i, type)
  <1>1. /\ t \in DOMAIN transition
        /\ transition[t] \in TransitionRow
        /\ DOMAIN transition' = DOMAIN transition
        /\ transition'[t] = [transition[t] EXCEPT !.status = status]
        /\ \A u \in DOMAIN transition : u # t => transition'[u] = transition[u]
    BY DEF Decides, IInv, TypeOK
  <1>2. /\ transition'[t].initiative = transition[t].initiative
        /\ transition'[t].type = transition[t].type
    BY <1>1 DEF TransitionRow
  <1>3. QED
    BY <1>1, <1>2 DEF RowsOf

LEMMA HoldsStayCounted ==
    ASSUME IInv, LedgerFinite, HoldsCounted, LedgerStep
    PROVE  LedgerFinite' /\ HoldsCounted'
  <1>1. \A i \in Initiatives : initiative[i].is_on_hold \in BOOLEAN
    BY DEF IInv, TypeOK, InitiativeRow
  <1>2. ASSUME HoldsKept, \A i, type : RowsOf(i, type)' = RowsOf(i, type)
        PROVE  HoldsCounted'
    BY <1>2 DEF HoldsCounted, HoldsKept
  <1>3. CASE transition' = transition /\ HoldsKept
    <2>1. \A i, type : RowsOf(i, type)' = RowsOf(i, type)
      BY <1>3 DEF RowsOf
    <2>2. QED
      BY <1>2, <1>3, <2>1 DEF LedgerFinite
  <1>4. ASSUME NEW t, NEW row, Appends(t, row), row.type \in {"ADVANCE", "NO_GO"}, HoldsKept
        PROVE  LedgerFinite' /\ HoldsCounted'
    <2>1. LedgerFinite'
      BY <1>4, RowAppended
    <2>2. \A i : \A type \in {"HOLD", "RESUME"} :
             Cardinality(RowsOf(i, type)') = Cardinality(RowsOf(i, type))
      <3>1. ASSUME NEW i, NEW type \in {"HOLD", "RESUME"}
            PROVE  Cardinality(RowsOf(i, type)') = Cardinality(RowsOf(i, type))
        <4>1. Cardinality(RowsOf(i, type)') =
                 Cardinality(RowsOf(i, type))
                    + (IF row.initiative = i /\ row.type = type THEN 1 ELSE 0)
          BY <1>4, RowAppended
        <4>2. row.type # type
          BY <1>4
        <4>3. Cardinality(RowsOf(i, type)) \in Nat
          BY RowsFinite
        <4>4. QED
          BY <4>1, <4>2, <4>3
      <3>2. QED
        BY <3>1
    <2>3. ASSUME NEW i \in Initiatives
          PROVE  /\ initiative'[i].is_on_hold = initiative[i].is_on_hold
                 /\ Cardinality(RowsOf(i, "HOLD")') = Cardinality(RowsOf(i, "HOLD"))
                 /\ Cardinality(RowsOf(i, "RESUME")') = Cardinality(RowsOf(i, "RESUME"))
      BY <1>4, <2>2 DEF HoldsKept
    <2>4. QED
      BY <2>1, <2>3 DEF HoldsCounted
  <1>5. ASSUME NEW t, NEW status, Decides(t, status), HoldsKept
        PROVE  LedgerFinite' /\ HoldsCounted'
    BY <1>2, <1>5, RowDecided DEF LedgerFinite
  <1>6. ASSUME NEW i \in Initiatives, NEW t, NEW row,
               HoldAppended(i, t, row) \/ ResumeAppended(i, t, row)
        PROVE  LedgerFinite' /\ HoldsCounted'
    <2>1. Appends(t, row) /\ row.initiative = i /\ HoldsOthersKept(i)
      BY <1>6 DEF HoldAppended, ResumeAppended
    <2>2. \A j, type : /\ Cardinality(RowsOf(j, type)) \in Nat
                       /\ Cardinality(RowsOf(j, type)') =
                             Cardinality(RowsOf(j, type))
                                + (IF row.initiative = j /\ row.type = type THEN 1 ELSE 0)
      BY <2>1, RowAppended, RowsFinite
    <2>3. ASSUME NEW j \in Initiatives
          PROVE  /\ initiative'[j].is_on_hold =>
                       Cardinality(RowsOf(j, "HOLD")') = Cardinality(RowsOf(j, "RESUME")') + 1
                 /\ ~initiative'[j].is_on_hold =>
                       Cardinality(RowsOf(j, "HOLD")') = Cardinality(RowsOf(j, "RESUME")')
      <3>1. /\ Cardinality(RowsOf(j, "HOLD")) \in Nat
            /\ Cardinality(RowsOf(j, "RESUME")) \in Nat
            /\ Cardinality(RowsOf(j, "HOLD")') =
                  Cardinality(RowsOf(j, "HOLD")) + (IF i = j /\ row.type = "HOLD" THEN 1 ELSE 0)
            /\ Cardinality(RowsOf(j, "RESUME")') =
                  Cardinality(RowsOf(j, "RESUME")) + (IF i = j /\ row.type = "RESUME" THEN 1 ELSE 0)
        BY <2>1, <2>2
      <3>2. CASE j # i
        BY <2>1, <3>1, <3>2 DEF HoldsCounted, HoldsOthersKept
      <3>3. CASE j = i /\ HoldAppended(i, t, row)
        <4>1. ~initiative[j].is_on_hold /\ initiative'[j].is_on_hold /\ row.type = "HOLD"
          BY <3>3 DEF HoldAppended
        <4>2. QED
          BY <3>1, <3>3, <4>1 DEF HoldsCounted
      <3>4. CASE j = i /\ ResumeAppended(i, t, row)
        <4>1. initiative[j].is_on_hold /\ ~initiative'[j].is_on_hold /\ row.type = "RESUME"
          BY <3>4 DEF ResumeAppended
        <4>2. QED
          BY <3>1, <3>4, <4>1 DEF HoldsCounted
      <3>5. QED
        BY <1>6, <3>2, <3>3, <3>4
    <2>4. HoldsCounted'
      BY <2>3 DEF HoldsCounted
    <2>5. QED
      BY <2>1, <2>4, RowAppended
  <1>7. QED
    BY <1>3, <1>4, <1>5, <1>6 DEF LedgerStep

LEMMA HoldsCountedInvariant == Spec => [](LedgerFinite /\ HoldsCounted)
  <1>1. Init => LedgerFinite /\ HoldsCounted
    <2>1. SUFFICES ASSUME Init PROVE LedgerFinite /\ HoldsCounted
      OBVIOUS
    <2>2. DOMAIN transition = {}
      BY <2>1 DEF Init
    <2>3. \A i, type : RowsOf(i, type) = {}
      BY <2>2 DEF RowsOf
    <2>4. \A i \in Initiatives : ~initiative[i].is_on_hold
      BY <2>1 DEF Init, NewRow
    <2>5. QED
      BY <2>2, <2>3, <2>4, FS_EmptySet DEF LedgerFinite, HoldsCounted
  <1>2. IInv /\ LedgerFinite /\ HoldsCounted /\ [Next]_vars => LedgerFinite' /\ HoldsCounted'
    BY EveryLedgerStep, HoldsStayCounted
  <1>3. QED
    BY <1>1, <1>2, Invariance, PTL DEF Spec

\* The ledger accounts for the hold: as many holds as resumes, and one more while held.
THEOREM LedgerCountsHolds == Spec => []LedgerExplainsHold
  <1>1. ASSUME IInv, LedgerFinite, HoldsCounted
        PROVE  LedgerExplainsHold
    <2>1. ASSUME NEW i \in Initiatives
          PROVE  Cardinality(RowsOf(i, "HOLD"))
                    = Cardinality(RowsOf(i, "RESUME")) + (IF initiative[i].is_on_hold THEN 1 ELSE 0)
      <3>1. Cardinality(RowsOf(i, "RESUME")) \in Nat
        BY <1>1, RowsFinite
      <3>2. QED
        BY <1>1, <3>1 DEF HoldsCounted
    <2>2. QED
      BY <2>1 DEF LedgerExplainsHold, RowsOf
  <1>2. IInv /\ LedgerFinite /\ HoldsCounted => LedgerExplainsHold
    BY <1>1
  <1>3. QED
    BY <1>2, Invariance, HoldsCountedInvariant, PTL

-----------------------------------------------------------------------------
(* Lifecycle implements StageLadder. *)

\* The effective advances are the same ones, to the same stages and by the same authority.
SameAdvances ==
    \A i \in Initiatives : \A t :
        /\ (t \in DOMAIN transition' /\ Effective(t, i)') <=> (t \in DOMAIN transition /\ Effective(t, i))
        /\ t \in DOMAIN transition /\ Effective(t, i) =>
              /\ transition'[t].to_stage = transition[t].to_stage
              /\ transition'[t].status = transition[t].status

\* One more of them, for the stage that the initiative enters.
Climbs(i, t, status) ==
    /\ ChangedOnlyAt(t)
    /\ t \in DOMAIN transition => \A j \in Initiatives : ~Effective(t, j)
    /\ Effective(t, i)'
    /\ transition'[t].to_stage = initiative[i].current_stage + 1
    /\ transition'[t].status = status
    /\ ~initiative[i].is_on_hold
    /\ initiative[i].current_stage < LastStage
    /\ status = "APPLIED" => initiative[i].current_stage + 1 < LastStage
    /\ initiative'[i].current_stage = initiative[i].current_stage + 1
    /\ \A j \in Initiatives : j # i => initiative'[j].current_stage = initiative[j].current_stage
    /\ HoldsKept

\* A hold begins or ends.
Switches(i) == HoldsOthersKept(i) /\ (initiative'[i].is_on_hold <=> ~initiative[i].is_on_hold)

LadderStep ==
    \/ SameStages /\ SameAdvances /\ (HoldsKept \/ \E i \in Initiatives : Switches(i))
    \/ \E i \in Initiatives, status \in {"APPLIED", "APPROVED"} : \E t : Climbs(i, t, status)

LEMMA UnchangedAdvances ==
    ASSUME transition' = transition
    PROVE  SameAdvances
  BY DEF SameAdvances, Effective

LEMMA AppendedNoAdvance ==
    ASSUME NEW t, NEW row, Appends(t, row), row.type # "ADVANCE" \/ row.status = "PENDING"
    PROVE  SameAdvances
  <1>1. /\ t \notin DOMAIN transition
        /\ DOMAIN transition' = DOMAIN transition \cup {t}
        /\ transition'[t] = row
        /\ \A u \in DOMAIN transition : transition'[u] = transition[u]
    BY DEF Appends, Put
  <1>2. \A i \in Initiatives : ~Effective(t, i)'
    BY <1>1 DEF Effective
  <1>3. QED
    BY <1>1, <1>2 DEF SameAdvances, Effective

LEMMA DecidedNoAdvance ==
    ASSUME IInv, NEW t, NEW status \in {"APPROVED", "REJECTED"}, Decides(t, status),
           transition[t].type # "ADVANCE" \/ status = "REJECTED"
    PROVE  SameAdvances
  <1>1. /\ t \in DOMAIN transition
        /\ transition[t] \in TransitionRow
        /\ transition[t].status = "PENDING"
        /\ DOMAIN transition' = DOMAIN transition
        /\ transition'[t] = [transition[t] EXCEPT !.status = status]
        /\ \A u \in DOMAIN transition : u # t => transition'[u] = transition[u]
    BY DEF Decides, IInv, TypeOK
  <1>2. \A i \in Initiatives : ~Effective(t, i)' /\ ~Effective(t, i)
    BY <1>1 DEF Effective, TransitionRow
  <1>3. QED
    BY <1>1, <1>2 DEF SameAdvances, Effective

LEMMA ProposalIsLadderStep ==
    ASSUME IInv, NEW r \in Assessments, NEW t \in Transitions, ProposeTransition(r, t)
    PROVE  LadderStep
  <1> DEFINE row(type, to) ==
          [initiative |-> loaded[r].initiative, type |-> type,
           from_stage |-> loaded[r].row.current_stage, to_stage |-> to, status |-> "PENDING",
           expected_version |-> loaded[r].row.version]
  <1>1. \/ Appends(t, row("ADVANCE", loaded[r].row.current_stage + 1))
        \/ Appends(t, row("NO_GO", NoStage))
    BY DEF ProposeTransition, InsertTransition, Appends
  <1>2. SameAdvances
    <2>1. \A type, to : row(type, to).status = "PENDING"
      OBVIOUS
    <2>2. ASSUME NEW type, NEW to, Appends(t, row(type, to))
          PROVE  SameAdvances
      BY <2>1, <2>2, AppendedNoAdvance
    <2>3. QED
      BY <1>1, <2>2
  <1>3. SameStages /\ HoldsKept
    <2>1. initiative' = [initiative EXCEPT ![loaded[r].initiative].persisted = TRUE]
      BY DEF ProposeTransition
    <2>2. QED
      BY <2>1, PersistedKeepsHolds
  <1>4. QED
    BY <1>2, <1>3 DEF LadderStep

LEMMA PolicyClimbs ==
    ASSUME IInv, NEW r \in Assessments, NEW t \in Transitions, AdvanceAutomatically(r, t)
    PROVE  LadderStep
  <1>0. PICK i \in Initiatives, row \in InitiativeRow :
           i = loaded[r].initiative /\ row = loaded[r].row
    BY ReadySnapshot DEF AdvanceAutomatically
  <1>1. /\ ReadyToProcess(r)
        /\ assessed[r].outcome = "ADVANCE"
        /\ ~row.is_on_hold
        /\ row.current_stage + 1 # LastStage
        /\ InsertTransition(t, i, row, "ADVANCE", row.current_stage + 1, "APPLIED")
        /\ SwapStage(i, row.version, row.current_stage + 1)
    BY <1>0 DEF AdvanceAutomatically, ReviewRequired
  <1>2. /\ row.version = initiative[i].version
        /\ row.current_stage = initiative[i].current_stage
        /\ ~initiative[i].is_on_hold
    BY <1>0, <1>1, ReadySnapshot DEF SwapStage, NotChangedSince
  <1>3. /\ row.current_stage + 1 \in Stages
        /\ row.current_stage < LastStage
        /\ row.current_stage + 1 < LastStage
    <2>1. row.current_stage # LastStage /\ row.current_stage \in Stages
      BY <1>0, <1>1, ReadySnapshot DEF PossibleOutcomes, InitiativeRow
    <2> QED
      BY <1>1, <2>1, StageAssumption DEF Stages
  <1>4. /\ initiative'[i].current_stage = initiative[i].current_stage + 1
        /\ \A j \in Initiatives : j # i => initiative'[j].current_stage = initiative[j].current_stage
    BY <1>1, <1>2, <1>3, StageSwapped
  <1>5. /\ t \notin DOMAIN transition
        /\ ChangedOnlyAt(t)
        /\ transition'[t] =
              [initiative |-> i, type |-> "ADVANCE", from_stage |-> row.current_stage,
               to_stage |-> row.current_stage + 1, status |-> "APPLIED",
               expected_version |-> row.version]
    <2>1. PICK to \in Stages \cup {NoStage} : to = row.current_stage + 1
      BY <1>3
    <2>2. InsertTransition(t, i, row, "ADVANCE", to, "APPLIED")
      BY <1>1, <2>1
    <2>3. TypeOK
      BY DEF IInv
    <2>4. /\ t \notin DOMAIN transition
          /\ ChangedOnlyAt(t)
          /\ transition'[t] =
                [initiative |-> i, type |-> "ADVANCE", from_stage |-> row.current_stage,
                 to_stage |-> to, status |-> "APPLIED", expected_version |-> row.version]
          /\ DOMAIN transition' \subseteq Transitions
          /\ \A u \in DOMAIN transition' : transition'[u] \in TransitionRow
      BY <2>2, <2>3, TransitionInserted
    <2>5. QED
      BY <2>1, <2>4
  <1>6. /\ Effective(t, i)'
        /\ transition'[t].to_stage = initiative[i].current_stage + 1
        /\ transition'[t].status = "APPLIED"
    BY <1>2, <1>5 DEF Effective
  <1>7. HoldsKept
    BY <1>1, StageKeepsHolds
  <1>8. Climbs(i, t, "APPLIED")
    BY <1>2, <1>3, <1>4, <1>5, <1>6, <1>7 DEF Climbs
  <1>9. QED
    BY <1>8 DEF LadderStep

LEMMA HumanDecides ==
    ASSUME IInv, NEW t \in Transitions, ApproveTransition(t) \/ RejectTransition(t)
    PROVE  LadderStep
  <1>1. CASE RejectTransition(t)
    <2>1. Decides(t, "REJECTED")
      BY <1>1 DEF RejectTransition, Decidable, Decides
    <2>2. SameStages /\ HoldsKept
      BY <1>1 DEF RejectTransition, SameStages, HoldsKept
    <2>3. QED
      BY <2>1, <2>2, DecidedNoAdvance DEF LadderStep
  <1>2. CASE ApproveTransition(t) /\ transition[t].type = "NO_GO"
    <2>1. Decides(t, "APPROVED")
      BY <1>2 DEF ApproveTransition, Decidable, Decides
    <2>2. SwapLifecycleState(transition[t].initiative, initiative[transition[t].initiative].version, "NoGo")
      BY <1>2 DEF ApproveTransition
    <2>3. SameStages /\ HoldsKept
      BY <2>2, StateKeepsHolds
    <2>4. SameAdvances
      BY <1>2, <2>1, DecidedNoAdvance
    <2>5. QED
      BY <2>3, <2>4 DEF LadderStep
  <1>3. CASE ApproveTransition(t) /\ transition[t].type = "ADVANCE"
    <2>0. PICK i \in Initiatives : i = transition[t].initiative
      BY <1>3, DecidableProposal DEF ApproveTransition
    <2>1. /\ Decidable(t)
          /\ ~initiative[i].is_on_hold
          /\ SwapStage(i, initiative[i].version, transition[t].to_stage)
          /\ transition' = [transition EXCEPT ![t].status = "APPROVED"]
      BY <1>3, <2>0 DEF ApproveTransition
    <2>2. /\ transition[t].to_stage = initiative[i].current_stage + 1
          /\ transition[t].to_stage \in Stages
          /\ transition[t] \in TransitionRow
          /\ \A j \in Initiatives : ~Effective(t, j)
          /\ initiative[i].current_stage \in Stages
      BY <1>3, <2>0, <2>1, DecidableProposal DEF IInv, TypeOK, InitiativeRow
    <2>3. initiative[i].current_stage < LastStage
      BY <2>2, StageAssumption DEF Stages
    <2>4. /\ ChangedOnlyAt(t)
          /\ transition'[t] = [transition[t] EXCEPT !.status = "APPROVED"]
      BY <2>1, TransitionDecided
    <2>5. /\ Effective(t, i)'
          /\ transition'[t].to_stage = initiative[i].current_stage + 1
          /\ transition'[t].status = "APPROVED"
      BY <1>3, <2>0, <2>2, <2>4 DEF Effective, TransitionRow
    <2>6. /\ initiative'[i].current_stage = initiative[i].current_stage + 1
          /\ \A j \in Initiatives : j # i => initiative'[j].current_stage = initiative[j].current_stage
      BY <2>1, <2>2, StageSwapped
    <2>7. HoldsKept
      BY <2>1, StageKeepsHolds
    <2>8. Climbs(i, t, "APPROVED")
      BY <2>1, <2>2, <2>3, <2>4, <2>5, <2>6, <2>7 DEF Climbs
    <2>9. QED
      BY <2>8 DEF LadderStep
  <1>4. QED
    BY <1>1, <1>2, <1>3 DEF ApproveTransition

\* A human command that holds or resumes is a step of the ladder.
LEMMA HumanSwitches ==
    ASSUME IInv, NEW i \in Initiatives, NEW t, Hold(i, t) \/ Resume(i, t)
    PROVE  LadderStep
  <1>1. initiative \in [Initiatives -> InitiativeRow] /\ initiative[i] \in InitiativeRow
    BY DEF IInv, TypeOK
  <1>2. SameStages
    <2>1. SUFFICES ASSUME NEW j \in Initiatives
                   PROVE  initiative'[j].current_stage = initiative[j].current_stage
      BY DEF SameStages
    <2>2. initiative[j] \in InitiativeRow
      BY DEF IInv, TypeOK
    <2>3. CASE j # i
      BY <1>1, <2>3 DEF Hold, Resume
    <2>4. CASE j = i
      BY <1>1, <2>4 DEF Hold, Resume, InitiativeRow
    <2>5. QED
      BY <2>3, <2>4
  <1>3. PICK row : HoldAppended(i, t, row) \/ ResumeAppended(i, t, row)
    BY HoldAppends, ResumeAppends
  <1>4. SameAdvances
    BY <1>3, AppendedNoAdvance DEF HoldAppended, ResumeAppended
  <1>5. Switches(i)
    BY <1>3 DEF HoldAppended, ResumeAppended, Switches
  <1>6. QED
    BY <1>2, <1>4, <1>5 DEF LadderStep

LEMMA EveryLadderStep ==
    ASSUME IInv, [Next]_vars
    PROVE  LadderStep
  <1>1. ASSUME NEW r \in Assessments, RecordNoTransition(r)
        PROVE  LadderStep
    <2>1. HoldsKept /\ SameStages
      BY <1>1, PersistedKeepsHolds, StateKeepsHolds DEF RecordNoTransition
    <2>2. transition' = transition
      BY <1>1 DEF RecordNoTransition
    <2>3. QED
      BY <2>1, <2>2, UnchangedAdvances DEF LadderStep
  <1>2. ASSUME NEW r \in Assessments, NEW t \in Transitions,
               ProposeTransition(r, t) \/ AdvanceAutomatically(r, t)
        PROVE  LadderStep
    BY <1>2, ProposalIsLadderStep, PolicyClimbs
  <1>3. ASSUME NEW i \in Initiatives, NEW t \in Transitions, Hold(i, t) \/ Resume(i, t)
        PROVE  LadderStep
    BY <1>3, HumanSwitches
  <1>4. ASSUME NEW t \in Transitions, ApproveTransition(t) \/ RejectTransition(t)
        PROVE  LadderStep
    BY <1>4, HumanDecides
  <1>5. ASSUME NEW i \in Initiatives, PromoteCandidate(i)
        PROVE  LadderStep
    <2>1. HoldsKept /\ SameStages
      <3>1. SUFFICES ASSUME NEW j \in Initiatives
                     PROVE  /\ initiative'[j].is_on_hold = initiative[j].is_on_hold
                            /\ initiative'[j].current_stage = initiative[j].current_stage
        BY DEF HoldsKept, SameStages
      <3>2. initiative \in [Initiatives -> InitiativeRow] /\ initiative[j] \in InitiativeRow
        BY DEF IInv, TypeOK
      <3>3. \/ initiative'[j] = initiative[j]
            \/ initiative'[j] = [initiative[j] EXCEPT !.persisted = TRUE,
                                                      !.lifecycle_state = "Discovered"]
        BY <1>5, <3>2 DEF PromoteCandidate
      <3>4. QED
        BY <3>2, <3>3 DEF InitiativeRow
    <2>2. transition' = transition
      BY <1>5 DEF PromoteCandidate
    <2>3. QED
      BY <2>1, <2>2, UnchangedAdvances DEF LadderStep
  <1>6. ASSUME NEW p \in Evaluations, CommitEvaluation(p)
        PROVE  LadderStep
    <2>1. HoldsKept /\ SameStages
      <3>1. SUFFICES ASSUME NEW j \in Initiatives
                     PROVE  /\ initiative'[j].is_on_hold = initiative[j].is_on_hold
                            /\ initiative'[j].current_stage = initiative[j].current_stage
        BY DEF HoldsKept, SameStages
      <3>2. initiative[j] \in InitiativeRow
        BY DEF IInv, TypeOK
      <3>3. \/ initiative'[j] = initiative[j]
            \/ initiative'[j] = [initiative[j] EXCEPT !.lifecycle_state = "Stalled",
                                                      !.version = evaluation[p][j] + 1]
        BY <1>6 DEF CommitEvaluation
      <3>4. QED
        BY <3>2, <3>3 DEF InitiativeRow
    <2>2. transition' = transition
      BY <1>6 DEF CommitEvaluation
    <2>3. QED
      BY <2>1, <2>2, UnchangedAdvances DEF LadderStep
  <1>7. ASSUME NEW b \in Reports, RecordDrift(b)
        PROVE  LadderStep
    BY <1>7, StateKeepsHolds, UnchangedAdvances DEF RecordDrift, LadderStep
  <1>8. CASE UNCHANGED <<transition, initiative>>
    BY <1>8, UnchangedAdvances DEF LadderStep, HoldsKept, SameStages
  <1>9. QED
    BY <1>1, <1>2, <1>3, <1>4, <1>5, <1>6, <1>7, <1>8, WritesOrNot DEF Writes, rows, SlaElapses

\* The authority read off the ledger stays, or one stage gets its own.
LEMMA AuthorityKept ==
    ASSUME SameAdvances, NEW i \in Initiatives, NEW s
    PROVE  EnteredBy(i, s)' = EnteredBy(i, s)
  <1>1. (\E t \in DOMAIN transition' : Effective(t, i)' /\ transition'[t].to_stage = s)
           <=> (\E t \in DOMAIN transition : Effective(t, i) /\ transition[t].to_stage = s)
    BY DEF SameAdvances
  <1>2. (\E t \in DOMAIN transition' :
            Effective(t, i)' /\ transition'[t].to_stage = s /\ transition'[t].status = "APPROVED")
           <=> (\E t \in DOMAIN transition :
                   Effective(t, i) /\ transition[t].to_stage = s /\ transition[t].status = "APPROVED")
    BY DEF SameAdvances
  <1>3. QED
    BY <1>1, <1>2 DEF EnteredBy

LEMMA AuthorityGiven ==
    ASSUME IInv, NEW i \in Initiatives, NEW status \in {"APPLIED", "APPROVED"}, NEW t,
           Climbs(i, t, status), NEW j \in Initiatives, NEW s
    PROVE  EnteredBy(j, s)' =
              IF j = i /\ s = initiative[i].current_stage + 1
              THEN IF status = "APPROVED" THEN "human" ELSE "policy"
              ELSE EnteredBy(j, s)
  <1>1. \A u : (u \in DOMAIN transition' /\ Effective(u, j)')
                  <=> \/ u \in DOMAIN transition /\ Effective(u, j)
                      \/ u = t /\ j = i
    BY DEF Climbs, ChangedOnlyAt, Effective
  <1>2. \A u \in DOMAIN transition : Effective(u, j) => u # t /\ transition'[u] = transition[u]
    BY DEF Climbs, ChangedOnlyAt
  <1>3. CASE j = i /\ s = initiative[i].current_stage + 1
    <2>1. ASSUME NEW u \in DOMAIN transition, Effective(u, i)
          PROVE  transition[u].to_stage # s
      <3>1. initiative[i].current_stage \in Stages /\ transition[u].from_stage \in Stages
        BY DEF IInv, TypeOK, InitiativeRow, TransitionRow
      <3>2. transition[u].from_stage < initiative[i].current_stage
        BY <2>1, <3>1 DEF IInv, LedgerExplainsStage
      <3>3. transition[u].to_stage = transition[u].from_stage + 1
        BY <2>1 DEF IInv, TransitionsValid, TransitionValid, Effective
      <3>4. QED
        BY <1>3, <3>1, <3>2, <3>3 DEF Stages
    <2>2. t \in DOMAIN transition' /\ Effective(t, i)' /\ transition'[t].to_stage = s
          /\ transition'[t].status = status
      BY <1>1, <1>3 DEF Climbs
    <2>3. \A u \in DOMAIN transition' : Effective(u, i)' /\ transition'[u].to_stage = s => u = t
      BY <1>1, <1>2, <1>3, <2>1
    <2>4. CASE status = "APPROVED"
      BY <1>3, <2>2, <2>4 DEF EnteredBy
    <2>5. CASE status = "APPLIED"
      BY <1>3, <2>2, <2>3, <2>5 DEF EnteredBy
    <2>6. QED
      BY <2>4, <2>5
  <1>4. CASE ~(j = i /\ s = initiative[i].current_stage + 1)
    <2>1. \A u : (u \in DOMAIN transition' /\ Effective(u, j)' /\ transition'[u].to_stage = s)
                    <=> (u \in DOMAIN transition /\ Effective(u, j) /\ transition[u].to_stage = s)
      BY <1>1, <1>2, <1>4 DEF Climbs
    <2>2. \A u : (u \in DOMAIN transition' /\ Effective(u, j)' /\ transition'[u].to_stage = s
                     /\ transition'[u].status = "APPROVED")
                    <=> (u \in DOMAIN transition /\ Effective(u, j) /\ transition[u].to_stage = s
                            /\ transition[u].status = "APPROVED")
      BY <1>2, <2>1, <1>1, <1>4 DEF Climbs
    <2>3. EnteredBy(j, s)' = EnteredBy(j, s)
      BY <2>1, <2>2 DEF EnteredBy
    <2>4. QED
      BY <1>4, <2>3
  <1>5. QED
    BY <1>3, <1>4

LEMMA InitOnLadder == Init => Ladder!LadderInit
  <1>1. SUFFICES ASSUME Init PROVE Ladder!LadderInit
    OBVIOUS
  <1>2. \A i \in Initiatives : initiative[i].current_stage = 1 /\ initiative[i].is_on_hold = FALSE
    BY <1>1 DEF Init, NewRow
  <1>3. \A i \in Initiatives, s \in 2..LastStage : EnteredBy(i, s) = "none"
    BY <1>1 DEF Init, EnteredBy
  <1>4. QED
    BY <1>2, <1>3 DEF Ladder!LadderInit

LEMMA ClimbRefines ==
    ASSUME IInv, NEW i \in Initiatives, NEW status \in {"APPLIED", "APPROVED"}, NEW t,
           Climbs(i, t, status)
    PROVE  Ladder!LadderNext
  <1>0. PICK who : who = IF status = "APPROVED" THEN "human" ELSE "policy"
    OBVIOUS
  <1>1. initiative[i].current_stage \in Stages
    BY DEF IInv, TypeOK, InitiativeRow
  <1>2. [j \in Initiatives |-> initiative[j].current_stage]'
           = [[j \in Initiatives |-> initiative[j].current_stage] EXCEPT
                 ![i] = initiative[i].current_stage + 1]
    BY DEF Climbs
  <1>3. [j \in Initiatives |-> initiative[j].is_on_hold]' = [j \in Initiatives |-> initiative[j].is_on_hold]
    BY DEF Climbs, HoldsKept
  <1>4. initiative[i].current_stage + 1 \in 2..LastStage
    BY <1>1, StageAssumption DEF Climbs, Stages
  <1>5. [j \in Initiatives |-> [s \in 2..LastStage |-> EnteredBy(j, s)]]'
           = [[j \in Initiatives |-> [s \in 2..LastStage |-> EnteredBy(j, s)]] EXCEPT
                 ![i][initiative[i].current_stage + 1] = who]
    <2>1. \A j \in Initiatives, s \in 2..LastStage :
             EnteredBy(j, s)' = IF j = i /\ s = initiative[i].current_stage + 1 THEN who
                                ELSE EnteredBy(j, s)
      BY <1>0, AuthorityGiven
    <2>2. QED
      BY <1>4, <2>1
  <1>6. Ladder!Climb(i, who)
    BY <1>2, <1>3, <1>5 DEF Ladder!Climb, Climbs
  <1>7. CASE status = "APPROVED"
    BY <1>0, <1>6, <1>7 DEF Ladder!LadderNext, Ladder!ClimbByHuman
  <1>8. CASE status = "APPLIED"
    <2>1. initiative[i].current_stage + 1 < LastStage
      BY <1>8 DEF Climbs
    <2>2. Ladder!ClimbByPolicy(i)
      BY <1>0, <1>6, <1>8, <2>1 DEF Ladder!ClimbByPolicy
    <2>3. QED
      BY <2>2 DEF Ladder!LadderNext
  <1>9. QED
    BY <1>7, <1>8

LEMMA LadderStepRefines ==
    ASSUME IInv, IInv', LadderStep
    PROVE  Ladder!LadderNext \/ UNCHANGED Ladder!ladderVars
  <1>1. CASE SameStages /\ SameAdvances
    <2>1. [j \in Initiatives |-> initiative[j].current_stage]'
             = [j \in Initiatives |-> initiative[j].current_stage]
      BY <1>1 DEF SameStages
    <2>2. [j \in Initiatives |-> [s \in 2..LastStage |-> EnteredBy(j, s)]]'
             = [j \in Initiatives |-> [s \in 2..LastStage |-> EnteredBy(j, s)]]
      BY <1>1, AuthorityKept
    <2>3. CASE HoldsKept
      <3>1. [j \in Initiatives |-> initiative[j].is_on_hold]'
               = [j \in Initiatives |-> initiative[j].is_on_hold]
        BY <2>3 DEF HoldsKept
      <3>2. QED
        BY <2>1, <2>2, <3>1 DEF Ladder!ladderVars
    <2>4. ASSUME NEW i \in Initiatives, Switches(i)
          PROVE  Ladder!LadderNext
      <3>1. initiative[i].is_on_hold \in BOOLEAN /\ initiative'[i].is_on_hold \in BOOLEAN
        BY DEF IInv, TypeOK, InitiativeRow
      <3>2. initiative'[i].is_on_hold = ~initiative[i].is_on_hold
        BY <2>4, <3>1 DEF Switches
      <3>3. [j \in Initiatives |-> initiative[j].is_on_hold]'
               = [[j \in Initiatives |-> initiative[j].is_on_hold] EXCEPT ![i] = ~@]
        BY <2>4, <3>2 DEF Switches, HoldsOthersKept
      <3>4. Ladder!SetHold(i)
        BY <2>1, <2>2, <3>3 DEF Ladder!SetHold
      <3>5. QED
        BY <3>4 DEF Ladder!LadderNext
    <2>5. CASE LadderStep /\ ~HoldsKept /\ ~(\E i \in Initiatives : Switches(i))
      BY <2>5, ClimbRefines DEF LadderStep
    <2>6. QED
      BY <2>3, <2>4, <2>5
  <1>2. CASE ~(SameStages /\ SameAdvances)
    BY <1>2, ClimbRefines DEF LadderStep
  <1>3. QED
    BY <1>1, <1>2

\* Stage, hold and ledger implement the governed ladder: one stage at a time, never while
\* held, to the last stage by a person, and the authority of each stage is remembered.
THEOREM LadderImplemented == Spec => ImplementsLadder
  <1>1. Init => Ladder!LadderInit
    BY InitOnLadder
  <1>2. IInv /\ IInv' /\ [Next]_vars => [Ladder!LadderNext]_Ladder!ladderVars
    BY EveryLadderStep, LadderStepRefines
  <1>3. QED
    BY <1>1, <1>2, Invariance, PTL DEF Spec, ImplementsLadder, Ladder!LadderSpec

=============================================================================
