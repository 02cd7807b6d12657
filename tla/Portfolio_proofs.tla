--------------------------- MODULE Portfolio_proofs ---------------------------
(***************************************************************************)
(* For any number of initiatives, sessions, requests and stored reports:   *)
(* what an insight report may say that was read in three statements while  *)
(* the lifecycle went on (module Portfolio).                               *)
(*                                                                         *)
(* The invariant is IInv of Lifecycle_proofs, with what a request has read *)
(* so far: each part of it was so at a moment of the request, and the      *)
(* assessments were read late enough to explain the stages.  That a stage  *)
(* is explained by an assessment follows from the ledger: a stage is left  *)
(* by an advance, and an advance was proposed by an assessment.            *)
(***************************************************************************)
EXTENDS Portfolio, Lifecycle_proofs

-----------------------------------------------------------------------------
(* The inductive invariant. *)

\* Every transition that an assessment may lead to belongs to an assessed initiative.
ProposalsAssessed ==
    \A t \in DOMAIN transition :
        transition[t].type \in {"ADVANCE", "NO_GO"} => latest[transition[t].initiative].number > 0

\* These assessments explain the stages of these rows.
Covers(rowsRead, assessments) ==
    /\ DOMAIN rowsRead \subseteq Initiatives
    /\ \A i \in DOMAIN rowsRead : rowsRead[i].stage > 1 => assessments[i].number > 0

\* Each part of a snapshot was so at one of these moments.
MadeOf(snapshot, moments) ==
    /\ \E moment \in moments : moment.rows = snapshot.rows
    /\ \E moment \in moments : moment.latest = snapshot.latest
    /\ \E moment \in moments : moment.pending = snapshot.pending

\* What the request has read so far, s being its progress and stored the latest assessments.
RequestOK(s, moments, stored) ==
    /\ s.pc \in {"assessments", "pending", "lookup", "writing"}
    /\ s.pc = "assessments" =>
          /\ Covers(s.rows, stored)
          /\ \E moment \in moments : moment.rows = s.rows
    /\ s.pc = "pending" =>
          /\ Covers(s.rows, s.latest)
          /\ \E moment \in moments : moment.rows = s.rows
          /\ \E moment \in moments : moment.latest = s.latest
    /\ s.pc \in {"lookup", "writing"} =>
          /\ s = [pc |-> s.pc, snapshot |-> s.snapshot]
          /\ Covers(s.snapshot.rows, s.snapshot.latest)
          /\ MadeOf(s.snapshot, moments)

\* The history knows the requests that are being handled, and goes up to the present.
Watched ==
    \A g \in DOMAIN insight :
        /\ g \in DOMAIN during <=> insight[g].pc # "over"
        /\ g \in DOMAIN during => Current \in during[g] /\ RequestOK(insight[g], during[g], latest)

PInv ==
    /\ IInv
    /\ PortfolioTypeOK
    /\ DOMAIN latest = Initiatives
    /\ ProposalsAssessed
    /\ Watched
    /\ StagesAreAssessed

-----------------------------------------------------------------------------
(* Assessments explain stages. *)

\* The stage above the first was reached by an advance, which an assessment proposed.
LEMMA MovedIsAssessed ==
    ASSUME IInv, ProposalsAssessed, NEW i \in Initiatives, initiative[i].current_stage > 1
    PROVE  latest[i].number > 0
  <1>1. 1 \in Stages
    BY StageAssumption DEF Stages
  <1>2. PICK t \in DOMAIN transition : Effective(t, i)
    BY <1>1 DEF IInv, LedgerExplainsStage
  <1>3. QED
    BY <1>2 DEF Effective, ProposalsAssessed

LEMMA CurrentIsCovered ==
    ASSUME PInv
    PROVE  Covers(DescribedRows, latest)
  <1>1. DOMAIN DescribedRows = Persisted /\ Persisted \subseteq Initiatives
    BY DEF DescribedRows, Persisted
  <1>2. ASSUME NEW i \in Persisted, DescribedRows[i].stage > 1
        PROVE  latest[i].number > 0
    <2>1. DescribedRows[i].stage = initiative[i].current_stage
      BY DEF DescribedRows, Described
    <2>2. QED
      BY <1>1, <1>2, <2>1, MovedIsAssessed DEF PInv
  <1>3. QED
    BY <1>1, <1>2 DEF Covers

LEMMA CurrentKept ==
    ASSUME UNCHANGED <<vars, latest>>
    PROVE  Current' = Current
  <1>1. initiative' = initiative /\ transition' = transition /\ latest' = latest
    BY DEF vars
  <1>2. DescribedRows' = DescribedRows
    BY <1>1 DEF DescribedRows, Described, Persisted
  <1>3. PendingCounts' = PendingCounts
    BY <1>1 DEF PendingCounts
  <1>4. QED
    BY <1>1, <1>2, <1>3 DEF Current

-----------------------------------------------------------------------------
(* Every step is one of the lifecycle, or leaves it alone. *)

LEMMA LifecycleStepIsNext ==
    ASSUME LifecycleStep
    PROVE  Next
  BY DEF LifecycleStep, OtherLifecycleStep, StoreAssessment, CommitsAssessment, Next, AssessmentStep

LEMMA InsightStepKeeps ==
    ASSUME NEW g, InsightStep(g)
    PROVE  UNCHANGED <<vars, latest>>
  BY DEF InsightStep, ReadInitiatives, ReadAssessments, ReadPending, ReuseReport, AskAgent,
     InsertReport, FailInsight, Continues, Ends

LEMMA PortfolioStepIsLifecycleStep ==
    ASSUME [PortfolioNext]_portfolioVars
    PROVE  [Next]_vars
  BY LifecycleStepIsNext, InsightStepKeeps DEF PortfolioNext, portfolioVars

-----------------------------------------------------------------------------
(* Steps of the lifecycle. *)

\* The number of assessments grows, by one with each that is stored.
LEMMA NumbersGrow ==
    ASSUME PInv, LifecycleStep
    PROVE  /\ DOMAIN latest' = Initiatives
           /\ \A i \in Initiatives : /\ latest'[i].number \in 0..MaxAssessed
                                     /\ latest[i].number > 0 => latest'[i].number > 0
           /\ \A r \in Assessments : StoreAssessment(r) => latest'[loaded[r].initiative].number > 0
  <1>1. /\ DOMAIN latest = Initiatives
        /\ \A i \in Initiatives : latest[i].number \in 0..MaxAssessed
    BY DEF PInv, PortfolioTypeOK
  <1>2. CASE latest' = latest /\ ~ \E r \in Assessments : StoreAssessment(r)
    BY <1>1, <1>2
  <1>3. ASSUME NEW r \in Assessments, StoreAssessment(r)
        PROVE  /\ DOMAIN latest' = Initiatives
               /\ \A i \in Initiatives : /\ latest'[i].number \in 0..MaxAssessed
                                         /\ latest[i].number > 0 => latest'[i].number > 0
               /\ latest'[loaded[r].initiative].number > 0
    <2>1. PICK i, old, new :
             /\ i = loaded[r].initiative /\ old = latest[i].number
             /\ new = [number |-> old + 1, outcome |-> assessed[r].outcome]
      OBVIOUS
    <2>2. latest' = [latest EXCEPT ![i] = new] /\ old < MaxAssessed
      BY <1>3, <2>1 DEF StoreAssessment
    <2>3. i \in Initiatives
      <3>1. r \in DOMAIN loaded
        BY <1>3 DEF StoreAssessment, CommitsAssessment, RecordNoTransition, ProposeTransition,
           AdvanceAutomatically, ReadyToProcess
      <3>2. QED
        BY <2>1, <3>1 DEF PInv, IInv, TypeOK, Snapshot
    <2>4. new.number = old + 1
      BY <2>1
    <2>5. new.number \in 0..MaxAssessed /\ new.number > 0
      BY <1>1, <2>1, <2>2, <2>3, <2>4, AssessedAssumption
    <2>6. QED
      BY <1>1, <2>1, <2>2, <2>3, <2>5
  <1>4. QED
    BY <1>2, <1>3 DEF LifecycleStep, OtherLifecycleStep

\* A transition that a step adds is that of a stored assessment, or a hold or its end.
LEMMA ProposalsStayAssessed ==
    ASSUME PInv, LifecycleStep
    PROVE  ProposalsAssessed'
  <1>1. \A t \in DOMAIN transition : transition[t].initiative \in Initiatives
    BY DEF PInv, IInv, TypeOK, TransitionRow
  <1>2. ASSUME NEW t \in DOMAIN transition, transition[t].type \in {"ADVANCE", "NO_GO"}
        PROVE  latest'[transition[t].initiative].number > 0
    BY <1>1, <1>2, NumbersGrow DEF PInv, ProposalsAssessed
  <1>3. CASE transition' = transition
    BY <1>2, <1>3 DEF ProposalsAssessed
  <1>4. ASSUME NEW t, NEW status, transition' = [transition EXCEPT ![t].status = status]
        PROVE  ProposalsAssessed'
    <2>1. ASSUME NEW u \in DOMAIN transition
          PROVE  /\ transition'[u].type = transition[u].type
                 /\ transition'[u].initiative = transition[u].initiative
      <3>1. transition[u] \in TransitionRow
        BY DEF PInv, IInv, TypeOK
      <3>2. transition'[u] = transition[u] \/ transition'[u] = [transition[u] EXCEPT !.status = status]
        BY <1>4
      <3>3. QED
        BY <3>1, <3>2 DEF TransitionRow
    <2>2. DOMAIN transition' = DOMAIN transition
      BY <1>4
    <2>3. QED
      BY <1>2, <2>1, <2>2 DEF ProposalsAssessed
  <1>5. ASSUME NEW t, NEW i, NEW old, NEW type, NEW to, NEW status,
               InsertTransition(t, i, old, type, to, status),
               type \in {"ADVANCE", "NO_GO"} => latest'[i].number > 0
        PROVE  ProposalsAssessed'
    <2>1. PICK row : /\ row.initiative = i /\ row.type = type
                     /\ transition' = Put(transition, t, row)
      <3>1. PICK row : row = [initiative |-> i, type |-> type, from_stage |-> old.current_stage,
                              to_stage |-> to, status |-> status, expected_version |-> old.version]
        OBVIOUS
      <3>2. row.initiative = i /\ row.type = type
        BY <3>1
      <3>3. QED
        BY <1>5, <3>1, <3>2 DEF InsertTransition
    <2>2. /\ DOMAIN transition' = DOMAIN transition \cup {t}
          /\ transition'[t] = row
          /\ \A u \in DOMAIN transition : u # t => transition'[u] = transition[u]
      BY <2>1 DEF Put
    <2>3. QED
      BY <1>2, <1>5, <2>1, <2>2 DEF ProposalsAssessed
  <1>6. ASSUME NEW r \in Assessments, StoreAssessment(r)
        PROVE  ProposalsAssessed'
    <2>1. latest'[loaded[r].initiative].number > 0
      BY <1>6, NumbersGrow
    <2>2. CASE RecordNoTransition(r)
      BY <1>3, <2>2 DEF RecordNoTransition
    <2>3. ASSUME NEW t \in Transitions, ProposeTransition(r, t) \/ AdvanceAutomatically(r, t)
          PROVE  ProposalsAssessed'
      BY <1>5, <2>1, <2>3 DEF ProposeTransition, AdvanceAutomatically
    <2>4. QED
      BY <1>6, <2>2, <2>3 DEF StoreAssessment, CommitsAssessment
  <1>7. CASE HumanStep
    <2>1. ASSUME NEW i \in Initiatives, NEW t \in Transitions, Hold(i, t) \/ Resume(i, t)
          PROVE  ProposalsAssessed'
      BY <1>5, <2>1 DEF Hold, Resume, RecordHumanTransition
    <2>2. ASSUME NEW t \in Transitions, ApproveTransition(t) \/ RejectTransition(t)
          PROVE  ProposalsAssessed'
      BY <1>4, <2>2 DEF ApproveTransition, RejectTransition
    <2>3. QED
      BY <1>7, <2>1, <2>2 DEF HumanStep
  <1>8. CASE OtherLifecycleStep /\ ~HumanStep
    <2>1. transition' = transition
      BY <1>8 DEF OtherLifecycleStep, Assess, LoadInitiative, AbandonAssessment, PromoteCandidate,
         SlaElapses, PacerStep, StartEvaluation, CommitEvaluation, AbandonEvaluation, SentinelStep,
         ReadForBreach, RecordDrift, AbandonReport, rows
    <2>2. QED
      BY <1>3, <2>1
  <1>9. QED
    BY <1>6, <1>7, <1>8 DEF LifecycleStep

\* What a request has read stays covered, and was so at a moment of a longer history.
LEMMA RequestKept ==
    ASSUME NEW s, NEW moments, NEW more, NEW stored, NEW later,
           RequestOK(s, moments, stored), moments \subseteq more,
           \A i \in Initiatives : stored[i].number > 0 => later[i].number > 0
    PROVE  RequestOK(s, more, later)
  <1>1. s.pc = "assessments" => Covers(s.rows, later)
    BY DEF RequestOK, Covers
  <1>2. s.pc \in {"lookup", "writing"} => MadeOf(s.snapshot, more)
    BY DEF RequestOK, MadeOf
  <1>3. QED
    BY <1>1, <1>2 DEF RequestOK, Covers, MadeOf

LEMMA LifecyclePreservesPInv ==
    ASSUME PInv, LifecycleStep
    PROVE  PInv'
  <1>1. IInv'
    BY LifecycleStepIsNext, NextPreserves DEF PInv
  <1>2. /\ insight' = insight /\ reports' = reports
        /\ DOMAIN during' = DOMAIN during
        /\ \A g \in DOMAIN during : during'[g] = during[g] \cup {Current'}
    BY DEF LifecycleStep
  <1>3. PortfolioTypeOK' /\ DOMAIN latest' = Initiatives
    BY <1>2, NumbersGrow DEF PInv, PortfolioTypeOK
  <1>4. Watched'
    <2>1. ASSUME NEW g \in DOMAIN insight, g \in DOMAIN during
          PROVE  Current' \in during'[g] /\ RequestOK(insight'[g], during'[g], latest')
      <3>1. PICK moments, more, stored, later :
               /\ moments = during[g] /\ more = during'[g]
               /\ stored = latest /\ later = latest'
        OBVIOUS
      <3>2. RequestOK(insight[g], moments, stored) /\ moments \subseteq more /\ Current' \in more
        BY <1>2, <2>1, <3>1 DEF PInv, Watched
      <3>3. \A i \in Initiatives : stored[i].number > 0 => later[i].number > 0
        BY <3>1, NumbersGrow
      <3>4. RequestOK(insight[g], more, later)
        BY <3>2, <3>3, RequestKept
      <3>5. QED
        BY <1>2, <3>1, <3>2, <3>4
    <2>2. QED
      BY <1>2, <2>1 DEF PInv, Watched
  <1>5. QED
    BY <1>1, <1>2, <1>3, <1>4, ProposalsStayAssessed DEF PInv, StagesAreAssessed

-----------------------------------------------------------------------------
(* Steps of a request. *)

\* A request goes on or ends; nothing but its own progress and history changes.
LEMMA RequestMoved ==
    ASSUME PInv, NEW g \in Insights, NEW s, insight' = Put(insight, g, s),
           UNCHANGED <<vars, latest>>, StagesAreAssessed',
           DOMAIN during' \subseteq DOMAIN during \cup {g},
           \A h \in DOMAIN during : h # g => h \in DOMAIN during' /\ during'[h] = during[h],
           g \in DOMAIN during' <=> s.pc # "over",
           g \in DOMAIN during' => Current \in during'[g] /\ RequestOK(s, during'[g], latest)
    PROVE  PInv'
  <1>1. IInv'
    BY NextPreserves DEF PInv
  <1>2. transition' = transition /\ latest' = latest
    BY DEF vars
  <1>3. ProposalsAssessed'
    BY <1>2 DEF PInv, ProposalsAssessed
  <1>4. /\ DOMAIN insight' = DOMAIN insight \cup {g}
        /\ insight'[g] = s
        /\ \A h \in DOMAIN insight : h # g => insight'[h] = insight[h]
    BY DEF Put
  <1>5. DOMAIN during \subseteq DOMAIN insight
    BY DEF PInv, PortfolioTypeOK
  <1>6. PortfolioTypeOK' /\ DOMAIN latest' = Initiatives
    BY <1>2, <1>4, <1>5 DEF PInv, PortfolioTypeOK
  <1>7. Watched'
    <2>1. Current' = Current
      BY CurrentKept
    <2>2. ASSUME NEW h \in DOMAIN insight'
          PROVE  /\ h \in DOMAIN during' <=> insight'[h].pc # "over"
                 /\ h \in DOMAIN during' =>
                       Current \in during'[h] /\ RequestOK(insight'[h], during'[h], latest)
      <3>1. CASE h = g
        BY <1>4, <3>1
      <3>2. CASE h # g
        <4>1. h \in DOMAIN insight /\ insight'[h] = insight[h]
          BY <1>4, <3>2
        <4>2. h \in DOMAIN during' <=> h \in DOMAIN during
          BY <3>2
        <4>3. h \in DOMAIN during => during'[h] = during[h]
          BY <3>2
        <4>4. QED
          BY <4>1, <4>2, <4>3 DEF PInv, Watched
      <3>3. QED
        BY <3>1, <3>2
    <2>3. QED
      BY <1>2, <2>1, <2>2 DEF Watched
  <1>8. QED
    BY <1>1, <1>3, <1>6, <1>7 DEF PInv

\* A request that has read on is still being handled.
LEMMA ContinuesPreserves ==
    ASSUME PInv, NEW g \in Insights, g \in DOMAIN insight, insight[g].pc # "over", NEW s,
           Continues(g, s), RequestOK(s, during[g], latest)
    PROVE  PInv'
  <1>1. /\ insight' = Put(insight, g, s) /\ UNCHANGED <<vars, latest>>
        /\ reports' = reports /\ during' = during
    BY DEF Continues
  <1>2. g \in DOMAIN during /\ Current \in during[g]
    BY DEF PInv, Watched
  <1>3. s.pc # "over"
    BY DEF RequestOK
  <1>4. StagesAreAssessed'
    BY <1>1 DEF PInv, StagesAreAssessed
  <1>5. QED
    BY <1>1, <1>2, <1>3, <1>4, RequestMoved

LEMMA EndsPreserves ==
    ASSUME PInv, NEW g \in Insights, g \in DOMAIN insight, NEW answer, Ends(g, answer),
           StagesAreAssessed'
    PROVE  PInv'
  <1>1. PICK s : s = [Over EXCEPT !.answer = answer]
    OBVIOUS
  <1>2. s.pc = "over"
    BY <1>1 DEF Over
  <1>3. /\ insight' = Put(insight, g, s) /\ UNCHANGED <<vars, latest>>
        /\ DOMAIN during' = DOMAIN during \ {g}
        /\ \A h \in DOMAIN during' : during'[h] = during[h]
    BY <1>1 DEF Ends, Forget
  <1>4. QED
    BY <1>2, <1>3, RequestMoved

\* What is read now is so now.
LEMMA CurrentParts ==
    /\ Current.rows = DescribedRows
    /\ Current.latest = latest
    /\ Current.pending = PendingCounts
  BY DEF Current

LEMMA ReadInitiativesPreserves ==
    ASSUME PInv, NEW g \in Insights, ReadInitiatives(g)
    PROVE  PInv'
  <1>1. PICK s : s = [pc |-> "assessments", rows |-> DescribedRows]
    OBVIOUS
  <1>2. s.pc = "assessments" /\ s.rows = DescribedRows
    BY <1>1
  <1>3. /\ insight' = Put(insight, g, s) /\ UNCHANGED <<vars, latest>> /\ reports' = reports
        /\ DOMAIN during' = DOMAIN during \cup {g}
        /\ during'[g] = {Current}
        /\ \A h \in DOMAIN during : h # g => during'[h] = during[h]
    BY <1>1 DEF ReadInitiatives, Put
  <1>4. RequestOK(s, {Current}, latest)
    BY <1>2, CurrentIsCovered, CurrentParts DEF RequestOK
  <1>5. StagesAreAssessed'
    BY <1>3 DEF PInv, StagesAreAssessed
  <1>6. QED
    BY <1>2, <1>3, <1>4, <1>5, RequestMoved

\* What a waiting request has read, and its history.
LEMMA WaitingRequest ==
    ASSUME PInv, NEW g, NEW pc, Waits(g, pc), pc # "over"
    PROVE  /\ g \in DOMAIN insight /\ insight[g].pc = pc
           /\ g \in DOMAIN during /\ Current \in during[g]
           /\ RequestOK(insight[g], during[g], latest)
  BY DEF Waits, PInv, Watched

\* The assessments are read after the rows: they cover the stages of the rows.
LEMMA ReadAssessmentsPreserves ==
    ASSUME PInv, NEW g \in Insights, ReadAssessments(g)
    PROVE  PInv'
  <1>1. PICK old : old = insight[g]
    OBVIOUS
  <1>2. /\ g \in DOMAIN insight /\ old.pc = "assessments"
        /\ Current \in during[g] /\ RequestOK(old, during[g], latest)
    BY <1>1, WaitingRequest DEF ReadAssessments
  <1>3. PICK s : s = [pc |-> "pending", rows |-> old.rows, latest |-> latest]
    OBVIOUS
  <1>4. s.pc = "pending" /\ s.rows = old.rows /\ s.latest = latest
    BY <1>3
  <1>5. RequestOK(s, during[g], latest)
    BY <1>2, <1>4, CurrentParts DEF RequestOK
  <1>6. Continues(g, s)
    BY <1>1, <1>3 DEF ReadAssessments
  <1>7. QED
    BY <1>1, <1>2, <1>5, <1>6, ContinuesPreserves

LEMMA ReadPendingPreserves ==
    ASSUME PInv, NEW g \in Insights, ReadPending(g)
    PROVE  PInv'
  <1>1. PICK old : old = insight[g]
    OBVIOUS
  <1>2. /\ g \in DOMAIN insight /\ old.pc = "pending"
        /\ Current \in during[g] /\ RequestOK(old, during[g], latest)
    BY <1>1, WaitingRequest DEF ReadPending
  <1>3. PICK snapshot :
           snapshot = [rows |-> old.rows, latest |-> old.latest, pending |-> PendingCounts]
    OBVIOUS
  <1>4. /\ snapshot.rows = old.rows /\ snapshot.latest = old.latest
        /\ snapshot.pending = PendingCounts
    BY <1>3
  <1>5. PICK s : s = [pc |-> "lookup", snapshot |-> snapshot]
    OBVIOUS
  <1>6. s.pc = "lookup" /\ s.snapshot = snapshot /\ s = [pc |-> s.pc, snapshot |-> s.snapshot]
    BY <1>5
  <1>7. Covers(snapshot.rows, snapshot.latest) /\ MadeOf(snapshot, during[g])
    BY <1>2, <1>4, CurrentParts DEF RequestOK, MadeOf
  <1>8. RequestOK(s, during[g], latest)
    BY <1>6, <1>7 DEF RequestOK
  <1>9. Continues(g, s)
    BY <1>1, <1>3, <1>5 DEF ReadPending, RowsRead
  <1>10. QED
    BY <1>1, <1>2, <1>8, <1>9, ContinuesPreserves

LEMMA AskAgentPreserves ==
    ASSUME PInv, NEW g \in Insights, AskAgent(g)
    PROVE  PInv'
  <1>1. PICK old, snapshot : old = insight[g] /\ snapshot = old.snapshot
    OBVIOUS
  <1>2. /\ g \in DOMAIN insight /\ old.pc = "lookup" /\ RequestOK(old, during[g], latest)
    BY <1>1, WaitingRequest DEF AskAgent
  <1>3. old = [pc |-> "lookup", snapshot |-> snapshot]
    BY <1>1, <1>2 DEF RequestOK
  <1>4. PICK s : s = [old EXCEPT !.pc = "writing"]
    OBVIOUS
  <1>5. s.pc = "writing" /\ s.snapshot = snapshot /\ s = [pc |-> s.pc, snapshot |-> s.snapshot]
    BY <1>3, <1>4
  <1>6. RequestOK(s, during[g], latest)
    BY <1>1, <1>2, <1>5 DEF RequestOK
  <1>7. Continues(g, s)
    BY <1>1, <1>4 DEF AskAgent
  <1>8. QED
    BY <1>1, <1>2, <1>6, <1>7, ContinuesPreserves

LEMMA RequestEndedPreserves ==
    ASSUME PInv, NEW g \in Insights, ReuseReport(g) \/ InsertReport(g) \/ FailInsight(g)
    PROVE  PInv'
  <1>1. /\ g \in DOMAIN insight /\ insight[g].pc \in {"lookup", "writing"}
        /\ RequestOK(insight[g], during[g], latest)
    BY WaitingRequest DEF ReuseReport, InsertReport, FailInsight
  <1>2. PICK answer : Ends(g, answer)
    BY DEF ReuseReport, InsertReport, FailInsight
  <1>3. reports' \subseteq reports \cup {insight[g].snapshot}
    BY DEF ReuseReport, InsertReport, FailInsight
  <1>4. StagesAreAssessed'
    BY <1>1, <1>3 DEF PInv, StagesAreAssessed, RequestOK, Covers
  <1>5. QED
    BY <1>1, <1>2, <1>4, EndsPreserves

-----------------------------------------------------------------------------
(* All steps. *)

LEMMA PortfolioInitEstablishes ==
    ASSUME PortfolioInit
    PROVE  PInv
  <1>1. IInv
    BY InitEstablishes DEF PortfolioInit
  <1>2. /\ DOMAIN latest = Initiatives
        /\ \A i \in Initiatives : latest[i].number = 0
        /\ DOMAIN insight = {} /\ DOMAIN during = {} /\ reports = {}
    BY DEF PortfolioInit, NoAssessment
  <1>3. DOMAIN transition = {}
    BY DEF PortfolioInit, Init
  <1>4. PortfolioTypeOK
    BY <1>2, AssessedAssumption DEF PortfolioTypeOK
  <1>5. ProposalsAssessed /\ Watched /\ StagesAreAssessed
    BY <1>2, <1>3 DEF ProposalsAssessed, Watched, StagesAreAssessed
  <1>6. QED
    BY <1>1, <1>2, <1>4, <1>5 DEF PInv

LEMMA PortfolioNextPreserves ==
    ASSUME PInv, [PortfolioNext]_portfolioVars
    PROVE  PInv'
  <1>1. CASE UNCHANGED portfolioVars
    <2>1. /\ UNCHANGED <<vars, latest>> /\ transition' = transition
          /\ latest' = latest /\ insight' = insight /\ during' = during /\ reports' = reports
      BY <1>1 DEF portfolioVars, vars
    <2>2. IInv' /\ Current' = Current
      BY <2>1, NextPreserves, CurrentKept DEF PInv
    <2>3. PortfolioTypeOK' /\ ProposalsAssessed' /\ StagesAreAssessed'
      BY <2>1 DEF PInv, PortfolioTypeOK, ProposalsAssessed, StagesAreAssessed
    <2>4. Watched'
      BY <2>1, <2>2 DEF PInv, Watched
    <2>5. QED
      BY <2>1, <2>2, <2>3, <2>4 DEF PInv
  <1>2. CASE PortfolioNext
    BY <1>2, LifecyclePreservesPInv, ReadInitiativesPreserves, ReadAssessmentsPreserves,
       ReadPendingPreserves, AskAgentPreserves, RequestEndedPreserves DEF PortfolioNext, InsightStep
  <1>3. QED
    BY <1>1, <1>2

\* Whatever the lifecycle does between the statements of any number of requests.
THEOREM PortfolioInvariance == PortfolioSpec => []PInv
  <1>1. PortfolioInit => PInv
    BY PortfolioInitEstablishes
  <1>2. PInv /\ [PortfolioNext]_portfolioVars => PInv'
    BY PortfolioNextPreserves
  <1>3. QED
    BY <1>1, <1>2, PTL DEF PortfolioSpec

\* Insight reports change nothing of what they describe: with any number of them the
\* initiatives take steps of Lifecycle, and all that is proved of it holds (agents/portfolio.py
\* writes portfolio_insight_reports alone).
THEOREM PortfolioKeepsLifecycle == PortfolioSpec => Spec
  <1>1. PortfolioInit => Init
    BY DEF PortfolioInit
  <1>2. [PortfolioNext]_portfolioVars => [Next]_vars
    BY PortfolioStepIsLifecycleStep
  <1>3. QED
    BY <1>1, <1>2, PTL DEF PortfolioSpec, Spec

\* No stored report shows an initiative beyond the first stage that was never assessed: the
\* rows are read before the assessments, and these only become more (_snapshot).
THEOREM StagesExplained == PortfolioSpec => []StagesAreAssessed
  BY PortfolioInvariance, PTL DEF PInv

\* The step that answers a request: what it answers is the snapshot of the request.
LEMMA AnswerIsSnapshot ==
    ASSUME PInv, [PortfolioNext]_portfolioVars, NEW g \in Insights, AnswersNow(g)
    PROVE  /\ insight'[g].answer = insight[g].snapshot
           /\ MadeOf(insight[g].snapshot, during[g])
  <1>1. g \in DOMAIN during /\ g \notin DOMAIN during' /\ insight'[g].answer # << >>
    BY DEF AnswersNow
  <1>2. ASSUME NEW h \in Insights, NEW answer, Ends(h, answer)
        PROVE  h = g /\ insight'[g].answer = answer
    <2>1. h = g
      BY <1>1, <1>2 DEF Ends, Forget
    <2>2. PICK s : s = [Over EXCEPT !.answer = answer]
      OBVIOUS
    <2>3. s.answer = answer
      BY <2>2 DEF Over
    <2>4. insight' = Put(insight, h, s)
      BY <1>2, <2>2 DEF Ends
    <2>5. insight'[h] = s
      BY <2>4 DEF Put
    <2>6. QED
      BY <2>1, <2>3, <2>5
  <1>3. \E h \in Insights : ReuseReport(h) \/ InsertReport(h) \/ FailInsight(h)
    <2>1. ASSUME DOMAIN during \subseteq DOMAIN during'
          PROVE  FALSE
      BY <1>1, <2>1
    <2>2. CASE UNCHANGED portfolioVars
      BY <2>1, <2>2 DEF portfolioVars
    <2>3. CASE LifecycleStep
      BY <2>1, <2>3 DEF LifecycleStep
    <2>4. ASSUME NEW h \in Insights,
                 ReadInitiatives(h) \/ ReadAssessments(h) \/ ReadPending(h) \/ AskAgent(h)
          PROVE  FALSE
      BY <2>1, <2>4 DEF ReadInitiatives, ReadAssessments, ReadPending, AskAgent, Continues, Put
    <2>5. QED
      BY <2>2, <2>3, <2>4 DEF PortfolioNext, InsightStep
  <1>4. ~FailInsight(g)
    BY <1>1, <1>2 DEF FailInsight
  <1>5. PICK h \in Insights : ReuseReport(h) \/ InsertReport(h) \/ FailInsight(h)
    BY <1>3
  <1>6. h = g
    BY <1>2, <1>5 DEF ReuseReport, InsertReport, FailInsight
  <1>7. insight'[g].answer = insight[g].snapshot
    BY <1>2, <1>4, <1>5, <1>6 DEF ReuseReport, InsertReport, SameInput
  <1>8. /\ insight[g].pc \in {"lookup", "writing"}
        /\ RequestOK(insight[g], during[g], latest)
    BY <1>5, <1>6, WaitingRequest DEF ReuseReport, InsertReport, FailInsight
  <1>9. QED
    BY <1>7, <1>8 DEF RequestOK

\* Whether its report is written for it or was stored long ago, a request is answered with
\* stages, states, assessments and pending proposals that were each so while it was handled:
\* the fingerprint covers all that the report says (generate).
THEOREM PartsAreCurrent == PortfolioSpec => PartsWereCurrent
  <1>1. PInv /\ [PortfolioNext]_portfolioVars =>
           [\A g \in Insights :
               AnswersNow(g) =>
                   LET answer == insight'[g].answer
                   IN  /\ \E moment \in during[g] : moment.rows = answer.rows
                       /\ \E moment \in during[g] : moment.latest = answer.latest
                       /\ \E moment \in during[g] : moment.pending = answer.pending]_portfolioVars
    BY AnswerIsSnapshot DEF MadeOf
  <1>2. QED
    BY <1>1, PortfolioInvariance, PTL DEF PortfolioSpec, PartsWereCurrent

\* The variables of Portfolio have their types; those of Lifecycle are typed by IInv.
THEOREM PortfolioTypeCorrect == PortfolioSpec => [](TypeOK /\ PortfolioTypeOK)
  <1>1. PInv => TypeOK /\ PortfolioTypeOK
    BY DEF PInv, IInv
  <1>2. QED
    BY <1>1, PortfolioInvariance, PTL

=============================================================================
