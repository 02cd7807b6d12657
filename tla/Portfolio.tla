------------------------------- MODULE Portfolio -------------------------------
(***************************************************************************)
(* Portfolio insight reports (oliver/utils/agents/portfolio.py and         *)
(* routes/portfolio.py) beside the lifecycle they describe.                *)
(*                                                                         *)
(* A request reads all initiatives, then the latest assessment of each,    *)
(* then the number of pending proposals: three statements under READ       *)
(* COMMITTED, with commits of the lifecycle in between.  A stored report   *)
(* with the same snapshot is reused; else an agent writes one, for         *)
(* minutes, and the report is inserted unless another request was faster.  *)
(*                                                                         *)
(* Abstracted: the report itself (an answer of the agent that fails the    *)
(* checks of its citations is a failure), titles and dimensions, and the   *)
(* fingerprint, for which the snapshot itself stands.                      *)
(***************************************************************************)
EXTENDS Lifecycle

CONSTANTS
    Insights,           \* requests for an insight report
    MaxAssessed         \* bound: assessments of one initiative that are stored

ASSUME AssessedAssumption == MaxAssessed \in Nat

VARIABLES
    latest,     \* the latest canonical assessment of each initiative: its number and outcome
    reports,    \* portfolio_insight_reports: the snapshots there is a report for
    insight,    \* the progress of the requests being handled
    during      \* history: what the portfolio was like while each of them has been handled

portfolioVars == <<vars, latest, reports, insight, during>>

-----------------------------------------------------------------------------

NoAssessment == [number |-> 0, outcome |-> "none"]

\* What a report says of the row of an initiative.
Described(i) ==
    [stage |-> initiative[i].current_stage, state |-> initiative[i].lifecycle_state,
     held |-> initiative[i].is_on_hold]

DescribedRows == [i \in Persisted |-> Described(i)]

PendingCounts ==
    [i \in Initiatives |->
        Cardinality({t \in DOMAIN transition :
                        transition[t].initiative = i /\ transition[t].status = "PENDING"})]

\* The portfolio at one moment.
Current == [rows |-> DescribedRows, latest |-> latest, pending |-> PendingCounts]

PortfolioInit ==
    /\ Init
    /\ latest = [i \in Initiatives |-> NoAssessment]
    /\ reports = {}
    /\ insight = << >>
    /\ during = << >>

-----------------------------------------------------------------------------

\* The canonical assessment is stored in the transaction that StageMaster decides in.
CommitsAssessment(r) ==
    RecordNoTransition(r) \/ \E t \in Transitions : ProposeTransition(r, t) \/ AdvanceAutomatically(r, t)

StoreAssessment(r) ==
    /\ CommitsAssessment(r)
    /\ LET i == loaded[r].initiative
       IN  /\ latest[i].number < MaxAssessed
           /\ latest' = [latest EXCEPT ![i] = [number |-> @.number + 1, outcome |-> assessed[r].outcome]]

\* Everything else that writes the rows of the lifecycle.
OtherLifecycleStep ==
    /\ \/ \E r \in Assessments :
             \/ \E thread \in Persisted \cup {NoInitiative} : Assess(r, thread)
             \/ \E i \in Initiatives : LoadInitiative(r, i)
             \/ AbandonAssessment(r)
       \/ HumanStep
       \/ \E i \in Initiatives : PromoteCandidate(i) \/ SlaElapses(i)
       \/ \E p \in Evaluations : PacerStep(p)
       \/ \E b \in Reports : SentinelStep(b)
    /\ UNCHANGED latest

LifecycleStep ==
    /\ OtherLifecycleStep \/ \E r \in Assessments : StoreAssessment(r)
    /\ during' = [g \in DOMAIN during |-> during[g] \cup {Current'}]
    /\ UNCHANGED <<reports, insight>>

-----------------------------------------------------------------------------

Waits(g, pc) == g \in DOMAIN insight /\ insight[g].pc = pc

Continues(g, new) ==
    /\ insight' = Put(insight, g, new)
    /\ UNCHANGED <<vars, latest, reports, during>>

\* The request is over; it is not made again.
Over == [pc |-> "over", answer |-> << >>]

Ends(g, answer) ==
    /\ insight' = Put(insight, g, [Over EXCEPT !.answer = answer])
    /\ during' = Forget(during, g)
    /\ UNCHANGED <<vars, latest>>

\* The first statement; without an initiative the request is refused.
ReadInitiatives(g) ==
    /\ g \notin DOMAIN insight
    /\ Persisted # {}
    /\ insight' = Put(insight, g, [pc |-> "assessments", rows |-> DescribedRows])
    /\ during' = Put(during, g, {Current})
    /\ UNCHANGED <<vars, latest, reports>>

ReadAssessments(g) ==
    /\ Waits(g, "assessments")
    /\ Continues(g, [pc |-> "pending", rows |-> insight[g].rows, latest |-> latest])

\* Mutated: the rows are refreshed when the records are built.
RefreshedRows(g) == DescribedRows

\* The rows as the first statement read them.
RowsRead(g) == insight[g].rows

\* The third statement completes the snapshot.
ReadPending(g) ==
    /\ Waits(g, "pending")
    /\ Continues(g, [pc |-> "lookup", snapshot |->
                        [rows |-> RowsRead(g), latest |-> insight[g].latest,
                         pending |-> PendingCounts]])

\* Mutated: the fingerprint leaves the lifecycle state and the pending proposals out.
SameExceptStates(stored, snapshot) ==
    /\ DOMAIN stored.rows = DOMAIN snapshot.rows
    /\ \A i \in DOMAIN stored.rows : stored.rows[i].stage = snapshot.rows[i].stage
    /\ stored.latest = snapshot.latest

\* The report was made for the same snapshot.
SameInput(stored, snapshot) == stored = snapshot

ReuseReport(g) ==
    /\ Waits(g, "lookup")
    /\ \E stored \in reports :
          SameInput(stored, insight[g].snapshot) /\ Ends(g, stored)
    /\ UNCHANGED reports

AskAgent(g) ==
    /\ Waits(g, "lookup")
    /\ \A stored \in reports : ~SameInput(stored, insight[g].snapshot)
    /\ Continues(g, [insight[g] EXCEPT !.pc = "writing"])

\* The report is inserted and committed: its fingerprint is unique.
InsertReport(g) ==
    /\ Waits(g, "writing")
    /\ insight[g].snapshot \notin reports
    /\ reports' = reports \cup {insight[g].snapshot}
    /\ Ends(g, insight[g].snapshot)

\* The agent fails, its citations are wrong, or another request stored the report first.
FailInsight(g) ==
    /\ Waits(g, "writing")
    /\ Ends(g, << >>)
    /\ UNCHANGED reports

InsightStep(g) ==
    \/ ReadInitiatives(g)
    \/ ReadAssessments(g)
    \/ ReadPending(g)
    \/ ReuseReport(g)
    \/ AskAgent(g)
    \/ InsertReport(g)
    \/ FailInsight(g)

PortfolioNext == LifecycleStep \/ \E g \in Insights : InsightStep(g)

PortfolioSpec == PortfolioInit /\ [][PortfolioNext]_portfolioVars

-----------------------------------------------------------------------------

PortfolioTypeOK ==
    /\ \A i \in Initiatives : latest[i].number \in 0..MaxAssessed
    /\ DOMAIN insight \subseteq Insights
    /\ DOMAIN during \subseteq DOMAIN insight

\* The step answers g with a report.
AnswersNow(g) ==
    /\ g \in DOMAIN during
    /\ g \notin DOMAIN during'
    /\ insight'[g].answer # << >>

\* A report that a request is answered with, made for it or reused from days ago, says
\* nothing of the stages, the states, the assessments or the pending proposals that was not
\* so while the request was handled.
PartsWereCurrent ==
    [][\A g \in Insights :
          AnswersNow(g) =>
              LET answer == insight'[g].answer
              IN  /\ \E moment \in during[g] : moment.rows = answer.rows
                  /\ \E moment \in during[g] : moment.latest = answer.latest
                  /\ \E moment \in during[g] : moment.pending = answer.pending]_portfolioVars

\* No report shows an initiative beyond the first stage that was never assessed: the
\* assessments are read after the stages they moved.
StagesAreAssessed ==
    \A stored \in reports : \A i \in DOMAIN stored.rows :
        stored.rows[i].stage > 1 => stored.latest[i].number > 0

\* The docstring of generate_portfolio_insight: the report is for the exact current aggregate
\* snapshot, so the whole snapshot was the portfolio at some moment of the request.
SnapshotWasCurrent ==
    [][\A g \in Insights : AnswersNow(g) => insight'[g].answer \in during[g]]_portfolioVars

=============================================================================
