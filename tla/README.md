# Oliver in TLA+

Oliver reads pilot ideas from an Outlook mailbox, assesses them against a governed
lifecycle (the stages DI1 Concept to DI5 Scale), answers by email and keeps the
portfolio's records. This directory holds a formal model of the parts of Oliver whose
correctness depends on order, concurrency or failure, the TLC runs that check it and the
TLAPS proofs of its main results. Paths below are relative to the repository.

Notation of the comments: a definition marked `Mutated` is a wrong variant of the code, kept
beside the right one; no specification uses it. It documents which bug the properties of the
module catch (`PROJECT.json`, `mutants`).

## 1. The system and its parts

| part | code | state | operations |
|---|---|---|---|
| StageMaster | `oliver/utils/lifecycle/service.py`, `oliver/routes/lifecycle.py` | `initiatives` (stage, state, hold, version), `lifecycle_transitions` | process_assessment, hold, resume, decide_transition |
| Pacer | `oliver/utils/pacer/service.py` | reads and stalls `initiatives` | evaluate_all |
| Sentinel, Realizer | `oliver/utils/operations/service.py` | metric definitions, observations, alerts; drifts `initiatives` | define_metric, record_observation, summarize |
| Email intake | `oliver/routes/email.py` `respond_to_email` | threads, messages, runs | /email/respond |
| Registrar | `oliver/utils/registrar/service.py` | initiative identity, evidence items and versions | find/ensure_initiative, capture_message_evidence |
| Attachments | `oliver/utils/attachments/service.py` | blobs, attachments, evidence items | ingest |
| Herald | `oliver/utils/herald/service.py`, delivery routes of `oliver/routes/email.py` | `delivery_outbox`, `delivery_attempts` | enqueue, pending, record_result |
| Delivery workflow | `infrastructure/workflow/oliver-email-workflow.json.tftpl` | a run per email | respond, reply, report |
| Transition policy | `oliver/utils/transition_policy/` | none (pure), a versioned policy file | evaluate_transition, evaluate_terminal_stage, load |
| Scoring | `oliver/utils/scoring/` | none (pure) | rubric, consolidate |
| Assessment agent | `oliver/utils/agents/assessment.py` | none | assess |
| Coach agent | `oliver/utils/agents/coach.py`, `oliver/utils/tools/` | a conversation with the model | respond (tool loop), render |
| Model provider | `oliver/utils/model_provider.py` | none | bounded retry |
| Scout | `oliver/utils/agents/scout.py`, `oliver/routes/scout.py` | `scout_candidates` | discover, promote, dismiss |
| Portfolio | `oliver/utils/agents/portfolio.py`, `oliver/routes/portfolio.py` | `portfolio_insight_reports` | generate |
| Audit | `oliver/utils/audit/service.py`, migration 0004 | `audit_events` (append-only) | record |
| Security | `oliver/utils/security/`, `oliver/config.py` | configuration | role checks |
| Admin dashboard | `admin-dashboard/` | none of its own | read API (`backend/app/routers/`), command gateway, pages |

All parts of the backend share one PostgreSQL database. FastAPI runs the synchronous routes in a
thread pool, every request has a session of its own, and PostgreSQL runs at READ COMMITTED:
handlers interleave at every statement, and a commit makes all of a handler's writes visible at
once. `autoflush` is off, so a pending row is only inserted at an explicit flush or at the
commit. Email intake calls the Assessment agent, the Coach, the Registrar, StageMaster and the
Herald in one request; the delivery workflow calls email intake and the two delivery routes; the
dashboard forwards human commands to StageMaster and Scout; Pacer and the metric endpoint are
called by services.

### What is hard about it

* **Interleaving at READ COMMITTED.** Nothing is serialised unless a handler locks a row
  (`with_for_update`: human commands, promotion of a candidate, delivery results, a claimed batch)
  or compares a version. An assessed email, a Pacer evaluation and a metric report read an
  initiative, compute, and write later.
* **Stale reads.** `/email/respond` runs agents for minutes between the transaction that stores
  the message and the one that commits the run. What it read before (the thread's link to an
  initiative, the evidence, the stage that was assessed) is used after.
* **Repetition.** The delivery workflow repeats a call that failed or timed out, while the first
  call may still be running; a mailbox can present one email under two message ids; results of
  deliveries are reported until an answer arrives.
* **Partial failure.** A request can fail at every gap, after its message is committed and before
  its run is; a sender can die before or after the email left the mailbox.
* **Time.** Stalls, claims, backoffs and the deadline of a model call all compare clocks with
  values computed earlier.
* **Two stores.** An attachment's bytes are written to a content-addressed store outside the
  transaction that inserts the row about them; requests with equal contents wait for each other
  at the primary key, and can deadlock there.
* **Reads of several statements.** A page of the dashboard or the snapshot of an insight report
  is put together from statements between which other sessions commit.
* **Decision tables.** Four gate outcomes, three validators and a confidence floor decide whether
  a stage moves without a person; their order matters more than any one rule.

### What makes each part correct

| part | it is correct if |
|---|---|
| StageMaster | the two columns of a hold agree; the ledger accounts for stage and hold; a held initiative does not move; only a person opens DI5; a proposal that can be decided fits the initiative; a decision is final; every change takes a version |
| Pacer, Sentinel | a stall or drift is only written to an initiative that still deserves it; a reported measurement is observed once and has an alert exactly if it breaches; a realized value never goes back in time |
| Email intake, Registrar | replays add nothing; a stored message is answered in the end, unless its attachment is refused or its thread stays mismatched; the intake leaves no initiative without an assessment; an evidence version covers what was assessed |
| Attachments | no row without its bytes; the kept extraction status comes from one of the files that were sent; every acceptable attachment is linked in the end |
| Herald, delivery workflow | attempts are counted once; SENT is true, final and not offered again; claims exclude each other; every instruction is sent in the end |
| Scout | a source record is queued once; a candidate is promoted or dismissed once and its decision stands |
| Transition policy, Assessment | movement without a person is governed; better evidence never has a worse outcome; the rubric never moves a stage |
| Scoring | a composite is explained by its dimensions; what the messages of a thread earned in the rubric stays earned |
| Model provider | the sleeps of the retry keep the deadline |
| Portfolio | each part of a report was true while the request was handled; no stage is shown without the assessment that led to it |
| Dashboard pages | one reply per message; an assessment is never shown without its initiative, thread and evidence version; an initiative is shown as unassessed only if it is, and listed so only if Scout made it |

## 2. Modules

| module | models | kind |
|---|---|---|
| `StageLadder` | the promise of the lifecycle, without a database | abstract specification |
| `Lifecycle` | StageMaster, Pacer, Sentinel's drift, Scout's promotion | implements `StageLadder` |
| `Observations` | Sentinel and Realizer | extends and implements `Lifecycle` |
| `Portfolio` | insight reports | composed with `Lifecycle` |
| `Delivery` | Herald, the delivery routes, their clients | with fairness |
| `EmailIntake` | `/email/respond` and Registrar | with fairness |
| `AdminViews` | the thread and initiative pages of the dashboard | composed with `EmailIntake` |
| `Attachments` | the content-addressed store and its rows | with fairness |
| `ReviewQueue` | the promise of Scout, without a database | abstract specification |
| `Scout` | discovery, promotion, dismissal | implements `ReviewQueue` |
| `TransitionPolicy` | validators and evaluation of transition policies | operators only |
| `Scoring` | the rubric and the weighted composite | operators only |
| `Assessment` | the Assessment agent, bounded retry; composes the two above | |
| `MC*` | constants of the runs | |
| `*_proofs` | theorems about the modules they are named after; `Intake_proofs` is about `EmailIntake` and `AdminViews` | proofs |

`PROJECT.json` (`map`) names the source lines of every definition.

### Lifecycle

`initiative` holds the columns of a row that lifecycle code reads or writes; `transition` is the
table `lifecycle_transitions`. `persisted` tells a committed row from one that no session has
committed: its values are then the column defaults, and a session that is about to insert it has
its identifier reserved. Human commands lock what they read and are one action each (`Hold`,
`Resume`, `ApproveTransition`, `RejectTransition`). The others are a reading and a committing
action with the version they read in a session variable:

| code | read | commit | on conflict or failure |
|---|---|---|---|
| `respond_to_email` → `process_assessment` | `Assess`, `LoadInitiative` | `RecordNoTransition`, `ProposeTransition`, `AdvanceAutomatically` | `AbandonAssessment` |
| `Pacer.evaluate_all` | `StartEvaluation` | `CommitEvaluation`, row by row | skipped rows; `AbandonEvaluation` |
| `record_observation` (breach) | `ReadForBreach` | `RecordDrift` | `AbandonReport` |

The assessed stage (`assessed`) and the row (`loaded`) are read at different moments, as in the
code, and the thread may have been linked to another initiative in between
(`registrar/service.py:64`), whose row is then the one that is read. A session whose two stages
differ can only be abandoned: `transition_for_assessment` rejects it. `overdue` abstracts the age of a stage; the SLA can elapse at any time.

`Lifecycle` implements `StageLadder` (`ImplementsLadder`): a stage is `current_stage`, a hold is
`is_on_hold`, and the authority a stage was entered under is read off the ledger, *human* if its
advance is APPROVED, *policy* if APPLIED. So the refinement says that every change of a stage can
be explained from the ledger alone.

### Observations

A report of a measurement is a session `measuring[b]`: `Receive` looks the idempotency key up,
`Flush` inserts the observation (the unique constraint refuses a key that another open
transaction has), `ReadInitiative` decides whether a breach marks the initiative, and
`CommitObservation` commits observation, alert and drift at once; `AbandonObservation` is a
conflict, a violation or a crash. `DefineMetric` is one step. `Lifecycle`'s `ReadForBreach` and
`RecordDrift` occur here as the part of a report that touches the initiative, and
`ImplementsLifecycle` (the specification of `Lifecycle` as a property) says that with everything
Sentinel does, rows of initiatives only change the way `Lifecycle` allows: in particular
that a drift is only marked in a measured stage, which `record_observation` itself does not
check. Realizer's query is `LatestTime`.

### Portfolio

`LifecycleStep` is a step of `Lifecycle` that also counts assessments (`latest`). A request for a
report reads rows, assessments and pending proposals in three steps (`ReadInitiatives`,
`ReadAssessments`, `ReadPending`); `RowsRead` is SQLAlchemy's identity map, which keeps the values
of the first statement. Then it reuses a stored report (`ReuseReport`) or asks the agent and
inserts one (`AskAgent`, `InsertReport`). `during` is a history variable: all that the portfolio
was while the request was handled.

### Delivery

`instruction` and `wait` are a `delivery_outbox` row, time being counted down to
`next_attempt_at`. `recorded` says whose attempt has its row in `delivery_attempts`: an attempt
has one idempotency key, so a report under a known key changes nothing. `sender` is the state of a
client: a workflow run, which gets its instruction from `/respond`, or a poller, which claims one.
`held`, `results` and `mailed` are history variables for the properties. A claimed batch is
several `Claim` steps: `pending` skips locked rows, and no row of a batch depends on another.

### EmailIntake

`session[q].pc` walks a request through the gaps of `respond_to_email`: `Lookup`, `MatchThread`,
`Store` (first commit), `Assess` (second commit), `Coach`, `EnsureInitiative`, `CaptureEvidence`,
`NumberVersion`, and a final commit with the unique constraints checked (`CommitRun`,
`CommitAssessment`, `Conflict`). Rows are identified by natural keys: a thread by the conversation
it was created for, an initiative by the request that created it. Agents choose their result.
A request whose attachment is not acceptable is refused with a 4xx (`RefuseAttachment`) after its
message was committed; nobody repeats it. A request
that fails is taken up again from the start, as the caller repeats it; a call that timed out for
the caller only is a further request for the same email.
`run` is a log in the order of commits: nothing in the database stops two sessions from committing
a run for the same message, and then the log has both. `IdentityAssumption` says that one message
id always comes with one email; the code takes the id from the provider and relies on it.

Of the lifecycle the module keeps what decides on a commit: whether the initiative is still in the
stage it was created in. The stage to assess is read from the link of the thread (`FirstStage`),
and `process_assessment` insists that it is the stage of the initiative that `ensure_initiative`
found (`SameStage`). The two differ in a *mismatched* thread: it has no initiative, and one with
its title and owner has left the first stage. Initiatives in `Advancing` leave it with their first
assessment. Scout's initiatives are rows of the same table, with evidence and a version and without
an assessment (`Promote`); a thread may take one of them as its own.

### AdminViews

One page is opened beside the intake. `ListThreads` and `ListInitiatives` are one statement;
`OpenThread`, `LoadMessages`, `ShowThread` and `OpenInitiative`, `LoadThreads`, `LoadAssessments`,
`ShowInitiative` are the statements of the detail pages, `selectinload` being one statement per
relation in the order of the mapped attributes. Between any two of them the intake commits. The
list of initiatives has Scout's too: outer joins, with no assessment yet.

### Attachments

`session[q]` is a request: `Examine` looks link and blob of the next attachment up,
`PutBytes` and `ReplaceTarget` write a temporary file and rename it, `InsertBlob` and `InsertLink`
flush the rows, and `Commit` is the commit after the assessment. A flushed key makes other
sessions wait: an insert is enabled when nobody else holds the key, `Violation` is the other
session's commit, `BreakDeadlock` is PostgreSQL giving one of two sessions up that wait for each
other. Bytes survive every rollback, rows do not. `Extraction` is the status `ingest` stores:
unsupported extension, unreadable content, or text.

### Scout and ReviewQueue

`discovery[d]` is a discovery session: `Discover` is the answer of the agent and its checks,
`FindKnown` and `FindUnknown` look one candidate up, `InsertCandidate` flushes it, and
`CommitDiscovery` or `AbandonDiscovery` ends it. `review[v]` is a review with the row it has
locked (`OpenReview`, `Promote` or `Dismiss`; `EndReview`). `ReviewQueue` knows neither rows nor
sessions: a source is unknown, discovered, promoted or dismissed, and the number of initiatives
made of it. `Scout` implements it with `StatusOf` and `MadeFrom`, where two rows of one source
would be a status the abstract queue does not have.

### TransitionPolicy, Scoring, Assessment

`TransitionPolicy` has one operator per validator and per step of `evaluate_transition`, with the
order of its conditions. A text in `Scoring` is its length and which of the rubric's patterns it
contains. `Assessment` is one thread, assessed again and again: routing, findings
from the model (accepted only if they are about exactly the policy's criteria) or the rubric, and
consolidation; every model call goes through the bounded retry with its own attempts and deadline.

Each request builds its text anew (`Receive`): all messages of the thread (`situation.written`,
which only grows) and behind them the attachments of this request alone, so that
`situation.text` includes the messages but not the text scored before. A follow-up without the
earlier attachment can therefore lower a dimension. Nor does a baseline survive: it is a quantity in
the first half of the text, every text has another half, and the cut can split a quantity or make
one. So whether a text has a baseline is left open, and messages alone have none (`Writings`). What the
code does keep is `WrittenIsKept`: no dimension falls below the points that the messages of an
earlier assessment earn without attachments and without a baseline.

## 3. Runs

All runs are exhaustive within their bounds. Model values stand for identifiers. Symmetric sets
are reduced in `race`, `operations`, `scouting` and `insights`, where no liveness is checked and
all the members of a symmetric set are treated alike by the specification and the properties.

| run | shows | bounds, and why they are enough |
|---|---|---|
| `race` | two assessments of one initiative against holds, resumes and decisions: the ledger explains stage and hold, decisions are final, and `StageLadder` is implemented | 1 initiative (rows of different initiatives never interact in these actions), 2 sessions (a version comparison is pairwise), 3 ledger rows, 3 stages (first, one opened by policy, last), no new work from version 3 on |
| `operations` | metric reports, one of them repeated under its key, against a Pacer evaluation, an assessment and human commands: stalls and holds, one observation per key, alerts, realized values, and `Lifecycle` implemented | 2 reports in progress (a unique constraint is pairwise), 2 keys, one measured earlier but reported in any order, SLO or VALUE metric, 3 stages of which 2 are measured; versions to 3, so that each writer can come between the two steps of any other |
| `senders` | two workflow runs and two pollers share an instruction: counts, claims, finality, and that it is sent | 1 delivery (rows are independent), 3 faults, claim and backoff of 3 units so that claims expire, backoffs are capped and shorter than a claim |
| `repetitions` | an email repeated in time, later or under another id, beside a second email of the conversation, a reply in a new one, or an idea of the same name elsewhere; once its attachment is refused | 3 requests, 3 ids, 3 payloads, 2 conversations, 1 fault; two callers conflict pairwise, the third is the late replay; one initiative that advances is enough to mismatch a thread; no candidate of Scout's, whose promotions would multiply the states and touch no run (they are in `views`) |
| `attachments` | three requests that share contents: bytes before rows, explained statuses, and every attachment linked in the end | two files in opposite orders (the deadlock), the same content twice in one email, a misleading name, a refused file after a stored one; 2 faults |
| `views` | pages read while two emails are taken in: one reply per message, assessments with their initiative, thread and version | 2 requests (the same email, or two of a conversation), 1 candidate of Scout's with the same name, 1 fault, 1 page: pages do not interact |
| `insights` | two requests for a report beside an assessment, a Pacer evaluation, holds and decisions | 2 requests (the second reuses or collides), 1 initiative, 1 stored assessment (enough to move the stage between two reads), no metric reports (a drift is one more change of state, which the stall stands for), versions to 3 |
| `scouting` | overlapping discoveries and reviews: each source queued, promoted or dismissed once, and `ReviewQueue` implemented | 2 discoveries, 2 reviewers (constraint and lock are pairwise), 2 records, one of them edited later, and a batch that is refused; 3 row identifiers |
| `gate` | a thread that grows and is reassessed, with attachments that come and go, under five policy documents, by model and rubric | every role and state of a criterion, a confidence at and below the floor, texts at each side of the length thresholds, attempts that end before, at and after the timeout |

Every property of these runs has a mutant in `PROJECT.json`: a plausible bug of the code under
which the property fails within the run's bounds.

Deadlock is checked in `gate` only: in the other runs the bounded environment (ledger rows,
versions, requests, senders, sessions) is used up in the end and the model stops.

Three runs each check one statement of a document or comment that the code does not keep; TLC's
trace is the explanation.

| run | statement | what happens |
|---|---|---|
| `nogo` | the kill is irreversible and confirmed by a person (docs/01) | an assessment after an approved No-Go sets the state Active or advances; `process_assessment` does not look at NoGo |
| `replay` | a replay cannot produce another outbound email (`routes/email.py:237`) | a replay is answered with the stored SEND_EMAIL and the workflow sends it again |
| `siblings` | a single initiative per assessed thread (Registrar's docstring) | two emails of a new thread create an initiative each, the link of one is overwritten |

More statements of this kind are stated in the modules and have no run of their own. Each is
refuted when it replaces the properties of the configuration named here:

| property | statement | configuration |
|---|---|---|
| `Lifecycle!StallRecordedOnce` | each stall event is emitted once (`utils/pacer/service.py:1`); Sentinel turns Stalled into Drifted and Pacer records the stall of the same stay again | `MCObservations_operations`, with `MaxVersion = 5` |
| `Assessment!UnknownEntryIsBrief` | any unknown entry criterion: BRIEF (`docs/adr/0003`, line 94); a blocking concern is looked at first | `MCAssessment_gate` |
| `Assessment!AccumulatedIsKept` | no dimension of the rubric falls from one assessment to the next, as "accumulated initiative evidence" suggests (`docs/oliver-v1-architecture.md`, line 56); the attachments of an earlier request are not scored again | `MCAssessment_gate` |
| `EmailIntake!OneRunPerMessage` | retries create no duplicate assessment or delivery (`docs/04`, line 183); two overlapping calls find the message without a run and both commit one | `MCEmailIntake_siblings` with `Mailboxes <- Twice` |
| `EmailIntake!SnapshotIsExact` | the evidence snapshot is the exact source set of the assessment (`docs/04`, line 290); a follow-up is assessed without the earlier attachment that its version contains | `MCEmailIntake_siblings` |
| `Portfolio!SnapshotWasCurrent` | the report is for the exact current aggregate snapshot (`routes/portfolio.py:28`); the parts are read one after the other and may never have been true together | `MCPortfolio_insights` |

### Fairness

`Lifecycle`, `Observations`, `Portfolio`, `AdminViews`, `Scout` and `Assessment` are checked
without fairness: nothing obliges a person, a caller, a source or a provider to act, and their
properties are safety properties.

`Delivery!FairSpec`: time passes; for each instruction, some poller claims it if it stays due;
a sender that has not crashed sends, reports and takes note of the answer. The pollers and the
clock are outside this repository, which has the route "for a polling Logic App"
(`oliver/routes/email.py:493`) and no poller: `EventuallySent` says what Herald guarantees if
there is one. Workflow runs owe nothing, and faults are bounded by `MaxFaults`: with a provider
that fails forever nothing is ever sent.

`EmailIntake!FairSpec`: a request that can go on does, and one that failed is repeated. The server
handles a request to its end or dies; the repetition is the workflow's default HTTP retry
(`Call_Oliver_API` sets no policy of its own, only the mail reply has `none`, line 141 of
`oliver-email-workflow.json.tftpl`) and the reason why a stored message without a run is picked up at all: 500 (a conflict, a violated
constraint) and 502 (a provider) are repeated, a 4xx is not. There is no other recovery in the
code, so `StoredIsAnswered` rests on it. The property has two premises, and TLC refutes it without
either one. The requests for the message bring acceptable attachments: line 291 of
`routes/email.py` refuses the others after line 288 has committed the message. And its thread does
not stay mismatched: each repetition would assess the first stage and fail with a
LifecycleConflictError. That the HTTP retry is bounded is left out: with a provider that fails
longer than the retries last, a stored message waits for ever.

`Attachments!FairSpec`: the same, for each request. `EventuallyLinked` has a premise, that the
database does not have to break deadlocks for ever: two requests with the same files in opposite
orders could, in principle, meet at every repetition. Waiting is not a premise: a session that
waits goes on or is refused when the other one ends.

## 4. Proofs

All theorems hold for every value of the constants that satisfies the named assumptions of the
modules, in particular for any number of initiatives, sessions, senders, criteria and stages.

**Lifecycle_proofs.** `IInv` adds to the type invariant and the invariants of the runs what a
version comparison buys: a snapshot, a proposal, a stall decision or a metric report whose version
is still the row's version still describes the row (`SnapshotsValid`, `TransitionsValid`,
`EvaluationsValid`, `ReportsValid`), and none of them has a version from the future. Without these
the invariants are not inductive: a stale write could start from any pair of row and snapshot.
There is one lemma per action; `Invariance` combines them. From it follow `TypeCorrect`,
`HoldIsConsistent`, `LedgerExplains`, `ProposalsFresh`, `LastStageApproved`, and, with a case
distinction on who writes a row, the action properties `StallsJustified`, `HeldStands` and
`ChangesVersioned`.

`DecisionsFinal` looks at what each action may do to a row of the ledger: append it, decide a
pending one, or nothing. `LedgerCountsHolds` counts: the ledger is finite, and each step adds a hold
to an initiative that is not held, a resume to one that is, or neither. `LadderImplemented` is the
refinement of `StageLadder`: initial states map to initial states, and every action maps to a climb,
a hold, a release or a stutter; that the authority of a stage is a function of the ledger rests on
`LedgerExplainsStage`.

**Observations_proofs.** `ObsIInv` adds to the invariant of the lifecycle that a flushed key belongs
to one report (`ReportsApart`, the unique constraint) and that an initiative with a metric stands in
a measured stage (`MetricsGoverned`), which it keeps because stages only climb (`StageStays`, from
the refinement of `StageLadder`). Then every step is a step of `Lifecycle` or leaves it alone
(`LifecycleImplemented`), and what is proved of `Lifecycle` carries over (`HeldStandsBesideReports`
is an instance). `ValuesNeverGoBack` needs that the observations of a metric have a latest one
(`LatestExists`): nothing bounds their number and a finite set would need an induction, but a step
adds at most one row (`Records`), and one more row keeps a latest one, no earlier than the last.

**Portfolio_proofs.** `PInv` adds to the invariant of the lifecycle that every advance and No-Go in
the ledger is of an assessed initiative (`ProposalsAssessed`; a stage above the first is explained
by an advance), and that what a request has read so far was so at one of the moments since it began,
and that its assessments cover its rows (`Watched`). Assessments are only added, so assessments that
were read after the rows cover the stages of the rows: that is `StagesExplained`. `PartsAreCurrent`
follows from the fingerprint covering all that a report says, for reused reports too.
`PortfolioKeepsLifecycle`: every commit is a step of `Lifecycle`, whose theorems hold beside the
reports.

**Delivery_proofs.** `IInv` is the type invariant with the bound on every delay, the two safety
invariants on counts and mails, and three strengthenings: a sender that is not idle has a delivery
(`SendersBusy`), a sender that reports SENT has mailed (`SuccessWasMailed`), and a claim never
outlasts the time to `next_attempt_at` (`HeldWithinWait`), which is what makes `ClaimsRespected`
true. `CountedOnce` needs the cardinality of the set of unreported outcomes at each step.
`SentStaysSent` and `SentNotOffered` are action properties.

**Assessment_proofs.** Facts about the policy engine and the rubric come first, as lemmas about
operators (an advance is governed, settling a criterion keeps the rank of the outcome, a text has
the points of what is written in it, the composite lies between its dimensions after rounding).
`IInv` ties the state to them: the last result is the consolidation of its own findings and values,
its text includes the messages of that time and the thread has kept them, and the time spent in a call is bounded by the timeouts of its attempts and the
sleeps between them. The assumptions are the validators' (weights add up to 100) and the ranges of
the settings (`oliver/config.py`): `WithinDeadline` uses the lower bound of 30 s on the timeout
and the limit of two retries.

**Intake_proofs.** `IInv` states what each request relies on at each of its steps (`SessionOK`): the
message it works on is stored, what it read is among the items it will write, an initiative it
carries is a row or its own new one. `ReplaysRecognised` needs an argument about the future: a request
that comes after the answer is `Settled`, that is every copy of its email in the thread has a run,
and no other request is about to store a further copy there. Both are kept by every step of every
other request. `SnapshotsCover` uses that version numbers are unique at the commit and that a
version is never changed, `InitiativesAssessed` that a new initiative of the intake becomes a row
only together with the run of its assessment. A promotion of Scout's touches no request: what it
adds belongs to a new row, and there was no evidence of it before (`RowsVersioned`). `IdentityAssumption` is used in `StoredAsSent`.

Evidence versions have an invariant of their own, `EInv`: the items of a version are evidence
(`VersionsBacked`), no two versions of an initiative have the same items (`VersionsDistinct`), and
the same of what a session is about to write (`WriterOK`): no version below the number it has
taken has its items. The uniqueness of numbers then lets only the last number through, so that
`VersionsNumberedOnce` does not use the unique constraint on fingerprints. `VersionsImmutable` is
the action property that evidence and versions are only added.

The pages (`AdminViews`) rest on how threads, runs and initiatives are linked (`SessionsLinked`,
`RunsLinked`), on the tables only growing (`TablesGrow`) and on `PageInv`, which says of each
statement what it read and in which tables that still is; that a row always has a version lets the
list show one. From these follow `RepliesShownOnce`
and `AssessmentsTraced`; `PagesOnlyRead` carries the theorems about the intake over.

**Attachments_proofs.** `IInv` ties a session to the store and to the other sessions: between
`PutBytes` and the insert the bytes are complete, what a session links it has stored itself or
found committed, and the keys of two sessions' uncommitted links are apart. `ReferencesBacked`
and `StatusesExplained` follow, for any number of requests and contents. `WaitingEnds` is the part
of `EventuallyLinked` that is about states: in a set of sessions that contains all that its members
wait for, one can go on, or is in a deadlock that the database breaks. A session at rest holds no
row (`RestHoldsNothing`); so if all had to wait, each would wait for another of the set, and a
smallest such subset is a circle (`WaitersContainCircle`, by well-founded induction over the
subsets of a finite set, `RequestAssumption`). `CanGoOn` spells out when a step is possible;
`ENABLED` itself is out of the prover's reach.

**Scout_proofs.** `ReviewsExclusive` is what the row lock buys (a reviewer decides on the row as it
is) and `DiscoveriesApart` what the unique constraint buys (no two rows, committed or about to be,
have one source). From them follow `PromotionsConsistent`, `CandidatesUnique` and the refinement
`QueueImplemented`: a commit of a discovery is a `Find` of its batch, a promotion is a
`MakeInitiative`, and the rest stutters.

**Only model-checked.** `EventuallySent`, `StoredIsAnswered` and `EventuallyLinked` are liveness
under fairness, which TLAPS does not handle. Every invariant and action property of a passing run is
stated by a theorem, and so are the three refinements. The types of all variables are proved, except
those of `Scout`: `Discover` filters an answer with `SelectSeq`, and that its result is a sequence
of elements of the answer needs an induction over sequences, which no installed prover does
(`CandidatesUnique` and the refinement do not use it). What a recursive definition computes for
every input is out of reach for the same reason; no module here has one.

## 5. Not modelled

| part | why |
|---|---|
| the Coach's tool loop | its answer is an input of `EmailIntake`, a failure when the rounds run out included; the loop keeps no state beyond one call |
| policy file loader | follows the `extends` chain once at start-up, over files of the package |
| identities, roles, settings | checks of a single request without state; human commands are taken as authorised |
| audit events | written in the transaction of what they record, never read by the backend |
| rendering, prompts, API models | wording and layout |
| embeddings, related threads, retrieval | inputs of the agents, whose result is a choice here |
| the dashboard's gateway, single-table reads and front end | forward one command or read one table; the commands are the human steps of `Lifecycle` |
| the assessment test lab | calls the agents without a database |
| migrations, Terraform | the constraints and the workflow they create are modelled where a step relies on them |

Of the modelled parts, these details are abstracted: the call of `/respond` with its HTTP retries in
the delivery workflow (`Delivery` has its effect, `EmailIntake` its repetition), the extraction of
JSON from an answer of the model, the percentages of Realizer, the prose and citations of an
insight report, and what the document libraries make of a file.

## 6. Plan

The order is by how much of the system's behaviour rests on a part and by what a test would not
reach. What is left:

1. `CoachLoop`: the bounded tool loop; every tool call is answered before the next model call.
2. `PolicyFiles`: resolution of the `extends` chain, which ends or is refused.
3. Composition of `Attachments` with the capture of evidence in `EmailIntake`, which knows of an
   attachment only whether it is accepted and read.
4. The safety part of `EventuallySent`, as `WaitingEnds` is for `EventuallyLinked`: an instruction
   that is not SENT is held, delayed or can be claimed.
