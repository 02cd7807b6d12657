------------------------------ MODULE Assessment ------------------------------
(***************************************************************************)
(* The Assessment agent (oliver/utils/agents/assessment.py) on one email   *)
(* thread: the model decides whether a message is worth an assessment, the *)
(* evidence of the thread is interpreted by the model or scored by the     *)
(* rubric, and consolidate_dimensions combines the findings with the       *)
(* transition policy (module TransitionPolicy) and the weights (Scoring).  *)
(*                                                                         *)
(* The model is called through call_with_bounded_provider_retry            *)
(* (oliver/utils/model_provider.py): each call has an attempt counter and  *)
(* a deadline.  Time is in tenths of a second.  The stage of the thread,   *)
(* its policy and the evaluator mode do not change here.                   *)
(*                                                                         *)
(* Each request builds the text that is scored anew: every message of the  *)
(* thread, each text once, and behind them the attachments of this request *)
(* alone.  The messages only become more; attachments come and go.  The    *)
(* requests of the thread follow one another here; EmailIntake is about    *)
(* requests that overlap.                                                  *)
(*                                                                         *)
(* Abstracted: what the model reads (evidence cut to a bound, prompts),    *)
(* how an answer is found in a response, which transient status an error   *)
(* has, the wording of errors, provenance, and the second cleaning of the  *)
(* scored text: no quotation is left in the cleaned messages, and none of  *)
(* them writes about HTML.                                                 *)
(***************************************************************************)
EXTENDS TransitionPolicy, Scoring

CONSTANTS
    Situations,      \* evaluator modes, policy documents and messages a thread may start with
    Texts,           \* texts that may be written and scored
    Outputs,         \* findings and dimension values the model may answer with
    RequestTimeout,  \* OPENAI_REQUEST_TIMEOUT_SECONDS
    MaxRetries,      \* ASSESSMENT_RESPONSE_RETRIES
    Durations,       \* how long an attempt may take
    NoResult         \* the result of a thread that has not been assessed

\* What the messages of a thread contain: each pattern within one of them.  Whether a quantity
\* is in the first half can only be said of the text that is scored.
Writings == {t \in Texts : ~t.baseline}

ASSUME SituationAssumption ==
    Situations \subseteq [mode : {"llm", "rubric"}, policy : Policies, written : Writings]
ASSUME TextAssumption == Texts \subseteq Text
ASSUME OutputAssumption ==
    \A o \in Outputs :
        /\ \E ids \in SUBSET Criteria : o.findings \in [ids -> Finding]
        /\ o.values \in [Dimensions -> 0..100 \cup {Unscored}]
\* The ranges of the settings.
ASSUME RetryAssumption ==
    RequestTimeout \in 300..6000 /\ MaxRetries \in 0..2 /\ Durations \subseteq Nat

VARIABLES
    situation,  \* mode, policy and messages of the thread, and the text of the current request
    call,       \* what the agent is waiting for, its retries, the elapsed time, and (history)
                \* whether every attempt so far ended within the timeout it was given
    result      \* the last assessment, with the messages, text and findings it is based on

vars == <<situation, call, result>>

-----------------------------------------------------------------------------

NotCalling == [pc |-> "idle", retries |-> 0, elapsed |-> 0, timely |-> TRUE]

\* A call begins with its own counter and deadline.
Calling(pc) == [pc |-> pc, retries |-> 0, elapsed |-> 0, timely |-> TRUE]

\* A policy document that does not pass its validator is not loaded.
Loadable(policy) ==
    policy = NoPolicy \/ ValidTransitionPolicy(policy) \/ ValidTerminalPolicy(policy)

Init ==
    /\ \E s \in {x \in Situations : Loadable(x.policy)} :
          situation = [mode |-> s.mode, policy |-> s.policy, written |-> s.written,
                       text |-> s.written]
    /\ call = NotCalling
    /\ result = NoResult

\* u contains what was written in t, between, before and behind which more may stand.  The first
\* half of u is another one, and its cut can make or break a quantity.
Includes(u, t) ==
    /\ u.length >= t.length
    /\ \A field \in DOMAIN t \ {"length", "baseline"} : t[field] => u[field]

\* A request: more may have been written in the thread, and the attachments of this request
\* stand behind it.  The router is asked whether the message is worth an assessment.
Receive(written, text) ==
    /\ call.pc = "idle"
    /\ Includes(written, situation.written)
    /\ Includes(text, written)
    /\ situation' = [situation EXCEPT !.written = written, !.text = text]
    /\ call' = Calling("routing")
    /\ UNCHANGED result

Return == call' = NotCalling

-----------------------------------------------------------------------------
(* The bounded retry. *)

Budget == RequestTimeout * (MaxRetries + 1)

Remaining == Budget - call.elapsed

\* An attempt may start.
CanAttempt == call.pc # "idle" /\ Remaining > 0

LesserOf(a, b) == IF a <= b THEN a ELSE b

\* The n-th sleep before another attempt.  What remained when the attempt started bounds it.
Backoff(n) ==
    LesserOf(<<10, 20, 40, 80>>[LesserOf(n, 4)], IF Remaining > 1 THEN Remaining - 1 ELSE 0)

\* Mutated: one retry too many.
CanRetryOnceMore == call.retries <= MaxRetries

\* The failure of an attempt leads to another one.
CanRetry == call.retries < MaxRetries

\* A transient status, or an answer that does not keep its contract.
Retry(duration) ==
    /\ CanAttempt
    /\ CanRetry
    /\ call' = [call EXCEPT !.retries = @ + 1,
                            !.elapsed = @ + duration + Backoff(call.retries + 1),
                            !.timely = @ /\ duration <= LesserOf(RequestTimeout, Remaining)]
    /\ UNCHANGED <<situation, result>>

\* Any other error, or one attempt too many: the assessment fails.
GiveUp ==
    /\ CanAttempt
    /\ Return
    /\ UNCHANGED <<situation, result>>

\* The deadline has passed before another attempt: the last error is raised.
Expire ==
    /\ call.pc # "idle"
    /\ Remaining <= 0
    /\ Return
    /\ UNCHANGED <<situation, result>>

-----------------------------------------------------------------------------
(* The agent, when an attempt succeeds. *)

\* consolidate_dimensions.
Consolidate(findings, values) ==
    LET evaluation == Evaluate(situation.policy, findings)
    IN  [written               |-> situation.written,
         text                  |-> situation.text,
         findings              |-> findings,
         values                |-> values,
         composite_score       |-> Composite(values),
         gate_outcome          |-> evaluation.gate_outcome,
         advances              |-> evaluation.advances,
         requires_human_review |-> evaluation.requires_human_review,
         response_depth        |-> evaluation.response_depth]

Ids == IF situation.policy = NoPolicy THEN {} ELSE CriterionIds(situation.policy)

\* The rubric does not look at criteria: all of them are unknown.
Unevaluated == [c \in Ids |-> [state |-> "UNKNOWN", confidence |-> 0]]

\* The router declines, or there is nothing to assess.
Decline ==
    /\ CanAttempt
    /\ call.pc = "routing"
    /\ Return
    /\ UNCHANGED <<situation, result>>

\* The router accepts, and the rubric scores the thread.
ApplyRubric ==
    /\ CanAttempt
    /\ call.pc = "routing"
    /\ situation.mode = "rubric"
    /\ Assessable(situation.text)
    /\ result' = Consolidate(Unevaluated, RubricValues(situation.text))
    /\ Return
    /\ UNCHANGED situation

\* The router accepts, and the model is asked for findings.
RequestFindings ==
    /\ CanAttempt
    /\ call.pc = "routing"
    /\ situation.mode = "llm"
    /\ Assessable(situation.text)
    /\ call' = Calling("evaluating")
    /\ UNCHANGED <<situation, result>>

\* Mutated: findings about criteria nobody asked for are accepted.
AcceptsMore(output) == Ids \subseteq DOMAIN output.findings

\* The contract: findings about exactly the approved criteria.
Accepts(output) == DOMAIN output.findings = Ids

\* The model answers with findings that keep the contract.
Interpret(output) ==
    /\ CanAttempt
    /\ call.pc = "evaluating"
    /\ Accepts(output)
    /\ result' = Consolidate(output.findings, output.values)
    /\ Return
    /\ UNCHANGED situation

Next ==
    \/ \E written \in Writings, text \in Texts : Receive(written, text)
    \/ \E duration \in Durations : Retry(duration)
    \/ GiveUp
    \/ Expire
    \/ Decline
    \/ ApplyRubric
    \/ RequestFindings
    \/ \E output \in Outputs : Interpret(output)

Spec == Init /\ [][Next]_vars

-----------------------------------------------------------------------------

Outcomes ==
    {"DO_NOT_ADVANCE", "HOLD_FOR_EVIDENCE", "CONDITIONAL_ADVANCE", "ADVANCE", "CONTINUE_MONITORING"}

\* An assessment is about exactly the criteria of the thread's policy.
TypeOK ==
    /\ situation.written \in Writings /\ situation.text \in Texts
    /\ call \in [pc : {"idle", "routing", "evaluating"}, retries : 0..MaxRetries, elapsed : Nat,
                 timely : BOOLEAN]
    /\ result # NoResult =>
          /\ DOMAIN result.findings = Ids
          /\ result.gate_outcome \in Outcomes
          /\ result.composite_score \in 0..100 \cup {Unscored}

\* One total deadline: as long as the provider client keeps the timeouts it is given, the
\* sleeps between attempts never take a call past its deadline, although they are computed from
\* what remained before the attempt.
DeadlineKept == call.timely => call.elapsed <= Budget

\* Oliver may only move a stage without a person if every entry criterion is known to be met
\* or not to apply, no blocking condition is established, and no finding is in doubt.
GovernedAdvance ==
    LET policy == situation.policy
    IN  result # NoResult /\ result.advances /\ ~result.requires_human_review =>
          /\ ~policy.human_review_always
          /\ \A c \in InRole(policy, "ENTRY_CRITERION") :
                result.findings[c].state \in {"SATISFIED", "NOT_APPLICABLE"}
          /\ \A c \in InRole(policy, "BLOCKING_CONDITION") : result.findings[c].state # "CONCERN"
          /\ \A c \in Ids : \/ result.findings[c].confidence >= ConfidenceFloor
                            \/ result.findings[c].state \in {"UNKNOWN", "NOT_APPLICABLE"}

\* The fallback rubric never recommends a stage, whatever the policy: a thread that only the
\* rubric has scored stays where it is.
FallbackHolds ==
    situation.mode = "rubric" /\ result # NoResult => ~result.advances

\* A composite is shown exactly if all dimensions are known, and lies between them.
CompositeExplained ==
    result # NoResult =>
        IF KnownDimensions(result.values) # Dimensions THEN result.composite_score = Unscored
        ELSE /\ \E d \in Dimensions : result.values[d] <= result.composite_score
             /\ \E d \in Dimensions : result.composite_score <= result.values[d]

Rank ==
    [DO_NOT_ADVANCE |-> 0, HOLD_FOR_EVIDENCE |-> 1, CONDITIONAL_ADVANCE |-> 2, ADVANCE |-> 3,
     CONTINUE_MONITORING |-> 4]

\* New evidence settles criteria in the initiative's favour and leaves the others alone.
Settles(findings, later) ==
    /\ DOMAIN later = DOMAIN findings
    /\ \A c \in DOMAIN findings :
          \/ later[c].state = findings[c].state
          \/ later[c].state \in {"SATISFIED", "NOT_APPLICABLE"}
          \/ later[c].state = "UNKNOWN" /\ findings[c].state = "CONCERN"

\* More evidence never hurts: a reassessment whose findings are at least as good on every
\* criterion never has a worse outcome.
MoreEvidenceNeverHurts ==
    [][result # NoResult /\ result' # NoResult /\ Settles(result.findings, result'.findings)
         => Rank[result'.gate_outcome] >= Rank[result.gate_outcome]]_vars

\* A value that is unknown is no better than any other.
AtLeast(value, other) == other = Unscored \/ (value # Unscored /\ value >= other)

\* What the messages of a thread earned in the rubric is never lost: whatever is written later,
\* and whichever attachments come and go, no dimension falls below what the messages that were
\* assessed before are worth on their own, as long as the scored text stays bounded.
WrittenIsKept ==
    [][/\ situation.mode = "rubric"
       /\ result # NoResult /\ result' # NoResult
       /\ result'.text.length <= 1200
       => \A d \in Dimensions :
             AtLeast(result'.values[d], RubricValues(result.written)[d])]_vars

\* Not so in the code: that no dimension falls from one assessment to the next.  Attachments of
\* an earlier request are not scored again, and a message pushes them out of the first half
\* (docs/oliver-v1-architecture.md line 56 speaks of accumulated evidence).
AccumulatedIsKept ==
    [][/\ situation.mode = "rubric"
       /\ result # NoResult /\ result' # NoResult
       /\ result'.text.length <= 1200
       => \A d \in Dimensions : AtLeast(result'.values[d], result.values[d])]_vars

\* docs/adr/0003 line 94: the response depth is BRIEF for any unknown entry criterion.
UnknownEntryIsBrief ==
    /\ result # NoResult
    /\ \E c \in Ids : /\ situation.policy.role[c] = "ENTRY_CRITERION"
                      /\ result.findings[c].state = "UNKNOWN"
    => result.response_depth = "BRIEF"

=============================================================================
