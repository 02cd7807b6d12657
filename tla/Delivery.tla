------------------------------- MODULE Delivery -------------------------------
(***************************************************************************)
(* Outbound email: Herald's tables delivery_outbox and delivery_attempts   *)
(* (oliver/utils/herald/service.py), the delivery routes of                *)
(* oliver/routes/email.py and their clients.  The clients are the Logic    *)
(* App workflow in infrastructure/workflow, which replies to an email as   *)
(* soon as /respond has results, and the pollers the route                *)
(* /deliveries/pending is made for, which claim due instructions.          *)
(*                                                                         *)
(* A sender (a workflow run or a poller) sends one email at a time and     *)
(* reports the result under the idempotency key of that attempt, again and *)
(* again until an answer reaches it.  It can fail, crash, or be told of a  *)
(* failure although the email went out; MaxFaults bounds how often.        *)
(*                                                                         *)
(* Time is abstract: wait counts down to next_attempt_at.  Abstracted: the *)
(* email itself, provider identifiers, error texts, timestamps, the audit  *)
(* event of a result (same transaction) and the order in which a batch of  *)
(* due instructions is claimed.  An attempt's key contains its delivery's  *)
(* identifier, so the 404 for a key of another delivery cannot happen.     *)
(***************************************************************************)
EXTENDS Naturals, Sequences, FiniteSets

CONSTANTS
    Deliveries,         \* identifiers of instructions, one for each run that answers
    Workflows,          \* workflow runs that get an answer from /respond
    Pollers,            \* clients of /deliveries/pending
    VisibilityTimeout,  \* DELIVERY_VISIBILITY_TIMEOUT_SECONDS, in units of time
    BaseDelay,          \* 60 seconds
    MaxDelay,           \* 3600 seconds
    MaxFaults,          \* bound: failures, timeouts and crashes of senders
    NoDelivery          \* the delivery of a sender that is idle

ASSUME TimeAssumption ==
    /\ VisibilityTimeout \in Nat \ {0}
    /\ BaseDelay \in Nat \ {0}
    /\ MaxDelay \in Nat \ {0}
    /\ MaxFaults \in Nat
ASSUME SendersAssumption ==
    Workflows \cap Pollers = {} /\ IsFiniteSet(Workflows) /\ IsFiniteSet(Pollers)
ASSUME NoDeliveryAssumption == NoDelivery \notin Deliveries

VARIABLES
    instruction, \* the delivery_outbox row of each delivery: status and attempt_count
    wait,        \* the time until its next_attempt_at; 0 when it is due
    sender,      \* what each sender is doing, and about which delivery
    recorded,    \* senders whose attempt has its delivery_attempts row
    held,        \* history: the time for which the last claim is exclusive
    results,     \* history: results that were recorded or still will be, by delivery
    mailed,      \* history: emails that left the mailbox, by delivery
    faults       \* how many faults have happened

herald == <<instruction, wait, recorded>>
vars == <<instruction, wait, sender, recorded, held, results, mailed, faults>>

-----------------------------------------------------------------------------

Senders == Workflows \cup Pollers
Statuses == {"NONE", "PENDING", "FAILED", "SENT"}

MinOf(a, b) == IF a <= b THEN a ELSE b

Doublings == <<1, 2, 4, 8, 16, 32, 64>>

\* Mutated: the delay is not capped.
UncappedBackoff(n) == BaseDelay * Doublings[MinOf(n, 7)]

\* The time between a failed attempt and the next one, attempt_count being n.
Backoff(n) == MinOf(MaxDelay, BaseDelay * Doublings[MinOf(n, 7)])

\* Mutated: failed instructions are not selected again.
SelectedOnce == {"PENDING"}

\* The statuses pending selects.
Selected == {"PENDING", "FAILED"}

Due(d) == instruction[d].status \in Selected /\ wait[d] = 0

Idle == [phase |-> "idle", delivery |-> NoDelivery]

Init ==
    /\ instruction = [d \in Deliveries |-> [status |-> "NONE", attempt_count |-> 0]]
    /\ wait = [d \in Deliveries |-> 0]
    /\ sender = [s \in Senders |-> Idle]
    /\ recorded = {}
    /\ held = [d \in Deliveries |-> 0]
    /\ results = [d \in Deliveries |-> 0]
    /\ mailed = [d \in Deliveries |-> 0]
    /\ faults = 0

-----------------------------------------------------------------------------

\* /respond commits a run with its outbound message and its instruction, due at once.
Enqueue(d) ==
    /\ instruction[d].status = "NONE"
    /\ instruction' = [instruction EXCEPT ![d].status = "PENDING"]
    /\ UNCHANGED <<wait, sender, recorded, held, results, mailed, faults>>

Begin(s, d) == sender' = [sender EXCEPT ![s] = [phase |-> "sending", delivery |-> d]]

\* /respond answers a workflow run, the first one or a replay of the same email, with
\* the action and the instruction.  The workflow looks at the action only.
Instruct(w, d) ==
    /\ sender[w] = Idle
    /\ instruction[d].status # "NONE"
    /\ Begin(w, d)
    /\ UNCHANGED <<herald, held, results, mailed, faults>>

\* Mutated: claims do not move next_attempt_at.
WaitUnclaimed(d) == wait

\* A claim makes an instruction invisible for the timeout.
WaitOnceClaimed(d) == [wait EXCEPT ![d] = VisibilityTimeout]

\* /deliveries/pending hands a due instruction to a poller.  A batch is several such
\* steps; a row that a result is being recorded for is skipped, as if asked later.
Claim(p, d) ==
    /\ sender[p] = Idle
    /\ Due(d)
    /\ wait' = WaitOnceClaimed(d)
    /\ held' = [held EXCEPT ![d] = VisibilityTimeout]
    /\ Begin(p, d)
    /\ UNCHANGED <<instruction, recorded, results, mailed, faults>>

\* The sender knows the outcome of its attempt; the key of the attempt is new.
Conclude(s, outcome) ==
    /\ sender' = [sender EXCEPT ![s].phase = outcome]
    /\ results' = [results EXCEPT ![sender[s].delivery] = @ + 1]
    /\ UNCHANGED <<herald, held>>

\* The mail provider accepted the email.
Send(s) ==
    /\ sender[s].phase = "sending"
    /\ mailed' = [mailed EXCEPT ![sender[s].delivery] = @ + 1]
    /\ Conclude(s, "SENT")
    /\ UNCHANGED faults

\* The provider refused the email, or its answer timed out though the email went out.
FailToSend(s) ==
    /\ sender[s].phase = "sending"
    /\ faults < MaxFaults
    /\ faults' = faults + 1
    /\ \/ mailed' = [mailed EXCEPT ![sender[s].delivery] = @ + 1]
       \/ UNCHANGED mailed
    /\ Conclude(s, "FAILED")

-----------------------------------------------------------------------------

\* Mutated: every report counts.
AnyKey(s) == TRUE

\* No delivery_attempts row has the idempotency key of the attempt.
NewKey(s) == s \notin recorded

\* Mutated: a failure is recorded whatever the status was.
FailureOverwrites(row) == TRUE

\* A failure does not change an instruction that a success was recorded for.
FailureCounts(row) == row.status # "SENT"

\* Mutated: the workflow's failure branch reports SENT.
AlwaysSent(outcome) == "SENT"

\* The outcome in the body of the report.
Reported(outcome) == outcome

\* record_result: the row is locked, so the whole handler is one step.
RecordResult(s) ==
    LET d       == sender[s].delivery
        attempt == instruction[d].attempt_count + 1
        outcome == Reported(sender[s].phase)
    IN  /\ sender[s].phase \in {"SENT", "FAILED"}
        /\ NewKey(s)
        /\ recorded' = recorded \cup {s}
        /\ \/ /\ outcome = "SENT"
              /\ instruction' = [instruction EXCEPT ![d] = [status |-> "SENT", attempt_count |-> attempt]]
              /\ UNCHANGED <<wait, held>>
           \/ /\ outcome = "FAILED"
              /\ FailureCounts(instruction[d])
              /\ instruction' = [instruction EXCEPT ![d] = [status |-> "FAILED", attempt_count |-> attempt]]
              /\ wait' = [wait EXCEPT ![d] = Backoff(attempt)]
              /\ held' = [held EXCEPT ![d] = MinOf(@, Backoff(attempt))]
           \/ /\ outcome = "FAILED"
              /\ ~FailureCounts(instruction[d])
              /\ instruction' = [instruction EXCEPT ![d].attempt_count = attempt]
              /\ UNCHANGED <<wait, held>>
        /\ UNCHANGED <<sender, results, mailed, faults>>

\* A workflow run ends with its report; a poller takes the next instruction.
Rest(s) ==
    sender' = [sender EXCEPT ![s] = IF s \in Pollers THEN Idle ELSE [Idle EXCEPT !.phase = "ended"]]

\* The answer to a report reaches the sender: nothing is sent under this key again.
\* A report repeated before that changes nothing.
Acknowledge(s) ==
    /\ s \in recorded
    /\ sender[s].phase \in {"SENT", "FAILED"}
    /\ recorded' = recorded \ {s}
    /\ Rest(s)
    /\ UNCHANGED <<instruction, wait, held, results, mailed, faults>>

\* A sender dies before it knows its outcome, before or after the email left, or
\* before it could report it.
Crash(s) ==
    /\ s \notin recorded
    /\ faults < MaxFaults
    /\ faults' = faults + 1
    /\ \/ /\ sender[s].phase = "sending"
          /\ \/ mailed' = [mailed EXCEPT ![sender[s].delivery] = @ + 1]
             \/ UNCHANGED mailed
          /\ UNCHANGED results
       \/ /\ sender[s].phase \in {"SENT", "FAILED"}
          /\ results' = [results EXCEPT ![sender[s].delivery] = @ - 1]
          /\ UNCHANGED mailed
    /\ Rest(s)
    /\ UNCHANGED <<herald, held>>

\* Time passes.
Tick ==
    /\ \E d \in Deliveries : wait[d] > 0 \/ held[d] > 0
    /\ wait' = [d \in Deliveries |-> IF wait[d] > 0 THEN wait[d] - 1 ELSE 0]
    /\ held' = [d \in Deliveries |-> IF held[d] > 0 THEN held[d] - 1 ELSE 0]
    /\ UNCHANGED <<instruction, sender, recorded, results, mailed, faults>>

Next ==
    \/ \E d \in Deliveries : Enqueue(d)
    \/ \E w \in Workflows, d \in Deliveries : Instruct(w, d)
    \/ \E p \in Pollers, d \in Deliveries : Claim(p, d)
    \/ \E s \in Senders : Send(s) \/ FailToSend(s) \/ RecordResult(s) \/ Acknowledge(s) \/ Crash(s)
    \/ Tick

Spec == Init /\ [][Next]_vars

\* What the clients and the clock owe: time passes, pollers keep polling, and a sender
\* that has not crashed sends, reports and ends.  Nothing obliges a workflow run to come.
Fairness ==
    /\ WF_vars(Tick)
    /\ \A d \in Deliveries : WF_vars(\E p \in Pollers : Claim(p, d))
    /\ \A s \in Senders : WF_vars(Send(s)) /\ WF_vars(RecordResult(s)) /\ WF_vars(Acknowledge(s))

FairSpec == Spec /\ Fairness

-----------------------------------------------------------------------------

\* No instruction is ever put off by more than the longest delay the code knows.
LongestWait == 0..(IF VisibilityTimeout <= MaxDelay THEN MaxDelay ELSE VisibilityTimeout)

TypeOK ==
    /\ instruction \in [Deliveries -> [status : Statuses, attempt_count : Nat]]
    /\ wait \in [Deliveries -> LongestWait]
    /\ sender \in [Senders -> [phase : {"idle", "sending", "SENT", "FAILED", "ended"},
                               delivery : Deliveries \cup {NoDelivery}]]
    /\ recorded \subseteq Senders
    /\ held \in [Deliveries -> LongestWait]
    /\ results \in [Deliveries -> Nat]
    /\ mailed \in [Deliveries -> Nat]
    /\ faults \in 0..MaxFaults

\* Senders that know an outcome of d that is not recorded yet.
Unreported(d) ==
    {s \in Senders \ recorded : sender[s].phase \in {"SENT", "FAILED"} /\ sender[s].delivery = d}

\* attempt_count counts every attempt whose result reached Herald exactly once, however
\* often the result was reported, in whatever order, by however many senders.
AttemptsCountedOnce ==
    \A d \in Deliveries : instruction[d].attempt_count + Cardinality(Unreported(d)) = results[d]

\* An instruction is only shown as sent if an email really left the mailbox for it.
SentWasMailed ==
    \A d \in Deliveries : instruction[d].status = "SENT" => mailed[d] > 0

\* A claimed instruction is not given to another poller before the visibility timeout has
\* passed, unless a failed send was reported since, and then not before its backoff.
ClaimRespected ==
    \A d \in Deliveries : Due(d) => held[d] = 0

\* Once a success is recorded, no late or repeated failure report undoes it.
SentIsFinal ==
    [][\A d \in Deliveries :
         instruction[d].status = "SENT" => instruction'[d].status = "SENT"]_vars

\* No poller is given an instruction that a success was recorded for.
SentNotHandedOut ==
    [][\A p \in Pollers, d \in Deliveries :
         /\ sender[p] = Idle
         /\ sender'[p].delivery = d
         => instruction[d].status # "SENT"]_vars

\* Every instruction that was committed is eventually sent and shown as sent: it survives
\* failures, crashes of its senders and lost reports, as long as these do not go on forever.
EventuallySent ==
    \A d \in Deliveries :
        instruction[d].status = "PENDING" ~> instruction[d].status = "SENT"

\* The comment at routes/email.py:237: a replay of an email cannot produce another
\* outbound email for the same payload.
OneEmailPerDelivery ==
    \A d \in Deliveries : mailed[d] <= 1

=============================================================================
