------------------------------ MODULE EmailIntake ------------------------------
(***************************************************************************)
(* The intake of an email: POST /email/respond (oliver/routes/email.py,    *)
(* respond_to_email) and the Registrar (oliver/utils/registrar/service.py) *)
(* it calls.  A request recognises replays, stores the message, has it     *)
(* assessed and answered by agents, and commits the run together with the  *)
(* initiative, the evidence version and the outbound message.              *)
(*                                                                         *)
(* Each request has a database session of its own under READ COMMITTED.    *)
(* One step stands for the statements between two reads that another       *)
(* session can get in between of; the agents run inside these gaps, for    *)
(* minutes.  Requests are the calls of Logic App runs: one that fails with *)
(* a 5xx is sent again, one that is refused with a 4xx is not, and a call  *)
(* that timed out for the caller goes on here while the caller already     *)
(* repeats it as another request for the same email.                       *)
(*                                                                         *)
(* Scout writes initiatives too (oliver/utils/agents/scout.py, promote):   *)
(* with evidence and a first version of it, and without an assessment.     *)
(*                                                                         *)
(* Abstracted: texts (payload names what _is_replayed_message compares:    *)
(* sender, subject and authored body), title and owner (pilot names both), *)
(* embeddings and related threads, the assessment itself and the lifecycle *)
(* it drives (module Lifecycle; here a stage is the first or a later one,  *)
(* and an initiative that advances does so with its first assessment), how *)
(* attachments are checked and extracted (module Attachments; here those   *)
(* that are accepted are read), messages without any authored text, and    *)
(* the rest of a delivery (module Delivery): a run that answers has its    *)
(* outbound message.                                                       *)
(***************************************************************************)
EXTENDS Naturals, Sequences, FiniteSets

CONSTANTS
    Requests,       \* calls of /respond
    MessageIds,     \* internet message ids, brought to canonical form
    Payloads,       \* what distinguishes one email from another, whatever its id
    Conversations,  \* conversation ids; a thread is named by the one it was created for
    Pilots,         \* owner and title
    Mailboxes,      \* the emails the requests may be about, one function for each mailbox
    Promoted,       \* the initiatives Scout's candidates may become
    Advancing,      \* the initiatives that leave the first stage with their first assessment
    MaxFaults,      \* bound: provider errors, lifecycle conflicts and crashes
    Nothing         \* no initiative, no thread, no message

Initiatives == Requests \cup Promoted

EmailRecord ==
    [id : MessageIds, payload : Payloads, conversation : Conversations, pilot : Pilots,
     is_reply : BOOLEAN, attached : BOOLEAN, acceptable : BOOLEAN]

ASSUME MailboxAssumption == Mailboxes \subseteq [Requests -> EmailRecord]
\* A message id stands for one email, however often and by whom it is presented.
ASSUME IdentityAssumption ==
    \A mailbox \in Mailboxes : \A p, q \in Requests :
        mailbox[p].id = mailbox[q].id => mailbox[p].payload = mailbox[q].payload
ASSUME FaultAssumption == MaxFaults \in Nat
ASSUME PromotedAssumption == Promoted \cap Requests = {} /\ Advancing \subseteq Initiatives
ASSUME NothingAssumption ==
    Nothing \notin Initiatives /\ Nothing \notin Conversations /\ Nothing \notin MessageIds

VARIABLES
    email,      \* the email each request is about; never changes
    thread,     \* email_threads: pilot and initiative of each stored thread
    message,    \* email_messages that are inbound: thread and payload of each stored one
    initiative, \* initiatives: the pilot of each; an initiative of the intake is named
                \* by the request that created it
    evidence,   \* evidence_items of each initiative
    version,    \* evidence_versions of each initiative: the items of each, by number
    run,        \* oliver_runs with what they refer to, in the order of their commits
    session,    \* the progress of each request
    faults      \* how many faults have happened

tables == <<thread, message, initiative, evidence, version, run>>
vars == <<email, tables, session, faults>>

-----------------------------------------------------------------------------

Sources == ({"message", "attachment"} \X MessageIds) \cup ({"scout"} \X Promoted)
Actions == {"NO_REPLY", "REPLY", "ASSESSMENT"}
Steps == {"idle", "unknown", "storing", "stored", "assessed", "linking", "resolved",
          "captured", "ready", "answered", "refused"}

\* A request that has not read anything yet.
Start ==
    [pc |-> "idle", late |-> FALSE, thread |-> Nothing, new_thread |-> FALSE, renames |-> FALSE,
     message |-> Nothing, read |-> {}, first |-> TRUE, action |-> "NO_REPLY", link |-> Nothing,
     initiative |-> Nothing, items |-> {}, new_items |-> {}, number |-> 0]

Put(f, k, value) == [x \in DOMAIN f \cup {k} |-> IF x = k THEN value ELSE f[x]]

Init ==
    /\ email \in Mailboxes
    /\ thread = << >>
    /\ message = << >>
    /\ initiative = << >>
    /\ evidence = [i \in Initiatives |-> {}]
    /\ version = [i \in Initiatives |-> << >>]
    /\ run = << >>
    /\ session = [q \in Requests |-> Start]
    /\ faults = 0

HasRun(m) == \E n \in DOMAIN run : run[n].message = m

\* The thread holds a message of Oliver's: one of its runs answered.
HasOutbound(t) == \E n \in DOMAIN run : run[n].thread = t /\ run[n].action # "NO_REPLY"

\* Stored messages that are the same email under whatever id.
Copies(payload) == {m \in DOMAIN message : message[m].payload = payload}

InProgress == {q \in Requests : session[q].pc \notin {"idle", "answered", "refused"}}

\* History: an answer to the request's email was committed before the request came, and
\* no other request is working on that email.
AnsweredBefore(q) ==
    \/ HasRun(email[q].id)
    \/ /\ \E m \in DOMAIN message : message[m].payload = email[q].payload
       /\ \A m \in Copies(email[q].payload) :
             HasRun(m) /\ message[m].thread = email[q].conversation
       /\ \A p \in InProgress : email[p].payload # email[q].payload

-----------------------------------------------------------------------------

\* The session of q goes on: its record after the step.  Every action is such a step.
Continue(q, record) ==
    /\ session' = [session EXCEPT ![q] = record]
    /\ UNCHANGED email

Goes(q, step) == [session[q] EXCEPT !.pc = step]

\* The answer of a run is returned.
Answered == [Start EXCEPT !.pc = "answered"]

\* The request is refused with a 4xx, which nobody repeats.
Refused == [Start EXCEPT !.pc = "refused"]

Replay(q) == Continue(q, Answered)

\* Mutated: a stored message is answered as a replay even if it has no run.
AnyStored(m) == TRUE

\* A stored message is a replay only if a run was committed for it.
IsAnswered(m) == HasRun(m)

\* The message is looked up by its id, then its latest run.
Lookup(q) ==
    LET m == email[q].id
    IN  /\ session[q].pc = "idle"
        /\ \/ /\ m \notin DOMAIN message
              /\ Continue(q, [Start EXCEPT !.pc = "unknown", !.late = AnsweredBefore(q)])
           \/ /\ m \in DOMAIN message
              /\ IsAnswered(m)
              /\ Replay(q)
           \/ /\ m \in DOMAIN message
              /\ ~IsAnswered(m)
              /\ Continue(q, [Start EXCEPT !.pc = "stored", !.late = AnsweredBefore(q),
                                           !.message = m, !.thread = message[m].thread])
        /\ UNCHANGED <<tables, faults>>

\* Threads a message without a stored conversation may continue: a reply to an answer of
\* Oliver's about the same pilot.  The code takes the one updated last.
ReplyThreads(q) ==
    {t \in DOMAIN thread :
        email[q].is_reply /\ thread[t].pilot = email[q].pilot /\ HasOutbound(t)}

\* The thread of the request, if one is stored.
ThreadsOf(q) ==
    IF email[q].conversation \in DOMAIN thread THEN {email[q].conversation}
    ELSE ReplyThreads(q)

\* Mutated: messages are compared by their id only.
SameId(q, t) == {m \in DOMAIN message : message[m].thread = t /\ m = email[q].id}

\* Messages of the thread that are the same email under another id.
CopiesIn(q, t) == Copies(email[q].payload) \cap {m \in DOMAIN message : message[m].thread = t}

\* The thread is looked up, and the messages of a known thread are compared with this one.
MatchThread(q) ==
    /\ session[q].pc = "unknown"
    /\ \/ /\ ThreadsOf(q) = {}
          /\ Continue(q, [Goes(q, "storing") EXCEPT !.thread = email[q].conversation,
                                                    !.new_thread = TRUE])
       \/ \E t \in ThreadsOf(q) :
             \/ /\ CopiesIn(q, t) = {}
                /\ Continue(q, [Goes(q, "storing") EXCEPT !.thread = t])
             \/ \E m \in CopiesIn(q, t) :
                   \/ HasRun(m) /\ Replay(q)
                   \/ /\ ~HasRun(m)
                      /\ Continue(q, [Goes(q, "stored") EXCEPT !.thread = t, !.message = m,
                                                               !.renames = TRUE])
    /\ UNCHANGED <<tables, faults>>

\* A known thread takes the subject and the participant of its newest email.
Renamed(q) == [thread EXCEPT ![session[q].thread].pilot = email[q].pilot]

\* The message is inserted, with its thread if that is new.  The unique constraints on
\* the message id and on the conversation id fail the request if another was faster.
Store(q) ==
    LET m == email[q].id
        t == session[q].thread
    IN  /\ session[q].pc = "storing"
        /\ \/ /\ m \notin DOMAIN message
              /\ session[q].new_thread => t \notin DOMAIN thread
              /\ thread' = IF session[q].new_thread
                             THEN Put(thread, t, [pilot |-> email[q].pilot, initiative |-> Nothing])
                             ELSE Renamed(q)
              /\ message' = Put(message, m, [thread |-> t, payload |-> email[q].payload])
              /\ Continue(q, [Goes(q, "stored") EXCEPT !.message = m])
           \/ /\ m \in DOMAIN message \/ (session[q].new_thread /\ t \in DOMAIN thread)
              /\ Continue(q, Start)
              /\ UNCHANGED <<thread, message>>
        /\ UNCHANGED <<initiative, evidence, version, run, faults>>

\* What an assessment reads: every inbound message of the thread, and the attachments of
\* this request.
Read(q) ==
    LET inbound == {m \in DOMAIN message : message[m].thread = session[q].thread}
    IN  ({"message"} \X inbound)
            \cup (IF email[q].attached THEN {<<"attachment", session[q].message>>} ELSE {})

Assessed == {n \in DOMAIN run : run[n].action = "ASSESSMENT"}

\* The initiative is in the stage it was created in.
AtFirstStage(i) == i \notin Advancing \/ \A n \in Assessed : run[n].initiative # i

\* The stage to assess is that of the thread's initiative, and the first if it has none.
FirstStage(q) ==
    LET link == thread[session[q].thread].initiative
    IN  link # Nothing => AtFirstStage(link)

\* Attachments are stored, the thread is read and assessed; the thread's texts are committed.
Assess(q) ==
    /\ session[q].pc = "stored"
    /\ email[q].acceptable
    /\ Continue(q, [Goes(q, "assessed") EXCEPT !.read = Read(q), !.first = FirstStage(q)])
    /\ thread' = IF session[q].renames THEN Renamed(q) ELSE thread
    /\ UNCHANGED <<message, initiative, evidence, version, run, faults>>

\* An attachment is not acceptable: what is not committed is rolled back, and the request is
\* refused with 422.  The message has been committed before.
RefuseAttachment(q) ==
    /\ session[q].pc = "stored"
    /\ ~email[q].acceptable
    /\ Continue(q, Refused)
    /\ UNCHANGED <<tables, faults>>

\* The coach decides on the answer.  The thread is loaded anew for it, once: the link to
\* an initiative read here is the one ensure_initiative will see.
Coach(q) ==
    /\ session[q].pc = "assessed"
    /\ \E action \in Actions :
          Continue(q, [session[q] EXCEPT !.pc = IF action = "ASSESSMENT" THEN "linking" ELSE "ready",
                                         !.action = action,
                                         !.link = thread[session[q].thread].initiative])
    /\ UNCHANGED <<tables, faults>>

\* Initiatives with the owner and title of the thread, looked for in a thread that holds
\* an answer of Oliver's.  The code takes the one updated last.
Matching(t) == {i \in DOMAIN initiative : HasOutbound(t) /\ initiative[i] = thread[t].pilot}

\* Mutated: a new initiative is committed at once.
CommitsEarly(q) == Put(initiative, q, thread[session[q].thread].pilot)

\* A new initiative is flushed but not committed.
FlushesNew(q) == initiative

\* ensure_initiative: the linked initiative, a matching one, or a new one.
EnsureInitiative(q) ==
    LET resolved(i) == Continue(q, [Goes(q, "resolved") EXCEPT !.initiative = i])
        t           == session[q].thread
    IN  /\ session[q].pc = "linking"
        /\ \/ /\ session[q].link # Nothing
              /\ resolved(session[q].link)
              /\ UNCHANGED initiative
           \/ /\ session[q].link = Nothing
              /\ \E i \in Matching(t) : resolved(i)
              /\ UNCHANGED initiative
           \/ /\ session[q].link = Nothing
              /\ Matching(t) = {}
              /\ resolved(q)
              /\ initiative' = FlushesNew(q)
        /\ UNCHANGED <<thread, message, evidence, version, run, faults>>

\* Mutated: a source that is evidence of any initiative is not captured again.
CapturedAnywhere(q) == UNION {evidence[i] : i \in Initiatives}

\* Sources that are evidence of the session's initiative already.
Captured(q) == evidence[session[q].initiative]

\* capture_message_evidence adds the sources that are missing and reads all items back.
CaptureEvidence(q) ==
    LET added == session[q].read \ Captured(q)
    IN  /\ session[q].pc = "resolved"
        /\ Continue(q, [Goes(q, "captured") EXCEPT
                            !.new_items = added,
                            !.items = evidence[session[q].initiative] \cup added])
        /\ UNCHANGED <<tables, faults>>

\* The version with exactly these items is reused, or the next number is taken.
NumberVersion(q) ==
    LET versions == version[session[q].initiative]
        same     == {n \in DOMAIN versions : versions[n] = session[q].items}
    IN  /\ session[q].pc = "captured"
        /\ \/ \E n \in same : Continue(q, [Goes(q, "ready") EXCEPT !.number = n])
           \/ /\ same = {}
              /\ Continue(q, [Goes(q, "ready") EXCEPT !.number = Len(versions) + 1])
        /\ UNCHANGED <<tables, faults>>

\* The assessment is of the stage the initiative is in: process_assessment insists on it.
SameStage(q) == session[q].first <=> AtFirstStage(session[q].initiative)

\* The unique constraints on items, version numbers and fingerprints hold at the commit:
\* no other session has inserted what this one inserts.
NoConflict(q) ==
    LET s == session[q]
    IN  /\ SameStage(q)
        /\ s.new_items \cap evidence[s.initiative] = {}
        /\ \/ s.number = Len(version[s.initiative]) + 1
           \/ s.number \in DOMAIN version[s.initiative] /\ version[s.initiative][s.number] = s.items

RunRow(q) ==
    [message |-> session[q].message, thread |-> session[q].thread,
     action |-> session[q].action, initiative |-> session[q].initiative,
     version |-> session[q].number, assessed |-> session[q].read, late |-> session[q].late]

\* A run that is not an assessment: the run and its outbound message are committed.
CommitRun(q) ==
    /\ session[q].pc = "ready"
    /\ session[q].action # "ASSESSMENT"
    /\ run' = Append(run, RunRow(q))
    /\ Continue(q, Answered)
    /\ UNCHANGED <<thread, message, initiative, evidence, version, faults>>

\* An initiative that ensure_initiative created is committed with the assessment.
WithNewInitiative(q) ==
    IF session[q].initiative = q THEN Put(initiative, q, thread[session[q].thread].pilot)
    ELSE initiative

\* An assessment: the initiative and its link, the evidence and the run are committed.
CommitAssessment(q) ==
    LET s == session[q]
    IN  /\ s.pc = "ready"
        /\ s.action = "ASSESSMENT"
        /\ NoConflict(q)
        /\ thread' = IF s.link = Nothing THEN [thread EXCEPT ![s.thread].initiative = s.initiative]
                     ELSE thread
        /\ initiative' = WithNewInitiative(q)
        /\ evidence' = [evidence EXCEPT ![s.initiative] = @ \cup s.new_items]
        /\ version' = [version EXCEPT ![s.initiative] =
                          IF s.number \in DOMAIN @ THEN @ ELSE Append(@, s.items)]
        /\ run' = Append(run, RunRow(q))
        /\ Continue(q, Answered)
        /\ UNCHANGED <<message, faults>>

\* The assessed stage is not the initiative's, or a unique constraint is violated.  Neither
\* LifecycleConflictError nor IntegrityError is caught: the transaction is rolled back, and the
\* caller, who gets a 500, tries again.
Conflict(q) ==
    /\ session[q].pc = "ready"
    /\ session[q].action = "ASSESSMENT"
    /\ ~NoConflict(q)
    /\ Continue(q, Start)
    /\ UNCHANGED <<tables, faults>>

\* An agent's provider fails (502), the initiative's version has changed (500), or the server
\* dies: what is not committed is lost, and the caller tries again.
Fail(q) ==
    /\ q \in InProgress
    /\ faults < MaxFaults
    /\ faults' = faults + 1
    /\ Continue(q, Start)
    /\ UNCHANGED tables

\* The answer does not reach the caller, who sends the email again.
LoseAnswer(q) ==
    /\ session[q].pc \in {"answered", "refused"}
    /\ faults < MaxFaults
    /\ faults' = faults + 1
    /\ Continue(q, Start)
    /\ UNCHANGED tables

\* ScoutWorkflow.promote makes an initiative of a candidate, whose owner and title may be those
\* of a thread.
Promote(i) ==
    /\ i \notin DOMAIN initiative
    /\ \E pilot \in Pilots : initiative' = Put(initiative, i, pilot)
    /\ evidence' = [evidence EXCEPT ![i] = {<<"scout", i>>}]
    /\ version' = [version EXCEPT ![i] = <<{<<"scout", i>>}>>]
    /\ UNCHANGED <<email, thread, message, run, session, faults>>

Advance(q) ==
    \/ Lookup(q)
    \/ MatchThread(q)
    \/ Store(q)
    \/ Assess(q)
    \/ RefuseAttachment(q)
    \/ Coach(q)
    \/ EnsureInitiative(q)
    \/ CaptureEvidence(q)
    \/ NumberVersion(q)
    \/ CommitRun(q)
    \/ CommitAssessment(q)
    \/ Conflict(q)

Next ==
    \/ \E q \in Requests : Advance(q) \/ Fail(q) \/ LoseAnswer(q)
    \/ \E i \in Promoted : Promote(i)

Spec == Init /\ [][Next]_vars

\* A request that is being handled goes on, and a caller whose request failed repeats it.
FairSpec == Spec /\ \A q \in Requests : WF_vars(Advance(q))

-----------------------------------------------------------------------------

TypeOK ==
    /\ DOMAIN thread \subseteq Conversations
    /\ \A t \in DOMAIN thread :
          thread[t] \in [pilot : Pilots, initiative : DOMAIN initiative \cup {Nothing}]
    /\ DOMAIN message \subseteq MessageIds
    /\ \A m \in DOMAIN message : message[m] \in [thread : DOMAIN thread, payload : Payloads]
    /\ DOMAIN initiative \subseteq Initiatives
    /\ \A i \in DOMAIN initiative : initiative[i] \in Pilots
    /\ evidence \in [Initiatives -> SUBSET Sources]
    /\ version \in [Initiatives -> Seq(SUBSET Sources)]
    /\ run \in Seq([message : DOMAIN message, thread : DOMAIN thread, action : Actions,
                     initiative : DOMAIN initiative \cup {Nothing}, version : Nat,
                     assessed : SUBSET Sources, late : BOOLEAN])
    /\ \A q \in Requests : session[q].pc \in Steps
    /\ faults \in 0..MaxFaults

\* A request for an email whose answer was committed before it came, under the same message
\* id or another, never assesses or answers that email a second time.
ReplayAddsNothing == \A n \in DOMAIN run : ~run[n].late

\* The evidence version an assessment refers to holds everything the assessment read.
SnapshotCoversAssessment ==
    \A n \in Assessed :
        /\ run[n].version \in DOMAIN version[run[n].initiative]
        /\ run[n].assessed \subseteq version[run[n].initiative][run[n].version]

\* The intake makes no initiative without an assessment of it: a request that fails half-way
\* leaves nothing behind in the portfolio.  Only Scout's initiatives wait for their first one.
NoOrphanInitiative ==
    \A i \in DOMAIN initiative \ Promoted : \E n \in Assessed : run[n].initiative = i

\* A thread without an initiative, for which ensure_initiative finds one past the first stage:
\* whatever is assessed in it is of the wrong stage.
Mismatched(t) ==
    t \in DOMAIN thread /\ thread[t].initiative = Nothing /\ \E i \in Matching(t) : ~AtFirstStage(i)

\* A stored message is eventually answered, even if the request that stored it failed or
\* lost a race: the repeated request finds the message without a run and carries on.  Two kinds
\* of messages are stored for nothing: those that came with an attachment that is refused
\* (routes/email.py:291, after the commit in line 288), and those in a thread that stays
\* mismatched, each repetition of which ends in a LifecycleConflictError.
StoredIsAnswered ==
    \A m \in MessageIds :
        \/ /\ m \in DOMAIN message
           /\ \A q \in Requests : email[q].id = m => email[q].acceptable
           ~> HasRun(m)
        \/ <>[](m \in DOMAIN message /\ Mismatched(message[m].thread))

\* docs/04 line 183: retries create no duplicate message, assessment, event or delivery.
OneRunPerMessage ==
    \A m, n \in DOMAIN run : run[m].message = run[n].message => m = n

\* The docstring of ensure_initiative: a thread that was assessed has a single initiative.
OneInitiativePerThread ==
    \A m, n \in Assessed : run[m].thread = run[n].thread => run[m].initiative = run[n].initiative

\* docs/04 line 290: the evidence snapshot is the exact source set used by an assessment.
SnapshotIsExact ==
    \A n \in Assessed : version[run[n].initiative][run[n].version] = run[n].assessed

=============================================================================
