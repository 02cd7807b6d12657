------------------------------ MODULE AdminViews ------------------------------
(***************************************************************************)
(* The pages an administrator reads while emails are being taken in: the   *)
(* read API of the dashboard (admin-dashboard/backend/app/routers/         *)
(* email_threads.py and initiatives.py) over the tables that EmailIntake   *)
(* writes.                                                                 *)
(*                                                                         *)
(* A page is assembled from several statements under READ COMMITTED, each  *)
(* of which sees what was committed until then; emails are assessed and    *)
(* answered in between.  selectinload reads a thread first, then its       *)
(* messages, then its runs (the order of the mapped attributes).  A list   *)
(* is one statement.                                                       *)
(*                                                                         *)
(* Abstracted: the texts of messages and how they are shown, deliveries,   *)
(* related threads, the ledger and the audit trail of an initiative, and   *)
(* all times: which of several rows is the newest is left open.            *)
(***************************************************************************)
EXTENDS EmailIntake

VARIABLE
    page    \* the page one administrator opens, as far as it has been read

pageVars == <<vars, page>>

\* Nothing has been opened.
NoPage ==
    [kind |-> "none", pc |-> "start", of |-> Nothing, link |-> Nothing, inbound |-> {},
     outbound |-> {}, runs |-> {}, threads |-> {}, versions |-> 0, rows |-> << >>]

PageInit == Init /\ page = NoPage

Opens(new) == page.kind = "none" /\ page' = new /\ UNCHANGED vars

Reads(kind, pc, new) == page.kind = kind /\ page.pc = pc /\ page' = new /\ UNCHANGED vars

-----------------------------------------------------------------------------

MessagesOf(t) == {m \in DOMAIN message : message[m].thread = t}

RunsOf(t) == {q \in DOMAIN run : run[q].thread = t}

\* Outbound messages are named by the run that wrote them.
OutboundOf(t) == {q \in RunsOf(t) : run[q].action # "NO_REPLY"}

AssessmentsOf(runs) == {q \in runs : run[q].action = "ASSESSMENT"}

\* Every thread with its counts and its initiative.
ThreadRows ==
    [t \in DOMAIN thread |->
        [messages |-> Cardinality(MessagesOf(t)) + Cardinality(OutboundOf(t)),
         runs |-> Cardinality(RunsOf(t)),
         assessments |-> Cardinality(AssessmentsOf(RunsOf(t))),
         initiative |-> thread[t].initiative]]

ListThreads == Opens([NoPage EXCEPT !.kind = "threads", !.pc = "shown", !.rows = ThreadRows])

OpenThread(t) ==
    /\ t \in DOMAIN thread
    /\ Opens([NoPage EXCEPT !.kind = "thread", !.pc = "messages", !.of = t,
                            !.link = thread[t].initiative])

LoadMessages ==
    Reads("thread", "messages",
          [page EXCEPT !.pc = "runs", !.inbound = MessagesOf(page.of), !.outbound = OutboundOf(page.of)])

\* Mutated: the replies are grouped by run.
OnePerRun(replies) == {replies}

\* One reply for each inbound message: of retries the newest is shown.
OnePerMessage(replies) ==
    {kept \in SUBSET replies :
        \A q \in replies : Cardinality({p \in kept : run[p].message = run[q].message}) = 1}

\* _canonical_messages: a reply whose run has not been read is shown beside the others.
VisibleReplies(runs) ==
    LET matched == page.outbound \cap runs
    IN  {kept \cup (page.outbound \ runs) : kept \in OnePerMessage(matched)}

\* Mutated: only the thread row is asked for the initiative.
LinkOnly(runs) == {page.link}

\* The initiative of the thread, or that of its newest assessment.
InitiativeShown(runs) ==
    IF page.link # Nothing \/ AssessmentsOf(runs) = {} THEN {page.link}
    ELSE {run[q].initiative : q \in AssessmentsOf(runs)}

\* The runs come with their assessments, which were committed with them.
ShowThread ==
    LET runs == RunsOf(page.of)
    IN  \E replies \in VisibleReplies(runs) : \E i \in InitiativeShown(runs) :
            Reads("thread", "runs",
                  [page EXCEPT !.pc = "shown", !.runs = runs, !.outbound = replies, !.link = i])

-----------------------------------------------------------------------------

AssessmentsOfInitiative(i) == {q \in DOMAIN run : run[q].initiative = i}

\* The summary of one initiative: its evidence versions and its latest assessment.
Summary(i) ==
    [versions |-> Len(version[i]), assessed |-> AssessmentsOfInitiative(i) # {}]

ListInitiatives ==
    Opens([NoPage EXCEPT !.kind = "initiatives", !.pc = "shown",
                         !.rows = [i \in DOMAIN initiative |-> Summary(i)]])

OpenInitiative(i) ==
    /\ i \in DOMAIN initiative
    /\ Opens([NoPage EXCEPT !.kind = "initiative", !.pc = "threads", !.of = i,
                            !.rows = [j \in {i} |-> Summary(j)]])

LoadThreads ==
    Reads("initiative", "threads",
          [page EXCEPT !.pc = "assessments",
                       !.threads = {t \in DOMAIN thread : thread[t].initiative = page.of}])

\* Equal assessments of one evidence version are shown once; whether two are equal is open.
Deduplicated(runs) ==
    {kept \in SUBSET runs : {run[q].version : q \in kept} = {run[q].version : q \in runs}}

\* The threads of the assessments are shown too.
ThreadsShown(runs) == page.threads \cup {run[q].thread : q \in runs}

LoadAssessments ==
    \E runs \in Deduplicated(AssessmentsOfInitiative(page.of)) :
        Reads("initiative", "assessments",
              [page EXCEPT !.pc = "versions", !.runs = runs, !.threads = ThreadsShown(runs)])

ShowInitiative ==
    Reads("initiative", "versions", [page EXCEPT !.pc = "shown", !.versions = Len(version[page.of])])

-----------------------------------------------------------------------------

ThreadPages ==
    \/ ListThreads
    \/ \E t \in Conversations : OpenThread(t)
    \/ LoadMessages
    \/ ShowThread

InitiativePages ==
    \/ ListInitiatives
    \/ \E i \in Initiatives : OpenInitiative(i)
    \/ LoadThreads
    \/ LoadAssessments
    \/ ShowInitiative

PageNext ==
    \/ Next /\ UNCHANGED page
    \/ ThreadPages
    \/ InitiativePages

PageSpec == PageInit /\ [][PageNext]_pageVars

-----------------------------------------------------------------------------

PageTypeOK ==
    /\ page.kind \in {"none", "threads", "thread", "initiatives", "initiative"}
    /\ page.inbound \subseteq MessageIds
    /\ page.outbound \cup page.runs \subseteq DOMAIN run
    /\ page.threads \subseteq Conversations
    /\ page.versions \in Nat

Shows(kind) == page.kind = kind /\ page.pc = "shown"

\* Whatever is committed while the page of a thread is read, and however often a retry
\* answered the same email: each inbound message has at most one reply on the page, and each
\* reply answers a message and belongs to a run that are on the page as well.
OneReplyShown ==
    Shows("thread") =>
        /\ \A p, q \in page.outbound : run[p].message = run[q].message => p = q
        /\ page.outbound \subseteq page.runs
        /\ \A q \in page.outbound : run[q].message \in page.inbound

\* A page never shows an assessment without where it belongs: the page of a thread with an
\* assessment names the initiative of one of them and no other, and the list does so too; the
\* page of an initiative that its summary calls assessed has an assessment, and the thread and the
\* evidence version of each it has, although they are read by other statements, and no fewer
\* versions than its summary counts.  The list of initiatives has no row without evidence, and
\* none without an assessment but those Scout made.
AssessmentsTraceable ==
    /\ Shows("thread") =>
          IF AssessmentsOf(page.runs) = {} THEN page.link = Nothing
          ELSE page.link \in {run[q].initiative : q \in AssessmentsOf(page.runs)}
    /\ Shows("threads") =>
          \A t \in DOMAIN page.rows :
             (page.rows[t].assessments > 0) <=> (page.rows[t].initiative # Nothing)
    /\ Shows("initiatives") =>
          \A i \in DOMAIN page.rows :
             page.rows[i].versions > 0 /\ (page.rows[i].assessed \/ i \in Promoted)
    /\ Shows("initiative") =>
          /\ page.rows[page.of].assessed => page.runs # {}
          /\ \A q \in page.runs : run[q].thread \in page.threads /\ run[q].version \in 1..page.versions
          /\ page.rows[page.of].versions <= page.versions

=============================================================================
