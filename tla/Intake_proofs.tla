----------------------------- MODULE Intake_proofs -----------------------------
(***************************************************************************)
(* For any mailbox, any number of requests that repeat or overlap, and any *)
(* failures: what email intake stores of an answer (module EmailIntake),   *)
(* and what the pages of the dashboard show of it (module AdminViews).     *)
(*                                                                         *)
(* The invariant of the intake adds to the tables what a request has read  *)
(* and will write (SessionOK), and why a request that comes after the      *)
(* answer finds it: its email is in a stored thread, every copy there has  *)
(* a run, and nobody is about to store another copy there (Settled).  A    *)
(* row has a version of its evidence; what Scout has not promoted yet has  *)
(* none (RowsVersioned).                                                   *)
(*                                                                         *)
(* Evidence versions (EInv) need what a session is about to write: items   *)
(* that are evidence, under a number below which no version has them.      *)
(*                                                                         *)
(* The invariant of the pages adds how threads, runs and initiatives are   *)
(* linked (SessionsLinked, RunsLinked), and what the statements of a page  *)
(* have read so far.  That the later statements agree with the earlier     *)
(* ones follows from the tables only growing (TablesGrow).                 *)
(***************************************************************************)
EXTENDS AdminViews, SequenceTheorems, FiniteSetTheorems, TLAPS

-----------------------------------------------------------------------------
(* The inductive invariant. *)

SessionType ==
    [pc : Steps, late : BOOLEAN, thread : Conversations \cup {Nothing}, new_thread : BOOLEAN,
     renames : BOOLEAN, message : MessageIds \cup {Nothing}, read : SUBSET Sources,
     first : BOOLEAN, action : Actions, link : Initiatives \cup {Nothing},
     initiative : Initiatives \cup {Nothing}, items : SUBSET Sources, new_items : SUBSET Sources, number : Nat]

RunType ==
    [message : MessageIds \cup {Nothing}, thread : Conversations \cup {Nothing},
     action : Actions, initiative : Initiatives \cup {Nothing}, version : Nat,
     assessed : SUBSET Sources, late : BOOLEAN]

\* The message of the request is stored, by this request or an earlier one.
Underway(s) ==
    s.pc \in {"stored", "assessed", "linking", "resolved", "captured", "ready"}

\* What the record s of request q relies on.
SessionOK(q, s) ==
    /\ s \in SessionType
    /\ s.pc = "storing" =>
          IF s.new_thread THEN s.thread = email[q].conversation ELSE s.thread \in DOMAIN thread
    /\ Underway(s) => s.message \in DOMAIN message /\ s.thread \in DOMAIN thread
    /\ s.link \in DOMAIN initiative \cup {Nothing}
    /\ s.initiative \in DOMAIN initiative \cup {q, Nothing}
    /\ s.pc \in {"linking", "resolved", "captured"} => s.action = "ASSESSMENT"
    /\ s.pc \in {"resolved", "captured", "ready"} /\ s.action = "ASSESSMENT" =>
          s.initiative # Nothing
    /\ s.initiative # Nothing =>
          s.action = "ASSESSMENT" /\ s.pc \in {"resolved", "captured", "ready"}
    /\ s.pc \in {"captured", "ready"} /\ s.action = "ASSESSMENT" => s.read \subseteq s.items
    /\ s.late => s.pc = "unknown"
    /\ s.pc = "unknown" => ~s.new_thread

\* The tables have their types and refer to each other's rows.
Shaped ==
    /\ email \in Mailboxes /\ email \in [Requests -> EmailRecord]
    /\ faults \in 0..MaxFaults
    /\ DOMAIN thread \subseteq Conversations
    /\ \A t \in DOMAIN thread :
          thread[t] \in [pilot : Pilots, initiative : DOMAIN initiative \cup {Nothing}]
    /\ DOMAIN message \subseteq MessageIds
    /\ \A m \in DOMAIN message : message[m] \in [thread : DOMAIN thread, payload : Payloads]
    /\ DOMAIN initiative \subseteq Initiatives
    /\ \A i \in DOMAIN initiative : initiative[i] \in Pilots
    /\ evidence \in [Initiatives -> SUBSET Sources]
    /\ version \in [Initiatives -> Seq(SUBSET Sources)]
    /\ run \in Seq(RunType)
    /\ \A n \in DOMAIN run :
          /\ run[n].message \in DOMAIN message
          /\ run[n].thread \in DOMAIN thread
          /\ run[n].initiative \in DOMAIN initiative \cup {Nothing}
          /\ run[n].action = "ASSESSMENT" => run[n].initiative # Nothing

\* What is stored under an id is the email with that id.
StoredAsSent ==
    \A q \in Requests :
        email[q].id \in DOMAIN message => message[email[q].id].payload = email[q].payload

SessionsOK ==
    /\ DOMAIN session = Requests
    /\ \A q \in Requests : SessionOK(q, session[q])

\* The email of q is answered, and nobody is about to store another copy of it.
Settled(q) ==
    LET t == email[q].conversation
    IN  /\ t \in DOMAIN thread
        /\ CopiesIn(q, t) # {}
        /\ \A m \in CopiesIn(q, t) : HasRun(m)
        /\ \A p \in Requests :
              session[p].pc = "storing" /\ session[p].thread = t =>
                 email[p].payload # email[q].payload

LateSettled == \A q \in Requests : session[q].late => Settled(q)

\* An initiative is a row together with a version of its evidence, and never before.
RowsVersioned ==
    \A i \in Initiatives :
        IF i \in DOMAIN initiative THEN DOMAIN version[i] # {}
        ELSE evidence[i] = {} /\ version[i] = << >>

IInv ==
    /\ Shaped
    /\ StoredAsSent
    /\ SessionsOK
    /\ LateSettled
    /\ ReplayAddsNothing
    /\ SnapshotCoversAssessment
    /\ NoOrphanInitiative
    /\ RowsVersioned

-----------------------------------------------------------------------------
(* What a step keeps of the other sessions. *)

LEMMA SessionKept ==
    ASSUME NEW p, NEW s, SessionOK(p, s), email' = email,
           DOMAIN thread \subseteq DOMAIN thread', DOMAIN message \subseteq DOMAIN message',
           DOMAIN initiative \subseteq DOMAIN initiative'
    PROVE  SessionOK(p, s)'
  BY DEF SessionOK, Underway

\* An answered email stays answered, unless somebody stores another copy of it.
LEMMA SettledKept ==
    ASSUME NEW r, Settled(r), email' = email,
           DOMAIN thread \subseteq DOMAIN thread',
           DOMAIN message \subseteq DOMAIN message',
           \A m \in DOMAIN message : message'[m] = message[m],
           \A m \in DOMAIN message' : m \notin DOMAIN message =>
               \/ message'[m].payload # email[r].payload
               \/ message'[m].thread # email[r].conversation,
           \A m : HasRun(m) => HasRun(m)',
           \A p \in Requests :
               session'[p].pc = "storing" /\ session'[p].thread = email[r].conversation =>
                  email[p].payload # email[r].payload
    PROVE  Settled(r)'
  <1>1. PICK t : t = email[r].conversation
    OBVIOUS
  <1>2. \A m : m \in CopiesIn(r, t)' <=> m \in CopiesIn(r, t)
    <2>1. \A m : m \in CopiesIn(r, t) <=>
              /\ m \in DOMAIN message
              /\ message[m].payload = email[r].payload /\ message[m].thread = t
      BY DEF CopiesIn, Copies
    <2>2. \A m : m \in CopiesIn(r, t)' <=>
              /\ m \in DOMAIN message'
              /\ message'[m].payload = email[r].payload /\ message'[m].thread = t
      BY DEF CopiesIn, Copies
    <2>3. QED
      BY <1>1, <2>1, <2>2
  <1>3. CopiesIn(r, t)' = CopiesIn(r, t)
    BY <1>2
  <1>4. /\ t \in DOMAIN thread'
        /\ CopiesIn(r, t)' # {}
        /\ \A m \in CopiesIn(r, t)' : HasRun(m)'
    BY <1>1, <1>3 DEF Settled
  <1>5. QED
    BY <1>1, <1>4 DEF Settled

LEMMA Continued ==
    ASSUME SessionsOK, NEW q \in Requests, NEW record, session' = [session EXCEPT ![q] = record]
    PROVE  /\ DOMAIN session' = Requests
           /\ session'[q] = record
           /\ \A p \in Requests : p # q => session'[p] = session[p]
  BY DEF SessionsOK

\* The sessions after one of them went on and the tables grew.
LEMMA SessionsReplaced ==
    ASSUME SessionsOK, NEW q \in Requests, NEW record, email' = email,
           DOMAIN thread \subseteq DOMAIN thread', DOMAIN message \subseteq DOMAIN message',
           DOMAIN initiative \subseteq DOMAIN initiative',
           DOMAIN session' = Requests, session'[q] = record,
           \A p \in Requests : p # q => session'[p] = session[p],
           SessionOK(q, record)
    PROVE  SessionsOK'
  <1>1. SUFFICES ASSUME NEW p \in Requests
                 PROVE  SessionOK(p, session[p])'
    BY DEF SessionsOK
  <1>2. PICK s : s = session'[p] /\ SessionOK(p, s)
    BY DEF SessionsOK
  <1>3. SessionOK(p, s)'
    BY <1>2, SessionKept
  <1>4. QED
    BY <1>2, <1>3 DEF SessionOK, Underway

\* A session goes on and no table changes.
LEMMA MovedPreserves ==
    ASSUME IInv, NEW q \in Requests, NEW record, Continue(q, record),
           UNCHANGED tables, faults' \in 0..MaxFaults,
           SessionOK(q, record), record.late => Settled(q),
           \A r \in Requests :
               session[r].late /\ record.pc = "storing" /\ record.thread = email[r].conversation =>
                  email[q].payload # email[r].payload
    PROVE  IInv'
  <1>1. /\ email' = email /\ thread' = thread /\ message' = message
        /\ initiative' = initiative /\ evidence' = evidence /\ version' = version /\ run' = run
    BY DEF Continue, tables
  <1>2. /\ DOMAIN session' = Requests
        /\ session'[q] = record
        /\ \A p \in Requests : p # q => session'[p] = session[p]
    BY Continued DEF IInv, Continue
  <1>3. Shaped' /\ StoredAsSent'
    BY <1>1 DEF IInv, Shaped, StoredAsSent
  <1>4. SessionsOK'
    BY <1>1, <1>2, SessionsReplaced DEF IInv
  <1>5. LateSettled'
    <2>1. SUFFICES ASSUME NEW r \in Requests, session'[r].late
                   PROVE  Settled(r)'
      BY DEF LateSettled
    <2>2. Settled(r)
      BY <1>2, <2>1 DEF IInv, LateSettled
    <2>3. \A p \in Requests :
             session'[p].pc = "storing" /\ session'[p].thread = email[r].conversation =>
                email[p].payload # email[r].payload
      <3>1. CASE r = q
        <4>1. record.pc = "unknown"
          BY <1>2, <2>1, <3>1 DEF SessionOK
        <4>2. QED
          BY <1>2, <2>2, <3>1, <4>1 DEF Settled
      <3>2. CASE r # q
        BY <1>2, <2>1, <2>2, <3>2 DEF Settled
      <3>3. QED
        BY <3>1, <3>2
    <2>4. \A m : HasRun(m) => HasRun(m)'
      BY <1>1 DEF HasRun
    <2>5. QED
      BY <1>1, <2>2, <2>3, <2>4, SettledKept
  <1>6. ReplayAddsNothing' /\ SnapshotCoversAssessment' /\ NoOrphanInitiative' /\ RowsVersioned'
    BY <1>1 DEF IInv, ReplayAddsNothing, SnapshotCoversAssessment, NoOrphanInitiative, RowsVersioned, Assessed
  <1>7. QED
    BY <1>3, <1>4, <1>5, <1>6 DEF IInv

-----------------------------------------------------------------------------
(* Steps that read. *)

LEMMA StartOK ==
    ASSUME NEW q \in Requests, NEW record, record = Start \/ record = Answered \/ record = Refused
    PROVE  SessionOK(q, record) /\ ~record.late /\ record.pc # "storing"
  <1>1. Start \in SessionType /\ Start.late = FALSE /\ Start.link = Nothing
           /\ Start.initiative = Nothing /\ Start.pc = "idle"
    BY DEF Start, SessionType, Steps, Actions
  <1>2. record \in SessionType /\ record.late = FALSE /\ record.link = Nothing
           /\ record.initiative = Nothing /\ record.pc \in {"idle", "answered", "refused"}
    BY <1>1 DEF Answered, Refused, SessionType, Steps
  <1>3. QED
    BY <1>2 DEF SessionOK, Underway

\* A session that starts anew, or has given its answer.
LEMMA EndedPreserves ==
    ASSUME IInv, NEW q \in Requests, Continue(q, Start) \/ Continue(q, Answered) \/ Continue(q, Refused),
           UNCHANGED tables, faults' \in 0..MaxFaults
    PROVE  IInv'
  <1>1. PICK record : /\ record = Start \/ record = Answered \/ record = Refused
                     /\ Continue(q, record)
    OBVIOUS
  <1>2. SessionOK(q, record) /\ ~record.late /\ record.pc # "storing"
    BY <1>1, StartOK
  <1>3. QED
    BY <1>1, <1>2, MovedPreserves

LEMMA LookupPreserves ==
    ASSUME IInv, NEW q \in Requests, Lookup(q)
    PROVE  IInv'
  <1> DEFINE m == email[q].id
  <1>0. /\ UNCHANGED tables /\ faults' = faults /\ faults' \in 0..MaxFaults
        /\ m \in MessageIds
    BY DEF Lookup, IInv, Shaped, EmailRecord
  <1>1. CASE Continue(q, Answered)
    BY <1>0, <1>1, EndedPreserves
  <1>2. CASE /\ m \notin DOMAIN message
             /\ Continue(q, [Start EXCEPT !.pc = "unknown", !.late = AnsweredBefore(q)])
    <2>1. PICK record : record = [Start EXCEPT !.pc = "unknown", !.late = AnsweredBefore(q)]
      OBVIOUS
    <2>2. AnsweredBefore(q) \in BOOLEAN
      BY DEF AnsweredBefore
    <2>3. /\ record \in SessionType /\ record.pc = "unknown" /\ record.late = AnsweredBefore(q)
          /\ record.link = Nothing /\ record.initiative = Nothing /\ ~record.new_thread
      <3>1. PICK late \in BOOLEAN : late = AnsweredBefore(q)
        BY <2>2
      <3>2. record = [Start EXCEPT !.pc = "unknown", !.late = late]
        BY <2>1, <3>1
      <3>3. /\ record \in SessionType /\ record.pc = "unknown" /\ record.late = late
            /\ record.link = Nothing /\ record.initiative = Nothing /\ ~record.new_thread
        BY <3>2 DEF Start, SessionType, Steps, Actions
      <3>4. QED
        BY <3>1, <3>3
    <2>4. SessionOK(q, record)
      BY <2>3 DEF SessionOK, Underway
    <2>5. ASSUME AnsweredBefore(q)
          PROVE  Settled(q)
      <3>1. ~HasRun(m)
        BY <1>2 DEF HasRun, IInv, Shaped
      <3>2. /\ \E c \in DOMAIN message : message[c].payload = email[q].payload
            /\ \A c \in Copies(email[q].payload) :
                   HasRun(c) /\ message[c].thread = email[q].conversation
            /\ \A p \in InProgress : email[p].payload # email[q].payload
        BY <2>5, <3>1 DEF AnsweredBefore
      <3>3. PICK c \in Copies(email[q].payload) :
               c \in DOMAIN message /\ HasRun(c) /\ message[c].thread = email[q].conversation
        BY <3>2 DEF Copies
      <3>4. message[c].thread \in DOMAIN thread
        BY <3>3 DEF IInv, Shaped
      <3>5. c \in CopiesIn(q, email[q].conversation)
        BY <3>3 DEF CopiesIn
      <3>6. \A d \in CopiesIn(q, email[q].conversation) : HasRun(d)
        BY <3>2 DEF CopiesIn
      <3>7. \A p \in Requests : session[p].pc = "storing" => email[p].payload # email[q].payload
        BY <3>2 DEF InProgress
      <3>8. QED
        BY <3>3, <3>4, <3>5, <3>6, <3>7 DEF Settled
    <2>6. Continue(q, record)
      BY <1>2, <2>1
    <2>7. record.late => Settled(q)
      BY <2>3, <2>5
    <2>8. QED
      BY <1>0, <2>3, <2>4, <2>6, <2>7, MovedPreserves
  <1>3. CASE /\ m \in DOMAIN message
             /\ ~HasRun(m)
             /\ Continue(q, [Start EXCEPT !.pc = "stored", !.late = AnsweredBefore(q),
                                          !.message = m, !.thread = message[m].thread])
    <2>1. AnsweredBefore(q) = FALSE
      <3>1. m \in Copies(email[q].payload)
        BY <1>3 DEF Copies, IInv, StoredAsSent
      <3>2. QED
        BY <1>3, <3>1 DEF AnsweredBefore
    <2>2. PICK record : record = [Start EXCEPT !.pc = "stored", !.late = FALSE,
                                              !.message = m, !.thread = message[m].thread]
      OBVIOUS
    <2>3. message[m].thread \in DOMAIN thread /\ message[m].thread \in Conversations
      BY <1>3 DEF IInv, Shaped
    <2>4. /\ record \in SessionType /\ record.pc = "stored" /\ record.late = FALSE
          /\ record.link = Nothing /\ record.initiative = Nothing
          /\ record.message = m /\ record.thread = message[m].thread
      <3>1. PICK x \in MessageIds, t \in Conversations : x = m /\ t = message[m].thread
        BY <1>0, <2>3
      <3>2. record = [Start EXCEPT !.pc = "stored", !.late = FALSE, !.message = x, !.thread = t]
        BY <2>2, <3>1
      <3>3. /\ record \in SessionType /\ record.pc = "stored" /\ record.late = FALSE
            /\ record.link = Nothing /\ record.initiative = Nothing
            /\ record.message = x /\ record.thread = t
        BY <3>2 DEF Start, SessionType, Steps, Actions
      <3>4. QED
        BY <3>1, <3>3
    <2>5. SessionOK(q, record)
      BY <1>3, <2>3, <2>4 DEF SessionOK, Underway
    <2>6. Continue(q, record)
      BY <1>3, <2>1, <2>2
    <2>7. QED
      BY <1>0, <2>4, <2>5, <2>6, MovedPreserves
  <1>4. QED
    BY <1>1, <1>2, <1>3 DEF Lookup, Replay, IsAnswered

LEMMA MatchThreadPreserves ==
    ASSUME IInv, NEW q \in Requests, MatchThread(q)
    PROVE  IInv'
  <1> DEFINE old == session[q]
  <1>0. /\ UNCHANGED tables /\ faults' = faults /\ faults' \in 0..MaxFaults
        /\ old.pc = "unknown" /\ SessionOK(q, old)
        /\ DOMAIN thread \subseteq Conversations
        /\ DOMAIN message \subseteq MessageIds
        /\ email[q].conversation \in Conversations
    <2>1. UNCHANGED tables /\ faults' = faults /\ old.pc = "unknown"
      BY DEF MatchThread
    <2>2. /\ faults \in 0..MaxFaults /\ DOMAIN thread \subseteq Conversations
          /\ DOMAIN message \subseteq MessageIds /\ email \in [Requests -> EmailRecord]
      BY DEF IInv, Shaped
    <2>3. SessionOK(q, old)
      BY DEF IInv, SessionsOK
    <2>4. email[q].conversation \in Conversations
      BY <2>2 DEF EmailRecord
    <2>5. QED
      BY <2>1, <2>2, <2>3, <2>4
  <1>1. CASE Continue(q, Answered)
    BY <1>0, <1>1, EndedPreserves
  <1>2. ThreadsOf(q) \subseteq DOMAIN thread
    BY DEF ThreadsOf, ReplyThreads
  <1>3. ASSUME NEW t \in Conversations, NEW record \in SessionType, Continue(q, record),
               record.pc = "storing", record.thread = t, ~record.late,
               record.link = old.link, record.initiative = old.initiative,
               IF record.new_thread THEN t = email[q].conversation /\ t \notin DOMAIN thread
               ELSE t \in DOMAIN thread /\ CopiesIn(q, t) = {}
        PROVE  IInv'
    <2>1. SessionOK(q, record)
      BY <1>0, <1>3 DEF SessionOK, Underway
    <2>2. ASSUME NEW r \in Requests, session[r].late, t = email[r].conversation
          PROVE  email[q].payload # email[r].payload
      <3>1. Settled(r)
        BY <2>2 DEF IInv, LateSettled
      <3>2. t \in DOMAIN thread /\ CopiesIn(r, t) # {}
        BY <2>2, <3>1 DEF Settled
      <3>3. CopiesIn(q, t) = {}
        BY <1>3, <3>2
      <3>4. QED
        BY <3>2, <3>3 DEF CopiesIn
    <2>3. QED
      BY <1>0, <1>3, <2>1, <2>2, MovedPreserves
  <1>4. ASSUME NEW t \in ThreadsOf(q), NEW m \in CopiesIn(q, t), ~HasRun(m),
               Continue(q, [Goes(q, "stored") EXCEPT !.thread = t, !.message = m,
                                                     !.renames = TRUE])
        PROVE  IInv'
    <2>1. t \in DOMAIN thread /\ m \in DOMAIN message /\ t \in Conversations /\ m \in MessageIds
      BY <1>0, <1>2 DEF CopiesIn
    <2>2. ~old.late
      <3>1. SUFFICES ASSUME Settled(q) PROVE FALSE
        BY DEF IInv, LateSettled
      <3>2. t = email[q].conversation
        BY <1>4, <3>1 DEF Settled, ThreadsOf
      <3>3. QED
        BY <1>4, <3>1, <3>2 DEF Settled
    <2>3. PICK record : record = [Goes(q, "stored") EXCEPT !.thread = t, !.message = m,
                                                          !.renames = TRUE]
      OBVIOUS
    <2>4. /\ record \in SessionType /\ record.pc = "stored" /\ record.late = old.late
          /\ record.link = old.link /\ record.initiative = old.initiative
          /\ record.thread = t /\ record.message = m
      <3>1. PICK base, s : base = Goes(q, "stored") /\ s = old
        OBVIOUS
      <3>2. s \in SessionType /\ base = [s EXCEPT !.pc = "stored"]
        BY <1>0, <3>1 DEF SessionOK, Goes
      <3>3. base \in SessionType /\ base.pc = "stored" /\ base.late = s.late
            /\ base.link = s.link /\ base.initiative = s.initiative
        BY <3>2 DEF SessionType, Steps
      <3>4. record = [base EXCEPT !.thread = t, !.message = m, !.renames = TRUE]
        BY <2>3, <3>1
      <3>5. /\ record \in SessionType /\ record.pc = "stored" /\ record.late = base.late
            /\ record.link = base.link /\ record.initiative = base.initiative
            /\ record.thread = t /\ record.message = m
        BY <2>1, <3>3, <3>4 DEF SessionType
      <3>6. QED
        BY <3>1, <3>3, <3>5
    <2>5. SessionOK(q, record)
      BY <1>0, <2>1, <2>2, <2>4 DEF SessionOK, Underway
    <2>6. QED
      BY <1>0, <1>4, <2>2, <2>3, <2>4, <2>5, MovedPreserves
  <1>5. CASE /\ ThreadsOf(q) = {}
             /\ Continue(q, [Goes(q, "storing") EXCEPT !.thread = email[q].conversation,
                                                        !.new_thread = TRUE])
    <2>1. email[q].conversation \notin DOMAIN thread
      BY <1>5 DEF ThreadsOf
    <2>2. ~old.late
      BY <2>1 DEF IInv, LateSettled, Settled
    <2>21. PICK t : t \in Conversations /\ t = email[q].conversation
      BY <1>0
    <2>3. PICK record : record = [Goes(q, "storing") EXCEPT !.thread = t, !.new_thread = TRUE]
      OBVIOUS
    <2>4. /\ record \in SessionType /\ record.pc = "storing" /\ record.late = old.late
          /\ record.link = old.link /\ record.initiative = old.initiative
          /\ record.thread = t /\ record.new_thread = TRUE
      <3>1. PICK base, s : base = Goes(q, "storing") /\ s = old
        OBVIOUS
      <3>2. s \in SessionType /\ base = [s EXCEPT !.pc = "storing"]
        BY <1>0, <3>1 DEF SessionOK, Goes
      <3>3. base \in SessionType /\ base.pc = "storing" /\ base.late = s.late
            /\ base.link = s.link /\ base.initiative = s.initiative
        BY <3>2 DEF SessionType, Steps
      <3>4. record = [base EXCEPT !.thread = t, !.new_thread = TRUE]
        BY <2>3, <3>1
      <3>5. /\ record \in SessionType /\ record.pc = "storing" /\ record.late = base.late
            /\ record.link = base.link /\ record.initiative = base.initiative
            /\ record.thread = t /\ record.new_thread = TRUE
        BY <2>21, <3>3, <3>4 DEF SessionType
      <3>6. QED
        BY <3>1, <3>3, <3>5
    <2>5. Continue(q, record)
      BY <1>5, <2>21, <2>3
    <2>6. QED
      BY <1>3, <2>1, <2>2, <2>21, <2>4, <2>5
  <1>6. ASSUME NEW t \in ThreadsOf(q), CopiesIn(q, t) = {},
               Continue(q, [Goes(q, "storing") EXCEPT !.thread = t])
        PROVE  IInv'
    <2>1. t \in DOMAIN thread /\ t \in Conversations
      BY <1>0, <1>2
    <2>2. ~old.late
      <3>1. SUFFICES ASSUME Settled(q) PROVE FALSE
        BY DEF IInv, LateSettled
      <3>2. t = email[q].conversation
        BY <1>6, <3>1 DEF Settled, ThreadsOf
      <3>3. QED
        BY <1>6, <3>1, <3>2 DEF Settled
    <2>3. PICK record : record = [Goes(q, "storing") EXCEPT !.thread = t]
      OBVIOUS
    <2>4. /\ record \in SessionType /\ record.pc = "storing" /\ record.late = old.late
          /\ record.link = old.link /\ record.initiative = old.initiative
          /\ record.thread = t /\ record.new_thread = old.new_thread
      <3>1. PICK base, s : base = Goes(q, "storing") /\ s = old
        OBVIOUS
      <3>2. s \in SessionType /\ base = [s EXCEPT !.pc = "storing"]
        BY <1>0, <3>1 DEF SessionOK, Goes
      <3>3. base \in SessionType /\ base.pc = "storing" /\ base.late = s.late
            /\ base.link = s.link /\ base.initiative = s.initiative /\ base.new_thread = s.new_thread
        BY <3>2 DEF SessionType, Steps
      <3>4. record = [base EXCEPT !.thread = t]
        BY <2>3, <3>1
      <3>5. /\ record \in SessionType /\ record.pc = "storing" /\ record.late = base.late
            /\ record.link = base.link /\ record.initiative = base.initiative
            /\ record.thread = t /\ record.new_thread = base.new_thread
        BY <2>1, <3>3, <3>4 DEF SessionType
      <3>6. QED
        BY <3>1, <3>3, <3>5
    <2>5. ~old.new_thread
      BY <1>0 DEF SessionOK
    <2>6. QED
      BY <1>3, <1>6, <2>1, <2>2, <2>3, <2>4, <2>5
  <1>7. CASE \E t \in ThreadsOf(q) :
                \/ /\ CopiesIn(q, t) = {}
                   /\ Continue(q, [Goes(q, "storing") EXCEPT !.thread = t])
                \/ \E m \in CopiesIn(q, t) :
                      \/ HasRun(m) /\ Continue(q, Answered)
                      \/ /\ ~HasRun(m)
                         /\ Continue(q, [Goes(q, "stored") EXCEPT !.thread = t, !.message = m,
                                                                  !.renames = TRUE])
    <2>1. PICK t \in ThreadsOf(q) :
                \/ /\ CopiesIn(q, t) = {}
                   /\ Continue(q, [Goes(q, "storing") EXCEPT !.thread = t])
                \/ \E m \in CopiesIn(q, t) :
                      \/ HasRun(m) /\ Continue(q, Answered)
                      \/ /\ ~HasRun(m)
                         /\ Continue(q, [Goes(q, "stored") EXCEPT !.thread = t, !.message = m,
                                                                  !.renames = TRUE])
      BY <1>7
    <2>2. QED
      BY <1>1, <1>4, <1>6, <2>1
  <1>8. QED
    BY <1>5, <1>7 DEF MatchThread, Replay

-----------------------------------------------------------------------------
(* Steps that store the message and rename its thread. *)

\* The threads after one of them took the pilot of the request's email.
LEMMA RenamedThreads ==
    ASSUME IInv, NEW q \in Requests, session[q].thread \in DOMAIN thread
    PROVE  /\ DOMAIN Renamed(q) = DOMAIN thread
           /\ \A t \in DOMAIN thread :
                 Renamed(q)[t] \in [pilot : Pilots, initiative : DOMAIN initiative \cup {Nothing}]
  <1>1. email[q].pilot \in Pilots
    BY DEF IInv, Shaped, EmailRecord
  <1>2. \A t \in DOMAIN thread :
           thread[t] \in [pilot : Pilots, initiative : DOMAIN initiative \cup {Nothing}]
    BY DEF IInv, Shaped
  <1>3. QED
    BY <1>1, <1>2 DEF Renamed

LEMMA StorePreserves ==
    ASSUME IInv, NEW q \in Requests, Store(q)
    PROVE  IInv'
  <1> DEFINE old == session[q]
             m == email[q].id
             t == old.thread
  <1>0. /\ faults' = faults /\ faults' \in 0..MaxFaults /\ email' = email
        /\ UNCHANGED <<initiative, evidence, version, run>>
        /\ old.pc = "storing" /\ SessionOK(q, old) /\ ~old.late
        /\ m \in MessageIds /\ email[q].conversation \in Conversations
        /\ email[q].payload \in Payloads /\ email[q].pilot \in Pilots
    BY DEF Store, Continue, IInv, Shaped, SessionsOK, SessionOK, EmailRecord
  <1>1. CASE Continue(q, Start) /\ UNCHANGED <<thread, message>>
    BY <1>0, <1>1, EndedPreserves DEF tables
  <1>2. CASE /\ m \notin DOMAIN message
             /\ old.new_thread => t \notin DOMAIN thread
             /\ thread' = IF old.new_thread
                            THEN Put(thread, t, [pilot |-> email[q].pilot, initiative |-> Nothing])
                            ELSE Renamed(q)
             /\ message' = Put(message, m, [thread |-> t, payload |-> email[q].payload])
             /\ Continue(q, [Goes(q, "stored") EXCEPT !.message = m])
    <2>1. /\ DOMAIN thread' = DOMAIN thread \cup {t}
          /\ t \in Conversations
          /\ \A u \in DOMAIN thread' :
                thread'[u] \in [pilot : Pilots, initiative : DOMAIN initiative \cup {Nothing}]
      <3>1. CASE old.new_thread
        <4>1. t \in Conversations /\ thread' = Put(thread, t, [pilot |-> email[q].pilot,
                                                            initiative |-> Nothing])
          BY <1>0, <1>2, <3>1 DEF SessionOK
        <4>2. QED
          BY <1>0, <4>1 DEF Put, IInv, Shaped
      <3>2. CASE ~old.new_thread
        <4>1. t \in DOMAIN thread /\ thread' = Renamed(q)
          BY <1>0, <1>2, <3>2 DEF SessionOK
        <4>2. QED
          BY <4>1, RenamedThreads DEF IInv, Shaped
      <3>3. QED
        BY <3>1, <3>2
    <2>2. /\ DOMAIN message' = DOMAIN message \cup {m}
          /\ message'[m] = [thread |-> t, payload |-> email[q].payload]
          /\ \A x \in DOMAIN message : message'[x] = message[x]
      BY <1>2 DEF Put
    <2>3. PICK record : record = [Goes(q, "stored") EXCEPT !.message = m]
      OBVIOUS
    <2>4. /\ record \in SessionType /\ record.pc = "stored" /\ record.late = old.late
          /\ record.link = old.link /\ record.initiative = old.initiative
          /\ record.thread = old.thread /\ record.message = m
      <3>1. PICK base, s, x : base = Goes(q, "stored") /\ s = old /\ x = m /\ x \in MessageIds
        BY <1>0
      <3>2. s \in SessionType /\ base = [s EXCEPT !.pc = "stored"]
        BY <1>0, <3>1 DEF SessionOK, Goes
      <3>3. base \in SessionType /\ base.pc = "stored" /\ base.late = s.late
            /\ base.link = s.link /\ base.initiative = s.initiative /\ base.thread = s.thread
        BY <3>2 DEF SessionType, Steps
      <3>4. record = [base EXCEPT !.message = x]
        BY <2>3, <3>1
      <3>5. /\ record \in SessionType /\ record.pc = "stored" /\ record.late = base.late
            /\ record.link = base.link /\ record.initiative = base.initiative
            /\ record.thread = base.thread /\ record.message = x
        BY <3>1, <3>3, <3>4 DEF SessionType
      <3>6. QED
        BY <3>1, <3>3, <3>5
    <2>5. /\ DOMAIN session' = Requests
          /\ session'[q] = record
          /\ \A p \in Requests : p # q => session'[p] = session[p]
      BY <1>2, <2>3, Continued DEF IInv, Continue
    <2>6. Shaped'
      <3>1. /\ email \in Mailboxes /\ email \in [Requests -> EmailRecord]
            /\ faults' \in 0..MaxFaults
            /\ DOMAIN thread' \subseteq Conversations
            /\ \A u \in DOMAIN thread' :
                  thread'[u] \in [pilot : Pilots, initiative : DOMAIN initiative \cup {Nothing}]
            /\ DOMAIN message' \subseteq MessageIds
        BY <1>0, <2>1, <2>2 DEF IInv, Shaped
      <3>2. \A x \in DOMAIN message' : message'[x] \in [thread : DOMAIN thread', payload : Payloads]
        <4>1. DOMAIN thread \subseteq DOMAIN thread'
          BY <2>1
        <4>2. \A x \in DOMAIN message : message'[x] \in [thread : DOMAIN thread', payload : Payloads]
          BY <2>2, <4>1 DEF IInv, Shaped
        <4>3. message'[m] \in [thread : DOMAIN thread', payload : Payloads]
          <5>1. t \in DOMAIN thread' /\ email[q].payload \in Payloads
            BY <1>0, <2>1
          <5>2. QED
            BY <2>2, <5>1
        <4>4. QED
          BY <2>2, <4>2, <4>3
      <3>3. \A n \in DOMAIN run :
               /\ run[n].message \in DOMAIN message'
               /\ run[n].thread \in DOMAIN thread'
               /\ run[n].initiative \in DOMAIN initiative \cup {Nothing}
        BY <2>1, <2>2 DEF IInv, Shaped
      <3>4. QED
        BY <1>0, <3>1, <3>2, <3>3 DEF IInv, Shaped
    <2>7. StoredAsSent'
      <3>1. \A p \in Requests : email[p].id = m => email[p].payload = email[q].payload
        BY IdentityAssumption DEF IInv, Shaped
      <3>2. QED
        BY <1>0, <2>2, <3>1 DEF IInv, StoredAsSent
    <2>8. SessionsOK'
      <3>1. SessionOK(q, record)'
        BY <1>0, <2>1, <2>2, <2>4 DEF SessionOK, Underway
      <3>2. SUFFICES ASSUME NEW p \in Requests
                     PROVE  SessionOK(p, session[p])'
        BY <2>5 DEF SessionsOK
      <3>3. CASE p = q
        BY <2>5, <3>1, <3>3 DEF SessionOK, Underway
      <3>4. CASE p # q
        <4>1. PICK s : s = session'[p] /\ SessionOK(p, s)
          BY <2>5, <3>4 DEF IInv, SessionsOK
        <4>2. SessionOK(p, s)'
          BY <1>0, <2>1, <2>2, <4>1, SessionKept
        <4>3. QED
          BY <4>1, <4>2 DEF SessionOK, Underway
      <3>5. QED
        BY <3>3, <3>4
    <2>9. LateSettled'
      <3>1. SUFFICES ASSUME NEW r \in Requests, session'[r].late
                     PROVE  Settled(r)'
        BY DEF LateSettled
      <3>2. r # q /\ Settled(r)
        BY <1>0, <2>4, <2>5, <3>1 DEF IInv, LateSettled
      <3>3. \/ email[q].payload # email[r].payload
            \/ t # email[r].conversation
        BY <1>0, <3>2 DEF Settled
      <3>4. \A x \in DOMAIN message' : x \notin DOMAIN message =>
               \/ message'[x].payload # email[r].payload
               \/ message'[x].thread # email[r].conversation
        BY <2>2, <3>3
      <3>5. \A p \in Requests :
               session'[p].pc = "storing" /\ session'[p].thread = email[r].conversation =>
                  email[p].payload # email[r].payload
        BY <2>4, <2>5, <3>2 DEF Settled
      <3>6. \A x : HasRun(x) => HasRun(x)'
        BY <1>0 DEF HasRun
      <3>7. QED
        BY <1>0, <2>1, <2>2, <3>2, <3>4, <3>5, <3>6, SettledKept
    <2>10. ReplayAddsNothing' /\ SnapshotCoversAssessment' /\ NoOrphanInitiative' /\ RowsVersioned'
      BY <1>0 DEF IInv, ReplayAddsNothing, SnapshotCoversAssessment, NoOrphanInitiative, RowsVersioned, Assessed
    <2>11. QED
      BY <2>6, <2>7, <2>8, <2>9, <2>10 DEF IInv
  <1>3. QED
    BY <1>1, <1>2 DEF Store

LEMMA AssessPreserves ==
    ASSUME IInv, NEW q \in Requests, Assess(q)
    PROVE  IInv'
  <1> DEFINE old == session[q]
  <1>0. /\ faults' = faults /\ faults' \in 0..MaxFaults /\ email' = email
        /\ UNCHANGED <<message, initiative, evidence, version, run>>
        /\ old.pc = "stored" /\ SessionOK(q, old) /\ ~old.late
        /\ old.thread \in DOMAIN thread /\ old.message \in DOMAIN message
        /\ DOMAIN message \subseteq MessageIds
    BY DEF Assess, Continue, IInv, Shaped, SessionsOK, SessionOK, Underway
  <1>1. /\ DOMAIN thread' = DOMAIN thread
        /\ \A u \in DOMAIN thread' :
              thread'[u] \in [pilot : Pilots, initiative : DOMAIN initiative \cup {Nothing}]
    <2>1. CASE old.renames
      <3>1. thread' = Renamed(q)
        BY <2>1 DEF Assess
      <3>2. QED
        BY <1>0, <3>1, RenamedThreads
    <2>2. CASE ~old.renames
      BY <2>2 DEF Assess, IInv, Shaped
    <2>3. QED
      BY <2>1, <2>2
  <1>2. PICK record : record = [Goes(q, "assessed") EXCEPT !.read = Read(q), !.first = FirstStage(q)]
    OBVIOUS
  <1>3. Read(q) \in SUBSET Sources /\ FirstStage(q) \in BOOLEAN
    BY <1>0 DEF Read, Sources, FirstStage, AtFirstStage
  <1>4. /\ record \in SessionType /\ record.pc = "assessed" /\ record.late = old.late
        /\ record.link = old.link /\ record.initiative = old.initiative
        /\ record.thread = old.thread /\ record.message = old.message
    <2>1. PICK base, s, x, first : /\ base = Goes(q, "assessed") /\ s = old
                                   /\ x = Read(q) /\ first = FirstStage(q)
      OBVIOUS
    <2>2. s \in SessionType /\ base = [s EXCEPT !.pc = "assessed"]
      BY <1>0, <2>1 DEF SessionOK, Goes
    <2>3. base \in SessionType /\ base.pc = "assessed" /\ base.late = s.late
          /\ base.link = s.link /\ base.initiative = s.initiative /\ base.thread = s.thread
          /\ base.message = s.message
      BY <2>2 DEF SessionType, Steps
    <2>4. record = [base EXCEPT !.read = x, !.first = first] /\ x \in SUBSET Sources /\ first \in BOOLEAN
      BY <1>2, <1>3, <2>1
    <2>5. /\ record \in SessionType /\ record.pc = "assessed" /\ record.late = base.late
          /\ record.link = base.link /\ record.initiative = base.initiative
          /\ record.thread = base.thread /\ record.message = base.message
      BY <2>3, <2>4 DEF SessionType
    <2>6. QED
      BY <2>1, <2>3, <2>5
  <1>5. /\ DOMAIN session' = Requests
        /\ session'[q] = record
        /\ \A p \in Requests : p # q => session'[p] = session[p]
    BY <1>2, Continued DEF IInv, Continue, Assess
  <1>6. Shaped'
    <2>1. \A x \in DOMAIN message : message[x] \in [thread : DOMAIN thread', payload : Payloads]
      BY <1>1 DEF IInv, Shaped
    <2>2. QED
      BY <1>0, <1>1, <2>1 DEF IInv, Shaped
  <1>7. SessionsOK'
    <2>1. SessionOK(q, record)
      BY <1>0, <1>4 DEF SessionOK, Underway
    <2>2. QED
      BY <1>0, <1>1, <1>5, <2>1, SessionsReplaced DEF IInv
  <1>8. LateSettled'
    <2>1. SUFFICES ASSUME NEW r \in Requests, session'[r].late
                   PROVE  Settled(r)'
      BY DEF LateSettled
    <2>2. Settled(r)
      BY <1>0, <1>4, <1>5, <2>1 DEF IInv, LateSettled
    <2>3. \A p \in Requests :
             session'[p].pc = "storing" /\ session'[p].thread = email[r].conversation =>
                email[p].payload # email[r].payload
      BY <1>4, <1>5, <2>2 DEF Settled
    <2>4. \A x : HasRun(x) => HasRun(x)'
      BY <1>0 DEF HasRun
    <2>5. QED
      BY <1>0, <1>1, <2>2, <2>3, <2>4, SettledKept
  <1>9. StoredAsSent' /\ ReplayAddsNothing' /\ SnapshotCoversAssessment' /\ NoOrphanInitiative' /\ RowsVersioned'
    BY <1>0 DEF IInv, StoredAsSent, ReplayAddsNothing, SnapshotCoversAssessment,
                NoOrphanInitiative, RowsVersioned, Assessed
  <1>10. QED
    BY <1>6, <1>7, <1>8, <1>9 DEF IInv

-----------------------------------------------------------------------------
(* Steps that prepare the answer. *)

LEMMA CoachPreserves ==
    ASSUME IInv, NEW q \in Requests, Coach(q)
    PROVE  IInv'
  <1> DEFINE old == session[q]
  <1>0. /\ UNCHANGED tables /\ faults' = faults /\ faults' \in 0..MaxFaults
        /\ old.pc = "assessed" /\ SessionOK(q, old) /\ ~old.late
        /\ old.thread \in DOMAIN thread /\ DOMAIN initiative \subseteq Initiatives
    BY DEF Coach, IInv, Shaped, SessionsOK, SessionOK, Underway
  <1>1. PICK action, record :
           /\ action \in Actions
           /\ record = [old EXCEPT !.pc = IF action = "ASSESSMENT" THEN "linking" ELSE "ready",
                                   !.action = action,
                                   !.link = thread[old.thread].initiative]
           /\ Continue(q, record)
    <2>1. PICK action \in Actions :
             Continue(q, [old EXCEPT !.pc = IF action = "ASSESSMENT" THEN "linking" ELSE "ready",
                                     !.action = action,
                                     !.link = thread[old.thread].initiative])
      BY DEF Coach
    <2>2. PICK record :
             record = [old EXCEPT !.pc = IF action = "ASSESSMENT" THEN "linking" ELSE "ready",
                                  !.action = action,
                                  !.link = thread[old.thread].initiative]
      OBVIOUS
    <2>3. Continue(q, record)
      BY <2>1, <2>2
    <2>4. QED
      BY <2>1, <2>2, <2>3
  <1>2. thread[old.thread].initiative \in DOMAIN initiative \cup {Nothing}
    BY <1>0 DEF IInv, Shaped
  <1>3. /\ record \in SessionType /\ record.late = old.late
        /\ record.pc = IF action = "ASSESSMENT" THEN "linking" ELSE "ready"
        /\ record.action = action
        /\ record.link \in DOMAIN initiative \cup {Nothing} /\ record.initiative = old.initiative
        /\ record.thread = old.thread /\ record.message = old.message
    <2>1. PICK s, l, step : /\ s = old /\ l = thread[old.thread].initiative
                            /\ step = IF action = "ASSESSMENT" THEN "linking" ELSE "ready"
      OBVIOUS
    <2>2. record = [s EXCEPT !.pc = step, !.action = action, !.link = l]
      BY <1>1, <2>1
    <2>3. s \in SessionType /\ l \in Initiatives \cup {Nothing} /\ step \in Steps
      BY <1>0, <1>2, <2>1 DEF SessionOK, Steps
    <2>4. /\ record \in SessionType /\ record.late = s.late /\ record.pc = step
          /\ record.action = action /\ record.link = l /\ record.initiative = s.initiative
          /\ record.thread = s.thread /\ record.message = s.message
      BY <1>1, <2>2, <2>3 DEF SessionType
    <2>5. QED
      BY <1>2, <2>1, <2>4
  <1>4. SessionOK(q, record)
    BY <1>0, <1>3 DEF SessionOK, Underway
  <1>5. record.pc # "storing" /\ ~record.late /\ Continue(q, record)
    BY <1>0, <1>1, <1>3
  <1>6. QED
    BY <1>0, <1>4, <1>5, MovedPreserves

LEMMA EnsureInitiativePreserves ==
    ASSUME IInv, NEW q \in Requests, EnsureInitiative(q)
    PROVE  IInv'
  <1> DEFINE old == session[q]
  <1>0. /\ UNCHANGED tables /\ faults' = faults /\ faults' \in 0..MaxFaults
        /\ old.pc = "linking" /\ SessionOK(q, old) /\ ~old.late
        /\ DOMAIN initiative \subseteq Initiatives
    BY DEF EnsureInitiative, FlushesNew, tables, Continue, IInv, Shaped, SessionsOK, SessionOK
  <1>1. PICK i, record :
           /\ i \in DOMAIN initiative \cup {q}
           /\ record = [Goes(q, "resolved") EXCEPT !.initiative = i]
           /\ Continue(q, record)
    BY <1>0 DEF EnsureInitiative, Matching, SessionOK
  <1>2. /\ record \in SessionType /\ record.late = old.late /\ record.pc = "resolved"
        /\ record.action = old.action /\ record.link = old.link /\ record.initiative = i
        /\ record.thread = old.thread /\ record.message = old.message
    <2>1. PICK base, s : base = Goes(q, "resolved") /\ s = old
      OBVIOUS
    <2>2. s \in SessionType /\ base = [s EXCEPT !.pc = "resolved"]
      BY <1>0, <2>1 DEF SessionOK, Goes
    <2>3. base \in SessionType /\ base.pc = "resolved" /\ base.late = s.late
          /\ base.action = s.action /\ base.link = s.link /\ base.thread = s.thread
          /\ base.message = s.message
      BY <2>2 DEF SessionType, Steps
    <2>4. record = [base EXCEPT !.initiative = i] /\ i \in Initiatives \cup {Nothing}
      BY <1>0, <1>1, <2>1 DEF Initiatives
    <2>5. /\ record \in SessionType /\ record.late = base.late /\ record.pc = "resolved"
          /\ record.action = base.action /\ record.link = base.link /\ record.initiative = i
          /\ record.thread = base.thread /\ record.message = base.message
      BY <2>3, <2>4 DEF SessionType
    <2>6. QED
      BY <2>1, <2>3, <2>5
  <1>3. i # Nothing /\ i \in DOMAIN initiative \cup {q, Nothing}
    BY <1>0, <1>1, NothingAssumption DEF Initiatives
  <1>4. SessionOK(q, record)
    BY <1>0, <1>2, <1>3 DEF SessionOK, Underway
  <1>5. QED
    BY <1>0, <1>1, <1>2, <1>4, MovedPreserves

LEMMA CaptureEvidencePreserves ==
    ASSUME IInv, NEW q \in Requests, CaptureEvidence(q)
    PROVE  IInv'
  <1> DEFINE old == session[q]
  <1>0. /\ UNCHANGED tables /\ faults' = faults /\ faults' \in 0..MaxFaults
        /\ old.pc = "resolved" /\ SessionOK(q, old) /\ ~old.late
        /\ DOMAIN initiative \subseteq Initiatives /\ evidence \in [Initiatives -> SUBSET Sources]
    BY DEF CaptureEvidence, IInv, Shaped, SessionsOK, SessionOK
  <1>1. /\ old.read \in SUBSET Sources /\ old.initiative \in Initiatives
        /\ evidence[old.initiative] \in SUBSET Sources
    BY <1>0 DEF SessionOK, SessionType
  <1>2. PICK added, items, record :
           /\ added = old.read \ evidence[old.initiative]
           /\ items = evidence[old.initiative] \cup added
           /\ record = [Goes(q, "captured") EXCEPT !.new_items = added, !.items = items]
           /\ Continue(q, record)
    <2>1. PICK added : added = old.read \ evidence[old.initiative]
      OBVIOUS
    <2>2. PICK items : items = evidence[old.initiative] \cup added
      OBVIOUS
    <2>3. Continue(q, [Goes(q, "captured") EXCEPT !.new_items = added, !.items = items])
      BY <2>1, <2>2 DEF CaptureEvidence, Captured
    <2>4. PICK record : record = [Goes(q, "captured") EXCEPT !.new_items = added, !.items = items]
      OBVIOUS
    <2>5. Continue(q, record)
      BY <2>3, <2>4
    <2>6. QED
      BY <2>1, <2>2, <2>4, <2>5
  <1>3. /\ added \in SUBSET Sources /\ items \in SUBSET Sources /\ old.read \subseteq items
    BY <1>1, <1>2
  <1>4. /\ record \in SessionType /\ record.late = old.late /\ record.pc = "captured"
        /\ record.action = old.action /\ record.link = old.link /\ record.initiative = old.initiative
        /\ record.thread = old.thread /\ record.message = old.message
        /\ record.read = old.read /\ record.items = items
    <2>1. PICK base, s : base = Goes(q, "captured") /\ s = old
      OBVIOUS
    <2>2. s \in SessionType /\ base = [s EXCEPT !.pc = "captured"]
      BY <1>0, <2>1 DEF SessionOK, Goes
    <2>3. base \in SessionType /\ base.pc = "captured" /\ base.late = s.late
          /\ base.action = s.action /\ base.link = s.link /\ base.thread = s.thread
          /\ base.message = s.message /\ base.initiative = s.initiative /\ base.read = s.read
      BY <2>2 DEF SessionType, Steps
    <2>4. record = [base EXCEPT !.new_items = added, !.items = items]
      BY <1>2, <2>1
    <2>5. /\ record \in SessionType /\ record.late = base.late /\ record.pc = "captured"
          /\ record.action = base.action /\ record.link = base.link
          /\ record.initiative = base.initiative
          /\ record.thread = base.thread /\ record.message = base.message
          /\ record.read = base.read /\ record.items = items
      BY <1>3, <2>3, <2>4 DEF SessionType
    <2>6. QED
      BY <2>1, <2>3, <2>5
  <1>5. SessionOK(q, record)
    BY <1>0, <1>3, <1>4 DEF SessionOK, Underway
  <1>6. QED
    BY <1>0, <1>2, <1>4, <1>5, MovedPreserves

LEMMA NumberVersionPreserves ==
    ASSUME IInv, NEW q \in Requests, NumberVersion(q)
    PROVE  IInv'
  <1> DEFINE old == session[q]
  <1>0. /\ UNCHANGED tables /\ faults' = faults /\ faults' \in 0..MaxFaults
        /\ old.pc = "captured" /\ SessionOK(q, old) /\ ~old.late
        /\ DOMAIN initiative \subseteq Initiatives
        /\ version \in [Initiatives -> Seq(SUBSET Sources)]
    BY DEF NumberVersion, IInv, Shaped, SessionsOK, SessionOK
  <1>1. version[old.initiative] \in Seq(SUBSET Sources)
    BY <1>0 DEF SessionOK, SessionType
  <1>2. PICK n, record :
           /\ n \in Nat
           /\ record = [Goes(q, "ready") EXCEPT !.number = n]
           /\ Continue(q, record)
    <2>1. PICK versions \in Seq(SUBSET Sources) : versions = version[old.initiative]
      BY <1>1
    <2>2. PICK n : /\ n \in DOMAIN versions \/ n = Len(versions) + 1
                   /\ Continue(q, [Goes(q, "ready") EXCEPT !.number = n])
      BY <2>1 DEF NumberVersion
    <2>3. n \in Nat
      BY <2>1, <2>2
    <2>4. QED
      BY <2>2, <2>3
  <1>3. /\ record \in SessionType /\ record.late = old.late /\ record.pc = "ready"
        /\ record.action = old.action /\ record.link = old.link /\ record.initiative = old.initiative
        /\ record.thread = old.thread /\ record.message = old.message
        /\ record.read = old.read /\ record.items = old.items
    <2>1. PICK base, s : base = Goes(q, "ready") /\ s = old
      OBVIOUS
    <2>2. s \in SessionType /\ base = [s EXCEPT !.pc = "ready"]
      BY <1>0, <2>1 DEF SessionOK, Goes
    <2>3. base \in SessionType /\ base.pc = "ready" /\ base.late = s.late
          /\ base.action = s.action /\ base.link = s.link /\ base.thread = s.thread
          /\ base.message = s.message /\ base.initiative = s.initiative /\ base.read = s.read
          /\ base.items = s.items
      BY <2>2 DEF SessionType, Steps
    <2>4. record = [base EXCEPT !.number = n]
      BY <1>2, <2>1
    <2>5. /\ record \in SessionType /\ record.late = base.late /\ record.pc = "ready"
          /\ record.action = base.action /\ record.link = base.link
          /\ record.initiative = base.initiative
          /\ record.thread = base.thread /\ record.message = base.message
          /\ record.read = base.read /\ record.items = base.items
      BY <1>2, <2>3, <2>4 DEF SessionType
    <2>6. QED
      BY <2>1, <2>3, <2>5
  <1>4. SessionOK(q, record)
    BY <1>0, <1>3 DEF SessionOK, Underway
  <1>5. QED
    BY <1>0, <1>2, <1>3, <1>4, MovedPreserves

-----------------------------------------------------------------------------
(* Steps that commit. *)

\* A run is appended: every run that was there is still there.
LEMMA RunAppended ==
    ASSUME NEW runs \in Seq(RunType), NEW row \in RunType, NEW after, after = Append(runs, row)
    PROVE  /\ after \in Seq(RunType)
           /\ DOMAIN runs \subseteq DOMAIN after
           /\ \A n \in DOMAIN runs : after[n] = runs[n]
           /\ \E n \in DOMAIN after : n \notin DOMAIN runs /\ after[n] = row
           /\ \A n \in DOMAIN after : n \in DOMAIN runs \/ after[n] = row
  <1>1. /\ after \in Seq(RunType)
        /\ DOMAIN after = 1..(Len(runs) + 1)
        /\ DOMAIN runs = 1..Len(runs)
        /\ Len(runs) \in Nat
        /\ after[Len(runs) + 1] = row
        /\ \A n \in 1..Len(runs) : after[n] = runs[n]
    OBVIOUS
  <1>2. QED
    BY <1>1

\* The row of a session that is ready.
LEMMA ReadyRow ==
    ASSUME IInv, NEW q \in Requests, session[q].pc = "ready"
    PROVE  /\ RunRow(q) \in RunType
           /\ RunRow(q).message = session[q].message /\ RunRow(q).message \in DOMAIN message
           /\ RunRow(q).thread = session[q].thread /\ RunRow(q).thread \in DOMAIN thread
           /\ RunRow(q).initiative = session[q].initiative
           /\ RunRow(q).action = "ASSESSMENT" => RunRow(q).initiative # Nothing
           /\ RunRow(q).action = session[q].action
           /\ RunRow(q).version = session[q].number
           /\ RunRow(q).assessed = session[q].read
           /\ RunRow(q).late = FALSE
           /\ session[q] \in SessionType
  <1>1. SessionOK(q, session[q])
    BY DEF IInv, SessionsOK
  <1>2. /\ session[q] \in SessionType
        /\ session[q].message \in DOMAIN message /\ session[q].thread \in DOMAIN thread
        /\ session[q].late = FALSE
        /\ session[q].action = "ASSESSMENT" => session[q].initiative # Nothing
    BY <1>1 DEF SessionOK, Underway, SessionType
  <1>3. RunRow(q) \in RunType
    BY <1>2 DEF SessionType, RunType, RunRow
  <1>4. QED
    BY <1>2, <1>3 DEF RunRow

\* The run of a session that is ready is committed.
LEMMA RunCommitted ==
    ASSUME IInv, NEW q \in Requests, session[q].pc = "ready", run' = Append(run, RunRow(q))
    PROVE  /\ run' \in Seq(RunType)
           /\ DOMAIN run \subseteq DOMAIN run'
           /\ \A n \in DOMAIN run : run'[n] = run[n]
           /\ \E n \in DOMAIN run' : n \notin DOMAIN run /\ run'[n] = RunRow(q)
           /\ \A n \in DOMAIN run' : n \in DOMAIN run \/ run'[n] = RunRow(q)
  <1>1. RunRow(q) \in RunType
    BY ReadyRow
  <1>2. run \in Seq(RunType)
    BY DEF IInv, Shaped
  <1>3. PICK runs, row, after : runs = run /\ row = RunRow(q) /\ after = run'
    OBVIOUS
  <1>4. runs \in Seq(RunType) /\ row \in RunType /\ after = Append(runs, row)
    BY <1>1, <1>2, <1>3
  <1>5. /\ after \in Seq(RunType)
        /\ DOMAIN runs \subseteq DOMAIN after
        /\ \A n \in DOMAIN runs : after[n] = runs[n]
        /\ \E n \in DOMAIN after : n \notin DOMAIN runs /\ after[n] = row
        /\ \A n \in DOMAIN after : n \in DOMAIN runs \/ after[n] = row
    BY <1>4, RunAppended
  <1>6. QED
    BY <1>3, <1>5

\* What both commits do beside the initiative and its evidence.
LEMMA CommitKeeps ==
    ASSUME IInv, NEW q \in Requests, session[q].pc = "ready",
           run' = Append(run, RunRow(q)), Continue(q, Answered),
           message' = message, faults' = faults,
           DOMAIN thread' = DOMAIN thread, DOMAIN initiative \subseteq DOMAIN initiative',
           DOMAIN initiative' \subseteq Initiatives,
           \A i \in DOMAIN initiative' : initiative'[i] \in Pilots,
           session[q].initiative \in DOMAIN initiative' \cup {Nothing},
           \A t \in DOMAIN thread :
               thread'[t] \in [pilot : Pilots, initiative : DOMAIN initiative' \cup {Nothing}],
           evidence' \in [Initiatives -> SUBSET Sources],
           version' \in [Initiatives -> Seq(SUBSET Sources)]
    PROVE  Shaped' /\ StoredAsSent' /\ SessionsOK' /\ LateSettled' /\ ReplayAddsNothing'
  <1>1. /\ run' \in Seq(RunType)
        /\ DOMAIN run \subseteq DOMAIN run'
        /\ \A n \in DOMAIN run : run'[n] = run[n]
        /\ \A n \in DOMAIN run' : n \in DOMAIN run \/ run'[n] = RunRow(q)
    BY RunCommitted
  <1>2. /\ DOMAIN session' = Requests
        /\ session'[q] = Answered
        /\ \A p \in Requests : p # q => session'[p] = session[p]
        /\ email' = email
    BY Continued DEF IInv, Continue
  <1>3. Shaped'
    <2>1. \A n \in DOMAIN run' :
             /\ run'[n].message \in DOMAIN message'
             /\ run'[n].thread \in DOMAIN thread'
             /\ run'[n].initiative \in DOMAIN initiative' \cup {Nothing}
             /\ run'[n].action = "ASSESSMENT" => run'[n].initiative # Nothing
      <3>1. SUFFICES ASSUME NEW n \in DOMAIN run'
                     PROVE  /\ run'[n].message \in DOMAIN message'
                            /\ run'[n].thread \in DOMAIN thread'
                            /\ run'[n].initiative \in DOMAIN initiative' \cup {Nothing}
                            /\ run'[n].action = "ASSESSMENT" => run'[n].initiative # Nothing
        OBVIOUS
      <3>2. CASE n \in DOMAIN run
        <4>1. /\ run[n].message \in DOMAIN message
              /\ run[n].thread \in DOMAIN thread
              /\ run[n].initiative \in DOMAIN initiative \cup {Nothing}
              /\ run[n].action = "ASSESSMENT" => run[n].initiative # Nothing
          BY <3>2 DEF IInv, Shaped
        <4>2. QED
          BY <1>1, <3>2, <4>1
      <3>3. CASE run'[n] = RunRow(q)
        <4>1. /\ RunRow(q).message \in DOMAIN message
              /\ RunRow(q).thread \in DOMAIN thread
              /\ RunRow(q).initiative = session[q].initiative
              /\ RunRow(q).action = "ASSESSMENT" => RunRow(q).initiative # Nothing
          BY ReadyRow
        <4>2. /\ RunRow(q).message \in DOMAIN message'
              /\ RunRow(q).thread \in DOMAIN thread'
              /\ RunRow(q).initiative \in DOMAIN initiative' \cup {Nothing}
              /\ RunRow(q).action = "ASSESSMENT" => RunRow(q).initiative # Nothing
          BY <4>1
        <4>3. QED
          BY <3>3, <4>2
      <3>4. QED
        BY <1>1, <3>1, <3>2, <3>3
    <2>2. email \in Mailboxes /\ email \in [Requests -> EmailRecord] /\ faults \in 0..MaxFaults
          /\ DOMAIN thread \subseteq Conversations /\ DOMAIN message \subseteq MessageIds
          /\ \A m \in DOMAIN message : message[m] \in [thread : DOMAIN thread, payload : Payloads]
      BY DEF IInv, Shaped
    <2>3. QED
      BY <1>1, <1>2, <2>1, <2>2 DEF Shaped
  <1>4. StoredAsSent'
    BY <1>2 DEF IInv, StoredAsSent
  <1>5. SessionsOK'
    BY <1>2, StartOK, SessionsReplaced DEF IInv
  <1>6. LateSettled'
    <2>1. SUFFICES ASSUME NEW r \in Requests, session'[r].late
                   PROVE  Settled(r)'
      BY DEF LateSettled
    <2>2. ~Answered.late /\ Answered.pc # "storing"
      BY StartOK
    <2>3. Settled(r)
      BY <1>2, <2>1, <2>2 DEF IInv, LateSettled
    <2>4. \A p \in Requests :
             session'[p].pc = "storing" /\ session'[p].thread = email[r].conversation =>
                email[p].payload # email[r].payload
      BY <1>2, <2>2, <2>3 DEF Settled
    <2>5. \A x : HasRun(x) => HasRun(x)'
      BY <1>1 DEF HasRun
    <2>6. QED
      BY <1>2, <2>3, <2>4, <2>5, SettledKept
  <1>7. ReplayAddsNothing'
    BY <1>1, ReadyRow DEF IInv, ReplayAddsNothing
  <1>8. QED
    BY <1>3, <1>4, <1>5, <1>6, <1>7

LEMMA CommitRunPreserves ==
    ASSUME IInv, NEW q \in Requests, CommitRun(q)
    PROVE  IInv'
  <1>0. /\ session[q].pc = "ready" /\ session[q].action # "ASSESSMENT"
        /\ run' = Append(run, RunRow(q)) /\ Continue(q, Answered)
        /\ thread' = thread /\ message' = message /\ initiative' = initiative
        /\ evidence' = evidence /\ version' = version /\ faults' = faults
    BY DEF CommitRun
  <1>1. /\ DOMAIN run \subseteq DOMAIN run'
        /\ \A n \in DOMAIN run : run'[n] = run[n]
        /\ \A n \in DOMAIN run' : n \in DOMAIN run \/ run'[n] = RunRow(q)
    BY <1>0, RunCommitted
  <1>2. Assessed' = Assessed
    <2>1. RunRow(q).action # "ASSESSMENT"
      BY <1>0, ReadyRow
    <2>2. \A n : n \in DOMAIN run' /\ run'[n].action = "ASSESSMENT"
                 <=> n \in DOMAIN run /\ run[n].action = "ASSESSMENT"
      BY <1>1, <2>1
    <2>3. \A n : n \in Assessed' <=> n \in Assessed
      BY <2>2 DEF Assessed
    <2>4. QED
      BY <2>3
  <1>3. \A n \in Assessed : run'[n] = run[n]
    BY <1>1 DEF Assessed
  <1>4. SnapshotCoversAssessment'
    BY <1>0, <1>2, <1>3 DEF IInv, SnapshotCoversAssessment
  <1>41. NoOrphanInitiative' /\ RowsVersioned'
    BY <1>0, <1>2, <1>3 DEF IInv, NoOrphanInitiative, RowsVersioned
  <1>5. Shaped' /\ StoredAsSent' /\ SessionsOK' /\ LateSettled' /\ ReplayAddsNothing'
    <2>1. session[q].initiative \in DOMAIN initiative \cup {Nothing}
      BY <1>0 DEF IInv, SessionsOK, SessionOK
    <2>2. QED
      BY <1>0, <2>1, CommitKeeps DEF IInv, Shaped
  <1>6. QED
    BY <1>4, <1>41, <1>5 DEF IInv

\* The initiative of an assessment is a row.
LEMMA AssessedInitiative ==
    ASSUME IInv, NEW n \in Assessed
    PROVE  run[n].initiative \in Initiatives
  BY DEF IInv, Shaped, Assessed

LEMMA CommitAssessmentPreserves ==
    ASSUME IInv, NEW q \in Requests, CommitAssessment(q)
    PROVE  IInv'
  <1>0. PICK s : s = session[q]
    OBVIOUS
  <1>1. /\ s.pc = "ready" /\ s.action = "ASSESSMENT"
        /\ s.new_items \cap evidence[s.initiative] = {}
        /\ \/ s.number = Len(version[s.initiative]) + 1
           \/ s.number \in DOMAIN version[s.initiative] /\ version[s.initiative][s.number] = s.items
        /\ thread' = IF s.link = Nothing THEN [thread EXCEPT ![s.thread].initiative = s.initiative]
                     ELSE thread
        /\ initiative' = WithNewInitiative(q)
        /\ evidence' = [evidence EXCEPT ![s.initiative] = @ \cup s.new_items]
        /\ version' = [version EXCEPT ![s.initiative] =
                          IF s.number \in DOMAIN @ THEN @ ELSE Append(@, s.items)]
        /\ run' = Append(run, RunRow(q)) /\ Continue(q, Answered)
        /\ message' = message /\ faults' = faults
    BY <1>0 DEF CommitAssessment, NoConflict
  <1>2. /\ s \in SessionType /\ s.thread \in DOMAIN thread /\ s.message \in DOMAIN message
        /\ s.initiative \in DOMAIN initiative \cup {q} /\ s.initiative \in Initiatives
        /\ s.read \subseteq s.items
    <2>1. SessionOK(q, s)
      BY <1>0 DEF IInv, SessionsOK
    <2>2. DOMAIN initiative \subseteq Initiatives
      BY DEF IInv, Shaped
    <2>21. q \in Initiatives
      BY DEF Initiatives
    <2>3. QED
      BY <1>1, <2>1, <2>2, <2>21 DEF SessionOK, Underway
  <1>3. PICK i, items, read, number :
           i = s.initiative /\ items = s.items /\ read = s.read /\ number = s.number
    OBVIOUS
  <1>4. /\ i \in Initiatives /\ items \in SUBSET Sources /\ read \subseteq items /\ number \in Nat
        /\ s.new_items \in SUBSET Sources
    BY <1>2, <1>3 DEF SessionType
  <1>5. /\ DOMAIN initiative' = DOMAIN initiative \cup {i}
        /\ \A j \in DOMAIN initiative' : initiative'[j] \in Pilots
    <2>1. /\ thread[s.thread].pilot \in Pilots
          /\ \A j \in DOMAIN initiative : initiative[j] \in Pilots
      BY <1>2 DEF IInv, Shaped
    <2>2. PICK pilot \in Pilots : pilot = thread[s.thread].pilot
      BY <2>1
    <2>3. initiative' = IF i = q THEN Put(initiative, q, pilot) ELSE initiative
      BY <1>0, <1>1, <1>3, <2>2 DEF WithNewInitiative
    <2>4. QED
      BY <1>2, <1>3, <2>1, <2>3 DEF Put
  <1>6. /\ DOMAIN thread' = DOMAIN thread
        /\ \A t \in DOMAIN thread :
               thread'[t] \in [pilot : Pilots, initiative : DOMAIN initiative' \cup {Nothing}]
    <2>1. \A t \in DOMAIN thread :
             thread[t] \in [pilot : Pilots, initiative : DOMAIN initiative' \cup {Nothing}]
      <3>1. \A t \in DOMAIN thread :
               thread[t] \in [pilot : Pilots, initiative : DOMAIN initiative \cup {Nothing}]
        BY DEF IInv, Shaped
      <3>2. QED
        BY <1>5, <3>1
    <2>2. PICK old, owner : old = thread[s.thread] /\ owner = s.thread
      OBVIOUS
    <2>3. old \in [pilot : Pilots, initiative : DOMAIN initiative' \cup {Nothing}]
      BY <1>2, <2>1, <2>2
    <2>4. PICK new : new = [old EXCEPT !.initiative = i]
      OBVIOUS
    <2>5. new \in [pilot : Pilots, initiative : DOMAIN initiative' \cup {Nothing}]
      BY <1>5, <2>3, <2>4
    <2>6. thread' = [thread EXCEPT ![owner] = new] \/ thread' = thread
      BY <1>1, <1>3, <2>2, <2>4
    <2>7. QED
      BY <2>1, <2>5, <2>6
  <1>7. /\ evidence' \in [Initiatives -> SUBSET Sources]
    <2>1. evidence \in [Initiatives -> SUBSET Sources]
      BY DEF IInv, Shaped
    <2>2. PICK added \in SUBSET Sources : added = s.new_items
      BY <1>4
    <2>3. evidence' = [evidence EXCEPT ![i] = evidence[i] \cup added]
      BY <1>1, <1>3, <2>2
    <2>4. evidence[i] \cup added \in SUBSET Sources
      BY <1>4, <2>1
    <2>5. QED
      BY <2>1, <2>3, <2>4
  <1>8. /\ version' \in [Initiatives -> Seq(SUBSET Sources)]
        /\ \A j \in Initiatives : DOMAIN version[j] \subseteq DOMAIN version'[j]
        /\ \A j \in Initiatives : \A n \in DOMAIN version[j] : version'[j][n] = version[j][n]
        /\ number \in DOMAIN version'[i] /\ version'[i][number] = items
    <2>1. version \in [Initiatives -> Seq(SUBSET Sources)]
      BY DEF IInv, Shaped
    <2>2. PICK versions \in Seq(SUBSET Sources) : versions = version[i]
      BY <1>4, <2>1
    <2>3. PICK after :
             after = IF number \in DOMAIN versions THEN versions ELSE Append(versions, items)
      OBVIOUS
    <2>4. \/ number = Len(versions) + 1
          \/ number \in DOMAIN versions /\ versions[number] = items
      BY <1>1, <1>3, <2>2
    <2>5. /\ after \in Seq(SUBSET Sources)
          /\ DOMAIN versions \subseteq DOMAIN after
          /\ \A n \in DOMAIN versions : after[n] = versions[n]
          /\ number \in DOMAIN after /\ after[number] = items
      <3>1. CASE number \in DOMAIN versions
        BY <2>3, <2>4, <3>1
      <3>2. CASE number \notin DOMAIN versions
        BY <1>4, <2>3, <2>4, <3>2
      <3>3. QED
        BY <3>1, <3>2
    <2>6. version' = [version EXCEPT ![i] = after]
      BY <1>1, <1>3, <2>2, <2>3
    <2>7. version'[i] = after /\ \A j \in Initiatives : j # i => version'[j] = version[j]
      BY <1>4, <2>1, <2>6
    <2>8. version' \in [Initiatives -> Seq(SUBSET Sources)]
      BY <2>1, <2>5, <2>6
    <2>9. QED
      BY <2>2, <2>5, <2>7, <2>8
  <1>9. /\ RunRow(q).action = "ASSESSMENT" /\ RunRow(q).initiative = i
        /\ RunRow(q).version = number /\ RunRow(q).assessed = read
    BY <1>0, <1>1, <1>3, ReadyRow
  <1>10. /\ DOMAIN run \subseteq DOMAIN run'
         /\ \A n \in DOMAIN run : run'[n] = run[n]
         /\ \E n \in DOMAIN run' : n \notin DOMAIN run /\ run'[n] = RunRow(q)
         /\ \A n \in DOMAIN run' : n \in DOMAIN run \/ run'[n] = RunRow(q)
    BY <1>0, <1>1, RunCommitted
  <1>11. /\ \A n \in Assessed' : n \in Assessed \/ run'[n] = RunRow(q)
         /\ \A n \in Assessed : n \in Assessed' /\ run'[n] = run[n]
         /\ \E n \in Assessed' : run'[n] = RunRow(q)
    <2>1. /\ \A n : n \in Assessed' <=> n \in DOMAIN run' /\ run'[n].action = "ASSESSMENT"
          /\ \A n : n \in Assessed <=> n \in DOMAIN run /\ run[n].action = "ASSESSMENT"
      BY DEF Assessed
    <2>2. QED
      BY <1>9, <1>10, <2>1
  <1>12. SnapshotCoversAssessment'
    <2>1. SUFFICES ASSUME NEW n \in Assessed'
                   PROVE  /\ run'[n].version \in DOMAIN version'[run'[n].initiative]
                          /\ run'[n].assessed
                                \subseteq version'[run'[n].initiative][run'[n].version]
      BY DEF SnapshotCoversAssessment
    <2>2. CASE run'[n] = RunRow(q)
      BY <1>4, <1>8, <1>9, <2>2
    <2>3. CASE n \in Assessed
      <3>1. PICK j, k, a : j = run[n].initiative /\ k = run[n].version /\ a = run[n].assessed
        OBVIOUS
      <3>2. k \in DOMAIN version[j] /\ a \subseteq version[j][k]
        BY <2>3, <3>1 DEF IInv, SnapshotCoversAssessment
      <3>3. j \in Initiatives
        BY <2>3, <3>1, AssessedInitiative
      <3>4. k \in DOMAIN version'[j] /\ a \subseteq version'[j][k]
        BY <1>8, <3>2, <3>3
      <3>5. run'[n] = run[n]
        BY <1>11, <2>3
      <3>6. QED
        BY <3>1, <3>4, <3>5
    <2>4. QED
      BY <1>11, <2>2, <2>3
  <1>13. NoOrphanInitiative'
    <2>1. \A j \in DOMAIN initiative \ Promoted : \E n \in Assessed' : run'[n].initiative = j
      BY <1>11 DEF IInv, NoOrphanInitiative
    <2>2. \E n \in Assessed' : run'[n].initiative = i
      BY <1>9, <1>11
    <2>3. QED
      BY <1>5, <2>1, <2>2 DEF NoOrphanInitiative
  <1>131. RowsVersioned'
    <2>1. \A j \in Initiatives : j # i => evidence'[j] = evidence[j] /\ version'[j] = version[j]
      <3>1. PICK after, more : /\ version' = [version EXCEPT ![i] = after]
                               /\ evidence' = [evidence EXCEPT ![i] = more]
        BY <1>1, <1>3
      <3>2. QED
        BY <3>1 DEF IInv, Shaped
    <2>2. DOMAIN version'[i] # {}
      BY <1>8
    <2>3. QED
      BY <1>5, <2>1, <2>2 DEF IInv, RowsVersioned
  <1>14. Shaped' /\ StoredAsSent' /\ SessionsOK' /\ LateSettled' /\ ReplayAddsNothing'
    <2>1. session[q].initiative \in DOMAIN initiative' \cup {Nothing}
      BY <1>0, <1>3, <1>5
    <2>2. DOMAIN initiative \subseteq DOMAIN initiative' /\ DOMAIN initiative' \subseteq Initiatives
      BY <1>4, <1>5 DEF IInv, Shaped
    <2>3. QED
      BY <1>0, <1>1, <1>5, <1>6, <1>7, <1>8, <2>1, <2>2, CommitKeeps
  <1>15. QED
    BY <1>12, <1>13, <1>131, <1>14 DEF IInv

-----------------------------------------------------------------------------
(* Scout's steps. *)

\* A candidate becomes a row, with one version of its evidence; no other initiative changes.
LEMMA PromotedRow ==
    ASSUME IInv, NEW i \in Promoted, Promote(i)
    PROVE  /\ i \in Initiatives /\ i \notin Requests /\ i # Nothing /\ i \notin DOMAIN initiative
           /\ DOMAIN initiative' = DOMAIN initiative \cup {i}
           /\ \A j \in DOMAIN initiative' : initiative'[j] \in Pilots
           /\ evidence' \in [Initiatives -> SUBSET Sources]
           /\ version' \in [Initiatives -> Seq(SUBSET Sources)]
           /\ evidence[i] = {} /\ version[i] = << >>
           /\ evidence'[i] = {<<"scout", i>>} /\ version'[i] = <<evidence'[i]>>
           /\ \A j \in Initiatives \ {i} : evidence'[j] = evidence[j] /\ version'[j] = version[j]
  <1>1. i \in Initiatives /\ i \notin Requests /\ i # Nothing
    BY PromotedAssumption, NothingAssumption DEF Initiatives
  <1>2. i \notin DOMAIN initiative /\ evidence[i] = {} /\ version[i] = << >>
    BY <1>1 DEF Promote, IInv, RowsVersioned
  <1>3. /\ DOMAIN initiative' = DOMAIN initiative \cup {i}
        /\ \A j \in DOMAIN initiative' : initiative'[j] \in Pilots
    BY DEF Promote, Put, IInv, Shaped
  <1>4. PICK items \in SUBSET Sources : items = {<<"scout", i>>}
    <2>1. <<"scout", i>> \in {"scout"} \X Promoted
      OBVIOUS
    <2>2. <<"scout", i>> \in Sources
      BY <2>1 DEF Sources
    <2>3. {<<"scout", i>>} \in SUBSET Sources
      BY <2>2
    <2>4. QED
      BY <2>3
  <1>5. PICK one : one = <<items>> /\ one \in Seq(SUBSET Sources)
    <2>1. PICK sets : sets = SUBSET Sources
      OBVIOUS
    <2>2. items \in sets
      BY <2>1
    <2>3. <<items>> \in Seq(sets)
      BY <2>2
    <2>4. QED
      BY <2>1, <2>3
  <1>6. evidence' = [evidence EXCEPT ![i] = items] /\ version' = [version EXCEPT ![i] = one]
    BY <1>4, <1>5 DEF Promote
  <1>7. evidence \in [Initiatives -> SUBSET Sources] /\ version \in [Initiatives -> Seq(SUBSET Sources)]
    BY DEF IInv, Shaped
  <1>8. /\ evidence' \in [Initiatives -> SUBSET Sources]
        /\ version' \in [Initiatives -> Seq(SUBSET Sources)]
        /\ evidence'[i] = items /\ version'[i] = one
        /\ \A j \in Initiatives \ {i} : evidence'[j] = evidence[j] /\ version'[j] = version[j]
    BY <1>1, <1>4, <1>5, <1>6, <1>7
  <1>9. QED
    BY <1>1, <1>2, <1>3, <1>4, <1>5, <1>8

LEMMA PromotePreserves ==
    ASSUME IInv, NEW i \in Promoted, Promote(i)
    PROVE  IInv'
  <1>0. /\ email' = email /\ thread' = thread /\ message' = message /\ run' = run
        /\ session' = session /\ faults' = faults
    BY DEF Promote
  <1>1. DOMAIN initiative \subseteq DOMAIN initiative' /\ DOMAIN initiative' \subseteq Initiatives
    BY PromotedRow DEF IInv, Shaped
  <1>2. Shaped'
    <2>1. \A t \in DOMAIN thread :
             thread[t] \in [pilot : Pilots, initiative : DOMAIN initiative' \cup {Nothing}]
      <3>1. \A t \in DOMAIN thread :
               thread[t] \in [pilot : Pilots, initiative : DOMAIN initiative \cup {Nothing}]
        BY DEF IInv, Shaped
      <3>2. QED
        BY <1>1, <3>1
    <2>2. \A n \in DOMAIN run :
             /\ run[n].message \in DOMAIN message
             /\ run[n].thread \in DOMAIN thread
             /\ run[n].initiative \in DOMAIN initiative' \cup {Nothing}
             /\ run[n].action = "ASSESSMENT" => run[n].initiative # Nothing
      BY <1>1 DEF IInv, Shaped
    <2>3. /\ email \in Mailboxes /\ email \in [Requests -> EmailRecord] /\ faults \in 0..MaxFaults
          /\ DOMAIN thread \subseteq Conversations /\ DOMAIN message \subseteq MessageIds
          /\ \A m \in DOMAIN message : message[m] \in [thread : DOMAIN thread, payload : Payloads]
          /\ run \in Seq(RunType)
      BY DEF IInv, Shaped
    <2>4. QED
      BY <1>0, <1>1, <2>1, <2>2, <2>3, PromotedRow DEF Shaped
  <1>3. StoredAsSent' /\ ReplayAddsNothing'
    BY <1>0 DEF IInv, StoredAsSent, ReplayAddsNothing
  <1>4. SessionsOK'
    <2>1. SUFFICES ASSUME NEW p \in Requests
                   PROVE  SessionOK(p, session[p])'
      BY <1>0 DEF IInv, SessionsOK
    <2>2. PICK s : s = session[p] /\ SessionOK(p, s)
      BY DEF IInv, SessionsOK
    <2>3. SessionOK(p, s)'
      BY <1>0, <1>1, <2>2, SessionKept
    <2>4. QED
      BY <1>0, <2>2, <2>3 DEF SessionOK, Underway
  <1>5. LateSettled'
    <2>1. SUFFICES ASSUME NEW r \in Requests, session[r].late
                   PROVE  Settled(r)'
      BY <1>0 DEF LateSettled
    <2>2. Settled(r)
      BY <2>1 DEF IInv, LateSettled
    <2>3. QED
      BY <1>0, <2>2 DEF Settled, CopiesIn, Copies, HasRun
  <1>6. SnapshotCoversAssessment'
    <2>1. Assessed' = Assessed
      BY <1>0 DEF Assessed
    <2>2. ASSUME NEW n \in Assessed
          PROVE  run[n].initiative \in Initiatives \ {i}
      <3>1. n \in DOMAIN run /\ run[n].action = "ASSESSMENT"
        BY DEF Assessed
      <3>2. run[n].initiative \in DOMAIN initiative
        BY <3>1 DEF IInv, Shaped
      <3>3. DOMAIN initiative \subseteq Initiatives /\ i \notin DOMAIN initiative
        BY PromotedRow DEF IInv, Shaped
      <3>4. QED
        BY <3>2, <3>3
    <2>3. \A n \in Assessed : version'[run[n].initiative] = version[run[n].initiative]
      BY <2>2, PromotedRow
    <2>4. QED
      BY <1>0, <2>1, <2>3 DEF IInv, SnapshotCoversAssessment
  <1>7. NoOrphanInitiative'
    BY <1>0, PromotedRow DEF IInv, NoOrphanInitiative, Assessed
  <1>8. RowsVersioned'
    <2>1. DOMAIN version'[i] # {}
      <3>1. PICK items, one : one = version'[i] /\ one = <<items>>
        BY PromotedRow
      <3>2. 1 \in DOMAIN one
        BY <3>1
      <3>3. QED
        BY <3>1, <3>2
    <2>2. QED
      BY <2>1, PromotedRow DEF IInv, RowsVersioned
  <1>9. QED
    BY <1>2, <1>3, <1>4, <1>5, <1>6, <1>7, <1>8 DEF IInv

-----------------------------------------------------------------------------
(* All steps. *)

LEMMA InitEstablishes ==
    ASSUME Init
    PROVE  IInv
  <1>1. email \in [Requests -> EmailRecord]
    BY MailboxAssumption DEF Init
  <1>2. \A q \in Requests : session[q] = Start /\ SessionOK(q, session[q]) /\ ~session[q].late
    BY StartOK DEF Init
  <1>3. /\ DOMAIN thread = {} /\ DOMAIN message = {} /\ DOMAIN initiative = {}
        /\ DOMAIN run = {} /\ run \in Seq(RunType)
        /\ evidence \in [Initiatives -> SUBSET Sources]
        /\ version \in [Initiatives -> Seq(SUBSET Sources)]
        /\ DOMAIN session = Requests /\ email \in Mailboxes /\ faults \in 0..MaxFaults
    BY FaultAssumption DEF Init
  <1>4. Shaped
    BY <1>1, <1>3 DEF Shaped
  <1>5. StoredAsSent /\ SessionsOK /\ LateSettled
    BY <1>2, <1>3 DEF StoredAsSent, SessionsOK, LateSettled
  <1>6. ReplayAddsNothing /\ SnapshotCoversAssessment /\ NoOrphanInitiative
    BY <1>3 DEF ReplayAddsNothing, SnapshotCoversAssessment, NoOrphanInitiative, Assessed
  <1>61. RowsVersioned
    BY <1>3 DEF Init, RowsVersioned
  <1>7. QED
    BY <1>4, <1>5, <1>6, <1>61 DEF IInv

LEMMA NextPreserves ==
    ASSUME IInv, [Next]_vars
    PROVE  IInv'
  <1>1. CASE UNCHANGED vars
    <2>1. /\ email' = email /\ session' = session /\ faults' = faults
          /\ thread' = thread /\ message' = message /\ initiative' = initiative
          /\ evidence' = evidence /\ version' = version /\ run' = run
      BY <1>1 DEF vars, tables
    <2>2. Shaped' /\ StoredAsSent'
      BY <2>1 DEF IInv, Shaped, StoredAsSent
    <2>3. SessionsOK'
      BY <2>1 DEF IInv, SessionsOK, SessionOK, Underway
    <2>4. LateSettled'
      BY <2>1 DEF IInv, LateSettled, Settled, CopiesIn, Copies, HasRun
    <2>5. ReplayAddsNothing' /\ SnapshotCoversAssessment' /\ NoOrphanInitiative' /\ RowsVersioned'
      BY <2>1 DEF IInv, ReplayAddsNothing, SnapshotCoversAssessment, NoOrphanInitiative, RowsVersioned, Assessed
    <2>6. QED
      BY <2>2, <2>3, <2>4, <2>5 DEF IInv
  <1>2. ASSUME NEW q \in Requests, RefuseAttachment(q) \/ Conflict(q) \/ Fail(q) \/ LoseAnswer(q)
        PROVE  IInv'
    <2>1. (Continue(q, Start) \/ Continue(q, Refused)) /\ UNCHANGED tables
      BY <1>2 DEF RefuseAttachment, Conflict, Fail, LoseAnswer
    <2>2. faults \in 0..MaxFaults
      BY DEF IInv, Shaped
    <2>3. faults' \in 0..MaxFaults
      BY <1>2, <2>2, FaultAssumption DEF RefuseAttachment, Conflict, Fail, LoseAnswer
    <2>4. QED
      BY <2>1, <2>3, EndedPreserves
  <1>3. ASSUME NEW q \in Requests, Advance(q)
        PROVE  IInv'
    BY <1>2, <1>3, LookupPreserves, MatchThreadPreserves, StorePreserves, AssessPreserves,
       CoachPreserves, EnsureInitiativePreserves, CaptureEvidencePreserves,
       NumberVersionPreserves, CommitRunPreserves, CommitAssessmentPreserves DEF Advance
  <1>4. QED
    BY <1>1, <1>2, <1>3, PromotePreserves DEF Next

\* Whatever requests, repetitions and failures came: the tables agree with each other, and
\* every session will write what they allow.
THEOREM Invariance == Spec => []IInv
  <1>1. Init => IInv
    BY InitEstablishes
  <1>2. IInv /\ [Next]_vars => IInv'
    BY NextPreserves
  <1>3. QED
    BY <1>1, <1>2, PTL DEF Spec

\* The tables keep their types, and what a row refers to is a row of its table
\* (the foreign keys of email_messages, oliver_runs and email_threads).
THEOREM TypeCorrect == Spec => []TypeOK
  <1>1. ASSUME IInv
        PROVE  TypeOK
    <2>1. run \in Seq([message : DOMAIN message, thread : DOMAIN thread, action : Actions,
                       initiative : DOMAIN initiative \cup {Nothing}, version : Nat,
                       assessed : SUBSET Sources, late : BOOLEAN])
      <3>1. /\ run \in Seq(RunType)
            /\ \A n \in DOMAIN run :
                  /\ run[n].message \in DOMAIN message
                  /\ run[n].thread \in DOMAIN thread
                  /\ run[n].initiative \in DOMAIN initiative \cup {Nothing}
        BY <1>1 DEF IInv, Shaped
      <3>2. Len(run) \in Nat /\ DOMAIN run = 1..Len(run) /\ \A n \in DOMAIN run : run[n] \in RunType
        BY <3>1
      <3>3. PICK rows : rows = [message : DOMAIN message, thread : DOMAIN thread, action : Actions,
                               initiative : DOMAIN initiative \cup {Nothing}, version : Nat,
                               assessed : SUBSET Sources, late : BOOLEAN]
        OBVIOUS
      <3>4. \A n \in DOMAIN run : run[n] \in rows
        BY <3>1, <3>2, <3>3 DEF RunType
      <3>5. run = [n \in 1..Len(run) |-> run[n]]
        BY <3>1
      <3>6. run \in Seq(rows)
        BY <3>2, <3>4, <3>5
      <3>7. QED
        BY <3>3, <3>6
    <2>2. \A q \in Requests : session[q].pc \in Steps
      BY <1>1 DEF IInv, SessionsOK, SessionOK, SessionType
    <2>3. QED
      BY <1>1, <2>1, <2>2 DEF IInv, Shaped, TypeOK
  <1>2. QED
    BY <1>1, Invariance, PTL

\* An email that was answered before a request came, under the same message id or another,
\* is never assessed or answered a second time for that request (_is_replayed_message).
THEOREM ReplaysRecognised == Spec => []ReplayAddsNothing
  BY Invariance, PTL DEF IInv

\* Whichever requests assess the same initiative at the same time, the evidence version a
\* run refers to holds all the run has read (capture_message_evidence).
THEOREM SnapshotsCover == Spec => []SnapshotCoversAssessment
  BY Invariance, PTL DEF IInv

\* A request that fails, wherever it does, leaves no initiative without an assessment
\* (ensure_initiative flushes, the commit of the run commits it); only those of Scout's
\* promote may have none yet.
THEOREM InitiativesAssessed == Spec => []NoOrphanInitiative
  BY Invariance, PTL DEF IInv

-----------------------------------------------------------------------------
(* Evidence versions. *)

\* The items of a version are evidence of the initiative the version is of.
VersionsBacked ==
    \A i \in Initiatives : \A n \in DOMAIN version[i] : version[i][n] \subseteq evidence[i]

\* No two versions of an initiative have the same items.
VersionsDistinct ==
    \A i \in Initiatives : \A m, n \in DOMAIN version[i] : version[i][m] = version[i][n] => m = n

\* The session is about to write an evidence version.
Writes(s) == s.pc \in {"captured", "ready"} /\ s.action = "ASSESSMENT"

\* What it will write are evidence and its new items, and no version below its number has them.
WriterOK(s) ==
    Writes(s) =>
        /\ s.items \subseteq evidence[s.initiative] \cup s.new_items
        /\ s.pc = "ready" =>
              /\ s.number \in 1..(Len(version[s.initiative]) + 1)
              /\ \A n \in DOMAIN version[s.initiative] :
                    n < s.number => version[s.initiative][n] # s.items

WritersOK == \A q \in Requests : WriterOK(session[q])

EInv == IInv /\ VersionsBacked /\ VersionsDistinct /\ WritersOK

\* Lengths of evidence versions are numbers.
LEMMA LengthOfVersions ==
    ASSUME IInv, NEW i \in Initiatives
    PROVE  /\ version[i] \in Seq(SUBSET Sources)
           /\ Len(version[i]) \in Nat /\ DOMAIN version[i] = 1..Len(version[i])
  <1>1. version[i] \in Seq(SUBSET Sources)
    BY DEF IInv, Shaped
  <1>2. QED
    BY <1>1

\* An assessment adds its new items to the evidence of its initiative, and a version of its
\* items at the end if it did not reuse one.
LEMMA AssessmentVersions ==
    ASSUME IInv, NEW q \in Requests, CommitAssessment(q)
    PROVE  /\ session[q] \in SessionType /\ session[q].initiative \in Initiatives
           /\ Writes(session[q]) /\ session[q].pc = "ready"
           /\ \A i \in Initiatives :
                 evidence'[i] = IF i = session[q].initiative THEN evidence[i] \cup session[q].new_items
                                ELSE evidence[i]
           /\ \A i \in Initiatives :
                 version'[i] = IF /\ i = session[q].initiative
                                  /\ session[q].number \notin DOMAIN version[i]
                                 THEN Append(version[i], session[q].items) ELSE version[i]
           /\ \/ session[q].number = Len(version[session[q].initiative]) + 1
              \/ session[q].number \in DOMAIN version[session[q].initiative]
  <1>1. /\ session[q] \in SessionType /\ session[q].initiative # Nothing
        /\ session[q].pc = "ready" /\ session[q].action = "ASSESSMENT"
    BY DEF CommitAssessment, IInv, SessionsOK, SessionOK
  <1>2. session[q].initiative \in Initiatives
    BY <1>1 DEF SessionType
  <1>3. version \in [Initiatives -> Seq(SUBSET Sources)] /\ evidence \in [Initiatives -> SUBSET Sources]
    BY DEF IInv, Shaped
  <1>4. PICK i0, items, added, number :
           /\ i0 = session[q].initiative /\ items = session[q].items
           /\ added = session[q].new_items /\ number = session[q].number
    OBVIOUS
  <1>5. PICK after, more : /\ after = IF number \in DOMAIN version[i0] THEN version[i0]
                                      ELSE Append(version[i0], items)
                           /\ more = evidence[i0] \cup added
    OBVIOUS
  <1>6. version' = [version EXCEPT ![i0] = after] /\ evidence' = [evidence EXCEPT ![i0] = more]
    BY <1>4, <1>5 DEF CommitAssessment
  <1>7. \A i \in Initiatives : /\ version'[i] = IF i = i0 THEN after ELSE version[i]
                            /\ evidence'[i] = IF i = i0 THEN more ELSE evidence[i]
    BY <1>3, <1>6
  <1>8. number = Len(version[i0]) + 1 \/ number \in DOMAIN version[i0]
    BY <1>4 DEF CommitAssessment, NoConflict
  <1>9. QED
    BY <1>1, <1>2, <1>4, <1>5, <1>7, <1>8 DEF Writes

\* A version that is appended leaves the others alone.
LEMMA VersionAppended ==
    ASSUME NEW versions \in Seq(SUBSET Sources), NEW items \in SUBSET Sources, NEW after,
           after = Append(versions, items)
    PROVE  /\ Len(versions) \in Nat /\ Len(after) = Len(versions) + 1
           /\ DOMAIN versions = 1..Len(versions) /\ DOMAIN after = 1..(Len(versions) + 1)
           /\ \A n \in DOMAIN versions : n \in DOMAIN after /\ after[n] = versions[n]
           /\ after[Len(versions) + 1] = items
  OBVIOUS

\* Evidence is only added, and a version is never changed.
EvidenceGrows ==
    \A i \in Initiatives :
        /\ evidence[i] \subseteq evidence'[i]
        /\ Len(version[i]) <= Len(version'[i])
        /\ \A n \in DOMAIN version[i] : n \in DOMAIN version'[i] /\ version'[i][n] = version[i][n]

LEMMA AssessmentGrows ==
    ASSUME IInv, NEW q \in Requests, CommitAssessment(q)
    PROVE  EvidenceGrows
  <1>1. SUFFICES ASSUME NEW i \in Initiatives
                 PROVE  /\ evidence[i] \subseteq evidence'[i]
                        /\ Len(version[i]) <= Len(version'[i])
                        /\ \A n \in DOMAIN version[i] :
                              n \in DOMAIN version'[i] /\ version'[i][n] = version[i][n]
    BY DEF EvidenceGrows
  <1>2. evidence[i] \subseteq evidence'[i]
    BY AssessmentVersions
  <1>3. session[q].items \in SUBSET Sources
    BY AssessmentVersions DEF SessionType
  <1>4. version[i] \in Seq(SUBSET Sources) /\ Len(version[i]) \in Nat
    BY LengthOfVersions
  <1>5. CASE version'[i] = version[i]
    BY <1>2, <1>4, <1>5
  <1>6. CASE version'[i] = Append(version[i], session[q].items)
    BY <1>2, <1>3, <1>4, <1>6, VersionAppended
  <1>7. QED
    BY <1>5, <1>6, AssessmentVersions

\* The steps that only read the tables, or give the transaction up.
ReadsOnly(q) ==
    \/ Lookup(q) \/ MatchThread(q) \/ Coach(q) \/ CaptureEvidence(q) \/ NumberVersion(q)
    \/ RefuseAttachment(q) \/ Conflict(q) \/ Fail(q) \/ LoseAnswer(q)

LEMMA ReadingSteps ==
    ASSUME NEW q, ReadsOnly(q)
    PROVE  UNCHANGED tables
  <1>1. MatchThread(q) => UNCHANGED tables
    <2>1. MatchThread(q) => UNCHANGED <<tables, faults>>
      BY ZenonT(30) DEF MatchThread
    <2>2. QED
      BY <2>1
  <1>2. Lookup(q) => UNCHANGED tables
    BY DEF Lookup
  <1>3. Coach(q) => UNCHANGED tables
    BY DEF Coach
  <1>4. CaptureEvidence(q) => UNCHANGED tables
    BY DEF CaptureEvidence
  <1>5. NumberVersion(q) => UNCHANGED tables
    BY DEF NumberVersion
  <1>6. RefuseAttachment(q) \/ Conflict(q) \/ Fail(q) \/ LoseAnswer(q) => UNCHANGED tables
    BY DEF RefuseAttachment, Conflict, Fail, LoseAnswer
  <1>7. QED
    BY <1>1, <1>2, <1>3, <1>4, <1>5, <1>6 DEF ReadsOnly

\* Nothing but the commit of an assessment touches evidence.
LEMMA EvidenceStays ==
    ASSUME NEW q \in Requests, Advance(q) \/ Fail(q) \/ LoseAnswer(q), ~CommitAssessment(q)
    PROVE  evidence' = evidence /\ version' = version
  <1>1. Store(q) \/ Assess(q) \/ EnsureInitiative(q) \/ CommitRun(q) => UNCHANGED <<evidence, version>>
    BY DEF Store, Assess, EnsureInitiative, CommitRun
  <1>2. ReadsOnly(q) => UNCHANGED <<evidence, version>>
    BY ReadingSteps DEF tables
  <1>3. QED
    BY <1>1, <1>2 DEF Advance, ReadsOnly

\* The session of q goes on and is not about to write a version.
WritesNothing(q) == \E s : session' = [session EXCEPT ![q] = s] /\ ~Writes(s)

LEMMA NoWriter ==
    ASSUME IInv, NEW q \in Requests, Advance(q) \/ Fail(q) \/ LoseAnswer(q),
           ~CaptureEvidence(q), ~NumberVersion(q)
    PROVE  WritesNothing(q)
  <1> DEFINE old == session[q]
  <1>0. old \in SessionType
    BY DEF IInv, SessionsOK, SessionOK
  <1>1. ASSUME NEW s, Continue(q, s), s.pc \notin {"captured", "ready"} \/ s.action # "ASSESSMENT"
        PROVE  WritesNothing(q)
    BY <1>1 DEF WritesNothing, Writes, Continue
  <1>2. Continue(q, Start) \/ Continue(q, Answered) \/ Continue(q, Refused) => WritesNothing(q)
    <2>1. Start.pc = "idle" /\ Answered.pc = "answered" /\ Refused.pc = "refused"
      BY DEF Start, Answered, Refused
    <2>2. QED
      BY <1>1, <2>1
  <1>3. ASSUME NEW step \in Steps
        PROVE  Goes(q, step) \in SessionType /\ Goes(q, step).pc = step
    <2>1. PICK was \in SessionType : was = old
      BY <1>0
    <2>2. [was EXCEPT !.pc = step] \in SessionType /\ [was EXCEPT !.pc = step].pc = step
      BY DEF SessionType
    <2>3. QED
      BY <2>1, <2>2 DEF Goes
  <1>4. CASE Lookup(q)
    <2>1. CASE Continue(q, [Start EXCEPT !.pc = "unknown", !.late = AnsweredBefore(q)])
      <3>1. PICK late : late = AnsweredBefore(q)
        OBVIOUS
      <3>2. PICK s : s = [Start EXCEPT !.pc = "unknown", !.late = late]
        OBVIOUS
      <3>3. s.pc = "unknown"
        BY <3>2 DEF Start
      <3>4. QED
        BY <1>1, <2>1, <3>1, <3>2, <3>3
    <2>2. CASE Continue(q, [Start EXCEPT !.pc = "stored", !.late = AnsweredBefore(q),
                                         !.message = email[q].id,
                                         !.thread = message[email[q].id].thread])
      <3>1. PICK late, m, t : /\ late = AnsweredBefore(q) /\ m = email[q].id
                              /\ t = message[email[q].id].thread
        OBVIOUS
      <3>2. PICK s : s = [Start EXCEPT !.pc = "stored", !.late = late, !.message = m, !.thread = t]
        OBVIOUS
      <3>3. s.pc = "stored"
        BY <3>2 DEF Start
      <3>4. QED
        BY <1>1, <2>2, <3>1, <3>2, <3>3
    <2>3. QED
      BY <1>2, <1>4, <2>1, <2>2 DEF Lookup, Replay
  <1>5. CASE MatchThread(q)
    <2>1. ASSUME NEW t, Continue(q, [Goes(q, "storing") EXCEPT !.thread = t])
          PROVE  WritesNothing(q)
      <3>1. PICK base : base = Goes(q, "storing")
        OBVIOUS
      <3>2. PICK s : s = [base EXCEPT !.thread = t]
        OBVIOUS
      <3>3. Continue(q, s)
        BY <2>1, <3>1, <3>2
      <3>4. s.pc = "storing"
        BY <1>3, <3>1, <3>2 DEF SessionType, Steps
      <3>5. QED
        BY <1>1, <3>3, <3>4
    <2>2. ASSUME NEW t, Continue(q, [Goes(q, "storing") EXCEPT !.thread = t, !.new_thread = TRUE])
          PROVE  WritesNothing(q)
      <3>1. PICK base : base = Goes(q, "storing")
        OBVIOUS
      <3>2. PICK s : s = [base EXCEPT !.thread = t, !.new_thread = TRUE]
        OBVIOUS
      <3>3. Continue(q, s)
        BY <2>2, <3>1, <3>2
      <3>4. s.pc = "storing"
        BY <1>3, <3>1, <3>2 DEF SessionType, Steps
      <3>5. QED
        BY <1>1, <3>3, <3>4
    <2>3. ASSUME NEW t, NEW m,
                 Continue(q, [Goes(q, "stored") EXCEPT !.thread = t, !.message = m,
                                                       !.renames = TRUE])
          PROVE  WritesNothing(q)
      <3>1. PICK base : base = Goes(q, "stored")
        OBVIOUS
      <3>2. PICK s : s = [base EXCEPT !.thread = t, !.message = m, !.renames = TRUE]
        OBVIOUS
      <3>3. Continue(q, s)
        BY <2>3, <3>1, <3>2
      <3>4. s.pc = "stored"
        BY <1>3, <3>1, <3>2 DEF SessionType, Steps
      <3>5. QED
        BY <1>1, <3>3, <3>4
    <2>4. QED
      BY <1>2, <1>5, <2>1, <2>2, <2>3, ZenonT(30) DEF MatchThread, Replay
  <1>6. CASE Store(q)
    <2>1. CASE Continue(q, [Goes(q, "stored") EXCEPT !.message = email[q].id])
      <3>0. PICK m : m = email[q].id
        OBVIOUS
      <3>1. PICK base : base = Goes(q, "stored")
        OBVIOUS
      <3>2. PICK s : s = [base EXCEPT !.message = m]
        OBVIOUS
      <3>3. Continue(q, s)
        BY <2>1, <3>0, <3>1, <3>2
      <3>4. s.pc = "stored"
        BY <1>3, <3>1, <3>2 DEF SessionType, Steps
      <3>5. QED
        BY <1>1, <3>3, <3>4
    <2>2. QED
      BY <1>2, <1>6, <2>1 DEF Store
  <1>7. CASE Assess(q)
    <2>0. PICK sources, first : sources = Read(q) /\ first = FirstStage(q)
      OBVIOUS
    <2>1. PICK base : base = Goes(q, "assessed")
      OBVIOUS
    <2>2. PICK s : s = [base EXCEPT !.read = sources, !.first = first]
      OBVIOUS
    <2>3. Continue(q, s)
      BY <1>7, <2>0, <2>1, <2>2 DEF Assess
    <2>4. s.pc = "assessed"
      BY <1>3, <2>1, <2>2 DEF SessionType, Steps
    <2>5. QED
      BY <1>1, <2>3, <2>4
  <1>8. CASE Coach(q)
    <2>1. PICK action \in Actions :
             Continue(q, [old EXCEPT !.pc = IF action = "ASSESSMENT" THEN "linking" ELSE "ready",
                                     !.action = action,
                                     !.link = thread[old.thread].initiative])
      BY <1>8, ZenonT(30) DEF Coach
    <2>2. PICK was, link, step : /\ was = old /\ link = thread[old.thread].initiative
                                 /\ step = IF action = "ASSESSMENT" THEN "linking" ELSE "ready"
      OBVIOUS
    <2>3. PICK s : s = [was EXCEPT !.pc = step, !.action = action, !.link = link]
      OBVIOUS
    <2>4. Continue(q, s)
      BY <2>1, <2>2, <2>3
    <2>5. s.pc = step /\ s.action = action
      BY <1>0, <2>2, <2>3 DEF SessionType
    <2>6. QED
      BY <1>1, <2>2, <2>4, <2>5
  <1>9. CASE EnsureInitiative(q)
    <2>0. PICK i : Continue(q, [Goes(q, "resolved") EXCEPT !.initiative = i])
      BY <1>9 DEF EnsureInitiative
    <2>1. PICK base : base = Goes(q, "resolved")
      OBVIOUS
    <2>2. PICK s : s = [base EXCEPT !.initiative = i]
      OBVIOUS
    <2>3. Continue(q, s)
      BY <2>0, <2>1, <2>2
    <2>4. s.pc = "resolved"
      BY <1>3, <2>1, <2>2 DEF SessionType, Steps
    <2>5. QED
      BY <1>1, <2>3, <2>4
  <1>10. CASE \/ CommitRun(q) \/ CommitAssessment(q) \/ RefuseAttachment(q) \/ Conflict(q)
             \/ Fail(q) \/ LoseAnswer(q)
    BY <1>2, <1>10 DEF CommitRun, CommitAssessment, RefuseAttachment, Conflict, Fail, LoseAnswer
  <1>11. QED
    BY <1>4, <1>5, <1>6, <1>7, <1>8, <1>9, <1>10 DEF Advance

\* What the session is after the evidence is captured.
LEMMA Capturing ==
    ASSUME IInv, NEW q \in Requests, CaptureEvidence(q)
    PROVE  \E s : /\ session' = [session EXCEPT ![q] = s]
                  /\ s.pc = "captured" /\ s.initiative = session[q].initiative
                  /\ s.items \subseteq evidence[s.initiative] \cup s.new_items
  <1>1. PICK was : was = session[q]
    OBVIOUS
  <1>2. was \in SessionType
    BY <1>1 DEF IInv, SessionsOK, SessionOK
  <1>3. PICK added, items : /\ added = was.read \ evidence[was.initiative]
                            /\ items = evidence[was.initiative] \cup added
    OBVIOUS
  <1>4. Continue(q, [Goes(q, "captured") EXCEPT !.new_items = added, !.items = items])
    BY <1>1, <1>3 DEF CaptureEvidence, Captured
  <1>5. PICK base : base = [was EXCEPT !.pc = "captured"] /\ base = Goes(q, "captured")
    BY <1>1 DEF Goes
  <1>6. PICK s : s = [base EXCEPT !.new_items = added, !.items = items]
    OBVIOUS
  <1>7. /\ s.pc = "captured" /\ s.initiative = was.initiative
        /\ s.new_items = added /\ s.items = items
    BY <1>2, <1>5, <1>6 DEF SessionType
  <1>8. session' = [session EXCEPT ![q] = s]
    BY <1>4, <1>5, <1>6 DEF Continue
  <1>9. QED
    BY <1>1, <1>3, <1>7, <1>8

\* And after the version is numbered.
LEMMA Numbering ==
    ASSUME IInv, NEW q \in Requests, NumberVersion(q)
    PROVE  \E s, n : /\ session' = [session EXCEPT ![q] = s]
                     /\ s.pc = "ready" /\ s.initiative = session[q].initiative
                     /\ s.action = session[q].action
                     /\ s.items = session[q].items /\ s.new_items = session[q].new_items
                     /\ s.number = n
                     /\ \/ /\ n \in DOMAIN version[session[q].initiative]
                           /\ version[session[q].initiative][n] = session[q].items
                        \/ /\ n = Len(version[session[q].initiative]) + 1
                           /\ \A m \in DOMAIN version[session[q].initiative] :
                                 version[session[q].initiative][m] # session[q].items
  <1>1. PICK was : was = session[q]
    OBVIOUS
  <1>2. was \in SessionType
    BY <1>1 DEF IInv, SessionsOK, SessionOK
  <1>3. PICK n : /\ Continue(q, [Goes(q, "ready") EXCEPT !.number = n])
                 /\ \/ n \in DOMAIN version[was.initiative] /\ version[was.initiative][n] = was.items
                    \/ /\ n = Len(version[was.initiative]) + 1
                       /\ \A m \in DOMAIN version[was.initiative] :
                             version[was.initiative][m] # was.items
    BY <1>1 DEF NumberVersion
  <1>4. PICK base : base = [was EXCEPT !.pc = "ready"] /\ base = Goes(q, "ready")
    BY <1>1 DEF Goes
  <1>5. PICK s : s = [base EXCEPT !.number = n]
    OBVIOUS
  <1>6. /\ s.pc = "ready" /\ s.initiative = was.initiative /\ s.action = was.action
        /\ s.items = was.items /\ s.new_items = was.new_items /\ s.number = n
    BY <1>2, <1>4, <1>5 DEF SessionType
  <1>7. session' = [session EXCEPT ![q] = s]
    BY <1>3, <1>4, <1>5 DEF Continue
  <1>8. QED
    BY <1>1, <1>3, <1>6, <1>7

\* The other sessions go on as they were.
LEMMA OthersStay ==
    ASSUME IInv, NEW q \in Requests, Advance(q) \/ Fail(q) \/ LoseAnswer(q),
           NEW p \in Requests, p # q
    PROVE  session'[p] = session[p]
  <1>1. \E s : session' = [session EXCEPT ![q] = s]
    BY NoWriter, Capturing, Numbering DEF WritesNothing
  <1>2. QED
    BY <1>1, Continued DEF IInv

\* Evidence that grows leaves a writer what it relies on: a version that another session
\* appends comes after the number this one took.
LEMMA WriterKept ==
    ASSUME IInv, IInv', EvidenceGrows, NEW s \in SessionType, s.initiative # Nothing, WriterOK(s)
    PROVE  WriterOK(s)'
  <1> DEFINE i == s.initiative
  <1>1. i \in Initiatives
    BY DEF SessionType
  <1>2. PICK before, after, size, number :
           /\ before = version[i] /\ after = version'[i] /\ size = Len(before) /\ number = s.number
    OBVIOUS
  <1>3. /\ size \in Nat /\ DOMAIN before = 1..size
        /\ Len(after) \in Nat /\ DOMAIN after = 1..Len(after)
    <2>1. version' \in [Initiatives -> Seq(SUBSET Sources)]
      BY DEF IInv, Shaped
    <2>2. after \in Seq(SUBSET Sources)
      BY <1>1, <1>2, <2>1
    <2>3. QED
      BY <1>1, <1>2, <2>2, LengthOfVersions
  <1>4. /\ evidence[i] \subseteq evidence'[i]
        /\ size <= Len(after)
        /\ \A n \in DOMAIN before : after[n] = before[n]
    BY <1>1, <1>2 DEF EvidenceGrows
  <1>5. ASSUME Writes(s)
        PROVE  s.items \subseteq evidence'[i] \cup s.new_items
    BY <1>4, <1>5 DEF WriterOK
  <1>6. ASSUME Writes(s), s.pc = "ready"
        PROVE  number \in 1..(Len(after) + 1) /\ \A n \in DOMAIN after : n < number => after[n] # s.items
    <2>1. /\ number \in 1..(size + 1)
          /\ \A n \in DOMAIN before : n < number => before[n] # s.items
      BY <1>2, <1>6 DEF WriterOK
    <2>2. QED
      BY <1>3, <1>4, <2>1
  <1>7. Writes(s)' = Writes(s)
    BY DEF Writes
  <1>8. QED
    BY <1>2, <1>5, <1>6, <1>7 DEF WriterOK, Writes

LEMMA WritersPreserved ==
    ASSUME EInv, IInv', NEW q \in Requests, Advance(q) \/ Fail(q) \/ LoseAnswer(q), EvidenceGrows
    PROVE  WritersOK'
  <1>0. IInv /\ DOMAIN session = Requests
    BY DEF EInv, IInv, SessionsOK
  <1>1. SUFFICES ASSUME NEW p \in Requests
                 PROVE  WriterOK(session[p])'
    BY DEF WritersOK
  <1>2. PICK r : r = session'[p]
    OBVIOUS
  <1>3. CASE p # q
    <2>1. /\ r = session[p] /\ r \in SessionType /\ WriterOK(r)
          /\ Writes(r) => r.initiative # Nothing
      <3>1. r = session[p]
        BY <1>0, <1>2, <1>3, OthersStay
      <3>2. QED
        BY <3>1 DEF EInv, WritersOK, IInv, SessionsOK, SessionOK, Writes
    <2>2. CASE Writes(r)
      <3>1. WriterOK(r)'
        BY <1>0, <2>1, <2>2, WriterKept
      <3>2. QED
        BY <1>2, <3>1 DEF WriterOK, Writes
    <2>3. CASE ~Writes(r)
      BY <1>2, <2>3 DEF WriterOK, Writes
    <2>4. QED
      BY <2>2, <2>3
  <1>4. CASE p = q /\ ~CaptureEvidence(q) /\ ~NumberVersion(q)
    <2>1. PICK s : session' = [session EXCEPT ![q] = s] /\ ~Writes(s)
      BY <1>0, <1>4, NoWriter DEF WritesNothing
    <2>2. r = s
      BY <1>0, <1>2, <1>4, <2>1
    <2>3. QED
      BY <1>2, <2>1, <2>2 DEF WriterOK, Writes
  <1>5. CASE p = q /\ CaptureEvidence(q)
    <2>1. PICK s : /\ session' = [session EXCEPT ![q] = s]
                   /\ s.pc = "captured"
                   /\ s.items \subseteq evidence[s.initiative] \cup s.new_items
      BY <1>0, <1>5, Capturing
    <2>2. r = s /\ evidence' = evidence
      BY <1>0, <1>2, <1>5, <2>1 DEF CaptureEvidence, tables
    <2>3. QED
      BY <1>2, <2>1, <2>2 DEF WriterOK, Writes
  <1>6. CASE p = q /\ NumberVersion(q)
    <2>1. PICK was, i : was = session[q] /\ i = was.initiative
      OBVIOUS
    <2>2. PICK s, n : /\ session' = [session EXCEPT ![q] = s]
                      /\ s.pc = "ready" /\ s.initiative = i /\ s.action = was.action
                      /\ s.items = was.items /\ s.new_items = was.new_items
                      /\ s.number = n
                      /\ \/ n \in DOMAIN version[i] /\ version[i][n] = was.items
                         \/ /\ n = Len(version[i]) + 1
                            /\ \A m \in DOMAIN version[i] : version[i][m] # was.items
      BY <1>0, <1>6, <2>1, Numbering
    <2>3. r = s /\ evidence' = evidence /\ version' = version
      BY <1>0, <1>2, <1>6, <2>2 DEF NumberVersion, tables
    <2>4. /\ was.pc = "captured" /\ WriterOK(was)
          /\ was.action = "ASSESSMENT" => was.initiative \in Initiatives
      <3>1. /\ was.pc = "captured" /\ WriterOK(was)
            /\ was \in SessionType /\ was.action = "ASSESSMENT" => was.initiative # Nothing
        BY <1>6, <2>1 DEF EInv, WritersOK, NumberVersion, IInv, SessionsOK, SessionOK
      <3>2. was \in SessionType
        BY <2>1 DEF EInv, IInv, SessionsOK, SessionOK
      <3>3. QED
        BY <3>1, <3>2 DEF SessionType
    <2>5. ASSUME was.action = "ASSESSMENT"
          PROVE  /\ was.items \subseteq evidence[i] \cup was.new_items
                 /\ n \in 1..(Len(version[i]) + 1)
                 /\ \A m \in DOMAIN version[i] : m < n => version[i][m] # was.items
      <3>1. i \in Initiatives
        BY <2>1, <2>4, <2>5
      <3>2. PICK versions, size : versions = version[i] /\ size = Len(versions)
        OBVIOUS
      <3>3. size \in Nat /\ DOMAIN versions = 1..size
        BY <1>0, <3>1, <3>2, LengthOfVersions
      <3>4. \A a, b \in DOMAIN versions : versions[a] = versions[b] => a = b
        BY <3>1, <3>2 DEF EInv, VersionsDistinct
      <3>5. n \in 1..(size + 1) /\ \A m \in DOMAIN versions : m < n => versions[m] # was.items
        BY <2>2, <3>2, <3>3, <3>4
      <3>6. was.items \subseteq evidence[i] \cup was.new_items
        BY <2>1, <2>4, <2>5 DEF WriterOK, Writes
      <3>7. QED
        BY <3>2, <3>5, <3>6
    <2>6. WriterOK(r)'
      BY <2>2, <2>3, <2>5 DEF WriterOK, Writes
    <2>7. QED
      BY <1>2, <2>6 DEF WriterOK, Writes
  <1>7. QED
    BY <1>3, <1>4, <1>5, <1>6

\* The commit of an assessment adds a version that has no equal and lists evidence.
LEMMA VersionsPreserved ==
    ASSUME EInv, NEW q \in Requests, CommitAssessment(q)
    PROVE  VersionsBacked' /\ VersionsDistinct'
  <1>1. PICK s, i0, items, number : /\ s = session[q] /\ i0 = s.initiative
                                    /\ items = s.items /\ number = s.number
    OBVIOUS
  <1>2. /\ IInv /\ s \in SessionType /\ i0 \in Initiatives /\ Writes(s) /\ s.pc = "ready"
        /\ WriterOK(s) /\ items \in SUBSET Sources
        /\ \A i \in Initiatives :
              evidence'[i] = IF i = i0 THEN evidence[i] \cup s.new_items ELSE evidence[i]
        /\ \A i \in Initiatives :
              version'[i] = IF i = i0 /\ number \notin DOMAIN version[i]
                              THEN Append(version[i], items) ELSE version[i]
        /\ number = Len(version[i0]) + 1 \/ number \in DOMAIN version[i0]
    <2>1. IInv /\ WriterOK(s)
      BY <1>1 DEF EInv, WritersOK
    <2>2. s.items \in SUBSET Sources
      BY <1>1, <2>1, AssessmentVersions DEF SessionType
    <2>3. QED
      BY <1>1, <2>1, <2>2, AssessmentVersions
  <1>3. ASSUME NEW i \in Initiatives
        PROVE  /\ \A n \in DOMAIN version'[i] : version'[i][n] \subseteq evidence'[i]
               /\ \A m, n \in DOMAIN version'[i] : version'[i][m] = version'[i][n] => m = n
    <2>1. PICK versions, after, size, had, has :
             /\ versions = version[i] /\ after = version'[i] /\ size = Len(versions)
             /\ had = evidence[i] /\ has = evidence'[i]
      OBVIOUS
    <2>2. versions \in Seq(SUBSET Sources) /\ size \in Nat /\ DOMAIN versions = 1..size
      BY <1>2, <2>1, LengthOfVersions
    <2>3. /\ had \subseteq has
          /\ \A n \in DOMAIN versions : versions[n] \subseteq had
          /\ \A m, n \in DOMAIN versions : versions[m] = versions[n] => m = n
      BY <1>2, <2>1 DEF EInv, VersionsBacked, VersionsDistinct
    <2>4. CASE after = versions
      BY <2>1, <2>3, <2>4
    <2>5. CASE after = Append(versions, items) /\ i = i0 /\ number \notin DOMAIN versions
      <3>1. number = size + 1
        BY <1>2, <2>1, <2>5
      <3>2. items \subseteq has
        BY <1>2, <1>1, <2>1, <2>5 DEF WriterOK
      <3>3. \A n \in DOMAIN versions : n < number => versions[n] # items
        BY <1>2, <1>1, <2>1, <2>5 DEF WriterOK
      <3>4. /\ DOMAIN after = 1..(size + 1) /\ after[size + 1] = items
            /\ \A n \in DOMAIN versions : after[n] = versions[n]
        BY <1>2, <2>1, <2>2, <2>5, VersionAppended
      <3>5. \A n \in DOMAIN after : after[n] \subseteq has
        BY <2>2, <2>3, <3>2, <3>4
      <3>6. \A m, n \in DOMAIN after : after[m] = after[n] => m = n
        BY <2>2, <2>3, <3>1, <3>3, <3>4
      <3>7. QED
        BY <2>1, <3>5, <3>6
    <2>6. QED
      BY <1>2, <2>1, <2>4, <2>5
  <1>4. QED
    BY <1>3 DEF VersionsBacked, VersionsDistinct

\* What Scout adds to the evidence is that of a new row, and its only version.
LEMMA PromotionVersions ==
    ASSUME EInv, NEW i \in Promoted, Promote(i)
    PROVE  EInv' /\ EvidenceGrows
  <1>0. IInv /\ IInv' /\ session' = session
    BY PromotePreserves DEF EInv, Promote
  <1>1. PICK items, one : items = evidence'[i] /\ one = version'[i] /\ one = <<items>>
    BY <1>0, PromotedRow
  <1>2. Len(one) = 1 /\ DOMAIN one = {1} /\ one[1] = items
    BY <1>1
  <1>3. /\ evidence[i] = {} /\ version[i] = << >>
        /\ \A j \in Initiatives \ {i} : evidence'[j] = evidence[j] /\ version'[j] = version[j]
    BY <1>0, PromotedRow
  <1>4. EvidenceGrows
    <2>1. SUFFICES ASSUME NEW j \in Initiatives
                   PROVE  /\ evidence[j] \subseteq evidence'[j]
                          /\ Len(version[j]) <= Len(version'[j])
                          /\ \A n \in DOMAIN version[j] :
                                n \in DOMAIN version'[j] /\ version'[j][n] = version[j][n]
      BY DEF EvidenceGrows
    <2>2. CASE j = i
      <3>1. Len(version[i]) = 0 /\ DOMAIN version[i] = {}
        BY <1>3
      <3>2. QED
        BY <1>1, <1>2, <1>3, <2>2, <3>1
    <2>3. CASE j # i
      BY <1>0, <1>3, <2>3, LengthOfVersions
    <2>4. QED
      BY <2>2, <2>3
  <1>5. VersionsBacked'
    <2>1. \A n \in DOMAIN version'[i] : version'[i][n] \subseteq evidence'[i]
      BY <1>1, <1>2
    <2>2. QED
      BY <1>3, <2>1 DEF EInv, VersionsBacked
  <1>6. VersionsDistinct'
    <2>1. \A m, n \in DOMAIN version'[i] : m = n
      BY <1>1, <1>2
    <2>2. QED
      BY <1>3, <2>1 DEF EInv, VersionsDistinct
  <1>7. WritersOK'
    <2>1. SUFFICES ASSUME NEW p \in Requests
                   PROVE  WriterOK(session[p])'
      BY <1>0 DEF WritersOK
    <2>2. PICK s : s = session[p]
      OBVIOUS
    <2>3. s \in SessionType /\ WriterOK(s) /\ (Writes(s) => s.initiative # Nothing)
      BY <2>2 DEF EInv, WritersOK, IInv, SessionsOK, SessionOK, Writes
    <2>4. CASE Writes(s)
      <3>1. WriterOK(s)'
        BY <1>0, <1>4, <2>3, <2>4, WriterKept
      <3>2. QED
        BY <1>0, <2>2, <3>1 DEF WriterOK, Writes
    <2>5. CASE ~Writes(s)
      BY <1>0, <2>2, <2>5 DEF WriterOK, Writes
    <2>6. QED
      BY <2>4, <2>5
  <1>8. QED
    BY <1>0, <1>4, <1>5, <1>6, <1>7 DEF EInv

LEMMA EvidencePreserved ==
    ASSUME EInv, [Next]_vars
    PROVE  EInv' /\ EvidenceGrows
  <1>0. IInv /\ IInv'
    BY NextPreserves DEF EInv
  <1>1. \A i \in Initiatives : Len(version[i]) \in Nat
    BY <1>0, LengthOfVersions
  <1>2. CASE UNCHANGED vars
    <2>1. session' = session /\ evidence' = evidence /\ version' = version
      BY <1>2 DEF vars, tables
    <2>2. EvidenceGrows
      BY <1>1, <2>1 DEF EvidenceGrows
    <2>3. VersionsBacked' /\ VersionsDistinct' /\ WritersOK'
      BY <2>1 DEF EInv, VersionsBacked, VersionsDistinct, WritersOK, WriterOK, Writes
    <2>4. QED
      BY <1>0, <2>2, <2>3 DEF EInv
  <1>3. ASSUME NEW q \in Requests, Advance(q) \/ Fail(q) \/ LoseAnswer(q)
        PROVE  EInv' /\ EvidenceGrows
    <2>1. CASE CommitAssessment(q)
      BY <1>0, <1>3, <2>1, AssessmentGrows, VersionsPreserved, WritersPreserved DEF EInv
    <2>2. CASE ~CommitAssessment(q)
      <3>1. evidence' = evidence /\ version' = version
        BY <1>3, <2>2, EvidenceStays
      <3>2. EvidenceGrows
        BY <1>1, <3>1 DEF EvidenceGrows
      <3>3. VersionsBacked' /\ VersionsDistinct'
        BY <3>1 DEF EInv, VersionsBacked, VersionsDistinct
      <3>4. QED
        BY <1>0, <1>3, <3>2, <3>3, WritersPreserved DEF EInv
    <2>3. QED
      BY <2>1, <2>2
  <1>4. ASSUME NEW i \in Promoted, Promote(i)
        PROVE  EInv' /\ EvidenceGrows
    BY <1>4, PromotionVersions
  <1>5. QED
    BY <1>2, <1>3, <1>4 DEF Next

LEMMA EvidenceAtStart ==
    ASSUME Init
    PROVE  EInv
  <1>1. \A q \in Requests : ~Writes(session[q])
    <2>1. Start.pc = "idle"
      BY DEF Start
    <2>2. QED
      BY <2>1 DEF Init, Writes
  <1>2. \A i \in Initiatives : DOMAIN version[i] = {}
    BY DEF Init
  <1>3. QED
    BY <1>1, <1>2, InitEstablishes DEF EInv, VersionsBacked, VersionsDistinct, WritersOK, WriterOK

\* Every item of an evidence version is captured evidence of the initiative the version is
\* of, whichever assessments of it commit in between (capture_message_evidence).
THEOREM VersionsListEvidence == Spec => []VersionsBacked
  <1>1. Init => EInv
    BY EvidenceAtStart
  <1>2. EInv /\ [Next]_vars => EInv'
    BY EvidencePreserved
  <1>3. EInv => VersionsBacked
    BY DEF EInv
  <1>4. QED
    BY <1>1, <1>2, <1>3, PTL DEF Spec

\* The same evidence is never numbered twice: that version numbers are unique at the commit
\* is enough, the unique constraint on fingerprints (evidence_versions) is never the one
\* that fails.
THEOREM VersionsNumberedOnce == Spec => []VersionsDistinct
  <1>1. Init => EInv
    BY EvidenceAtStart
  <1>2. EInv /\ [Next]_vars => EInv'
    BY EvidencePreserved
  <1>3. EInv => VersionsDistinct
    BY DEF EInv
  <1>4. QED
    BY <1>1, <1>2, <1>3, PTL DEF Spec

\* Evidence is never taken away, and an evidence version never changes after its commit
\* (the immutable evidence versions of the Registrar).
THEOREM VersionsImmutable == Spec => [][EvidenceGrows]_vars
  <1>1. Init => EInv
    BY EvidenceAtStart
  <1>2. EInv /\ [Next]_vars => EInv' /\ [EvidenceGrows]_vars
    BY EvidencePreserved
  <1>3. QED
    BY <1>1, <1>2, PTL DEF Spec

-----------------------------------------------------------------------------
(* What links threads, runs and initiatives; the pages rely on it. *)

\* The message of a session is in its thread, and a link it read is still a link.
LinkedSession(s) ==
    /\ Underway(s) => message[s.message].thread = s.thread
    /\ s.link # Nothing => Underway(s) /\ thread[s.thread].initiative # Nothing

SessionsLinked == \A q \in Requests : LinkedSession(session[q])

\* A run belongs to the thread of its message; a thread has an initiative exactly if it was
\* assessed, and then that of one of its assessments.
RunsLinked ==
    /\ \A n \in DOMAIN run : message[run[n].message].thread = run[n].thread
    /\ \A n \in DOMAIN run : run[n].initiative # Nothing => run[n].action = "ASSESSMENT"
    /\ \A t \in DOMAIN thread :
          thread[t].initiative # Nothing =>
             \E n \in Assessed : run[n].thread = t /\ run[n].initiative = thread[t].initiative
    /\ \A n \in Assessed : thread[run[n].thread].initiative # Nothing

LInv == IInv /\ SessionsLinked /\ RunsLinked

-----------------------------------------------------------------------------
(* What a step does to the tables and to its session. *)

\* Rows are added and never taken away, and what a run or a message says is never changed.
TablesGrow ==
    /\ DOMAIN thread \subseteq DOMAIN thread'
    /\ \A m \in DOMAIN message : m \in DOMAIN message' /\ message'[m] = message[m]
    /\ DOMAIN initiative \subseteq DOMAIN initiative'
    /\ \A n \in DOMAIN run : n \in DOMAIN run' /\ run'[n] = run[n]
    /\ \A i \in Initiatives : Len(version[i]) <= Len(version'[i])

\* The threads keep their initiatives; only the pilot of a thread changes.
LinksKept ==
    /\ DOMAIN thread \subseteq DOMAIN thread'
    /\ \A t \in DOMAIN thread : thread'[t].initiative = thread[t].initiative
    /\ \A t \in DOMAIN thread' \ DOMAIN thread : thread'[t].initiative = Nothing

LEMMA RenamedKeepsLinks ==
    ASSUME IInv, NEW q \in Requests, thread' = Renamed(q) \/ thread' = thread
    PROVE  LinksKept
  <1>1. \A t \in DOMAIN thread :
           thread[t] \in [pilot : Pilots, initiative : DOMAIN initiative \cup {Nothing}]
    BY DEF IInv, Shaped
  <1>2. PICK owner, pilot : owner = session[q].thread /\ pilot = email[q].pilot
    OBVIOUS
  <1>3. thread' = [thread EXCEPT ![owner].pilot = pilot] \/ thread' = thread
    BY <1>2 DEF Renamed
  <1>4. QED
    BY <1>1, <1>3 DEF LinksKept

\* Unless a run is committed, the links stay and what is committed stays.
LEMMA QuietStep ==
    ASSUME IInv, NEW q \in Requests,
           Advance(q) \/ Fail(q) \/ LoseAnswer(q), ~CommitRun(q), ~CommitAssessment(q)
    PROVE  /\ initiative' = initiative /\ version' = version /\ run' = run
           /\ \A m \in DOMAIN message : m \in DOMAIN message' /\ message'[m] = message[m]
           /\ LinksKept
  <1>1. CASE UNCHANGED tables
    BY <1>1 DEF tables, LinksKept
  <1>2. CASE EnsureInitiative(q)
    BY <1>2 DEF EnsureInitiative, FlushesNew, LinksKept
  <1>3. CASE Assess(q)
    BY <1>3, RenamedKeepsLinks DEF Assess
  <1>4. CASE Store(q)
    <2> DEFINE t == session[q].thread
    <2>1. initiative' = initiative /\ version' = version /\ run' = run
      BY <1>4 DEF Store
    <2>2. CASE UNCHANGED <<thread, message>>
      BY <2>1, <2>2 DEF LinksKept
    <2>3. CASE /\ email[q].id \notin DOMAIN message
               /\ session[q].new_thread => t \notin DOMAIN thread
               /\ thread' = IF session[q].new_thread
                              THEN Put(thread, t, [pilot |-> email[q].pilot, initiative |-> Nothing])
                              ELSE Renamed(q)
               /\ message' = Put(message, email[q].id, [thread |-> t, payload |-> email[q].payload])
      <3>1. \A m \in DOMAIN message : m \in DOMAIN message' /\ message'[m] = message[m]
        BY <2>3 DEF Put
      <3>2. LinksKept
        <4>1. CASE session[q].new_thread
          BY <2>3, <4>1 DEF Put, LinksKept
        <4>2. CASE ~session[q].new_thread
          BY <2>3, <4>2, RenamedKeepsLinks
        <4>3. QED
          BY <4>1, <4>2
      <3>3. QED
        BY <2>1, <3>1, <3>2
    <2>4. QED
      BY <1>4, <2>2, <2>3 DEF Store
  <1>5. ReadsOnly(q) => UNCHANGED tables
    BY ReadingSteps
  <1>6. QED
    BY <1>1, <1>2, <1>3, <1>4, <1>5 DEF Advance, ReadsOnly

\* The thread of the session of an assessment takes its initiative; the others keep theirs.
LEMMA AssessmentLinks ==
    ASSUME IInv, NEW q \in Requests, CommitAssessment(q)
    PROVE  /\ DOMAIN thread' = DOMAIN thread
           /\ session[q].thread \in DOMAIN thread
           /\ \A t \in DOMAIN thread :
                 thread'[t].initiative = IF t = session[q].thread /\ session[q].link = Nothing
                                           THEN session[q].initiative ELSE thread[t].initiative
  <1>1. \A t \in DOMAIN thread :
           thread[t] \in [pilot : Pilots, initiative : DOMAIN initiative \cup {Nothing}]
    BY DEF IInv, Shaped
  <1>2. session[q].thread \in DOMAIN thread
    BY DEF CommitAssessment, IInv, SessionsOK, SessionOK, Underway
  <1>3. PICK owner, i, link : /\ owner = session[q].thread /\ i = session[q].initiative
                              /\ link = session[q].link
    OBVIOUS
  <1>4. thread' = IF link = Nothing THEN [thread EXCEPT ![owner].initiative = i] ELSE thread
    BY <1>3 DEF CommitAssessment
  <1>5. /\ DOMAIN thread' = DOMAIN thread
        /\ \A t \in DOMAIN thread :
              thread'[t].initiative = IF t = owner /\ link = Nothing THEN i ELSE thread[t].initiative
    BY <1>1, <1>4
  <1>6. QED
    BY <1>2, <1>3, <1>5

LEMMA StepGrows ==
    ASSUME IInv, [Next]_vars
    PROVE  TablesGrow
  <1>0. \A i \in Initiatives : Len(version[i]) \in Nat
    BY LengthOfVersions
  <1>1. CASE UNCHANGED vars
    BY <1>0, <1>1 DEF vars, tables, TablesGrow
  <1>2. ASSUME NEW q \in Requests, Advance(q) \/ Fail(q) \/ LoseAnswer(q)
        PROVE  TablesGrow
    <2>1. CASE ~CommitRun(q) /\ ~CommitAssessment(q)
      BY <1>0, <1>2, <2>1, QuietStep DEF LinksKept, TablesGrow
    <2>2. CASE CommitRun(q)
      <3>1. /\ thread' = thread /\ message' = message /\ initiative' = initiative
            /\ version' = version
        BY <2>2 DEF CommitRun
      <3>2. \A n \in DOMAIN run : n \in DOMAIN run' /\ run'[n] = run[n]
        BY <2>2, RunCommitted DEF CommitRun
      <3>3. QED
        BY <1>0, <3>1, <3>2 DEF TablesGrow
    <2>3. CASE CommitAssessment(q)
      <3>1. \A n \in DOMAIN run : n \in DOMAIN run' /\ run'[n] = run[n]
        BY <2>3, RunCommitted DEF CommitAssessment
      <3>2. DOMAIN initiative \subseteq DOMAIN initiative'
        BY <2>3 DEF CommitAssessment, WithNewInitiative, Put
      <3>3. DOMAIN thread' = DOMAIN thread /\ message' = message
        BY <2>3, AssessmentLinks DEF CommitAssessment
      <3>4. \A i \in Initiatives : Len(version[i]) <= Len(version'[i])
        BY <2>3, AssessmentGrows DEF EvidenceGrows
      <3>5. QED
        BY <3>1, <3>2, <3>3, <3>4 DEF TablesGrow
    <2>4. QED
      BY <2>1, <2>2, <2>3
  <1>3. ASSUME NEW i \in Promoted, Promote(i)
        PROVE  TablesGrow
    <2>1. thread' = thread /\ message' = message /\ run' = run
      BY <1>3 DEF Promote
    <2>2. DOMAIN initiative \subseteq DOMAIN initiative'
      BY <1>3, PromotedRow
    <2>3. ASSUME NEW j \in Initiatives
          PROVE  Len(version[j]) <= Len(version'[j])
      <3>1. CASE j = i
        <4>1. PICK one, items : one = version'[i] /\ one = <<items>>
          BY <1>3, PromotedRow
        <4>2. Len(one) = 1
          BY <4>1
        <4>3. version[i] = << >>
          BY <1>3, PromotedRow
        <4>4. Len(version[i]) = 0
          BY <4>3
        <4>5. QED
          BY <3>1, <4>1, <4>2, <4>4
      <3>2. CASE j # i
        <4>1. version'[j] = version[j]
          BY <1>3, <3>2, PromotedRow
        <4>2. QED
          BY <1>0, <4>1
      <3>3. QED
        BY <3>1, <3>2
    <2>4. QED
      BY <2>1, <2>2, <2>3 DEF TablesGrow
  <1>4. QED
    BY <1>1, <1>2, <1>3 DEF Next

-----------------------------------------------------------------------------
(* Every step keeps the links. *)

\* A record that has moved on within the same message.
SamePlace(record, s) ==
    record.message = s.message /\ record.thread = s.thread /\ record.link = s.link

LEMMA SessionIsOK ==
    ASSUME IInv, NEW q \in Requests
    PROVE  /\ session[q] \in SessionType
           /\ Underway(session[q]) =>
                 session[q].message \in DOMAIN message /\ session[q].thread \in DOMAIN thread
           /\ session[q].pc \in {"resolved", "captured", "ready"} /\ session[q].action = "ASSESSMENT" =>
                 session[q].initiative # Nothing
           /\ session[q].initiative # Nothing => session[q].action = "ASSESSMENT"
  BY DEF IInv, SessionsOK, SessionOK

\* The session of q goes on and what it relies on stays true.
KeepsSession(q) ==
    \E s : session' = [session EXCEPT ![q] = s] /\ LinkedSession(s)'

\* The session after a step of it: over, begun anew, put in the thread of its message, moved
\* on, or told of the link of its thread.
LEMMA SessionAfter ==
    ASSUME LInv, NEW q \in Requests, Advance(q) \/ Fail(q) \/ LoseAnswer(q)
    PROVE  KeepsSession(q)
  <1> DEFINE old == session[q]
  <1>0. /\ IInv /\ LinkedSession(old) /\ old \in SessionType
        /\ Underway(old) => old.message \in DOMAIN message /\ old.thread \in DOMAIN thread
    BY SessionIsOK DEF LInv, SessionsLinked
  <1>1. ASSUME NEW s, Continue(q, s), ~Underway(s), s.link = Nothing
        PROVE  KeepsSession(q)
    BY <1>1 DEF KeepsSession, Continue, LinkedSession, Underway
  <1>2. Continue(q, Start) \/ Continue(q, Answered) \/ Continue(q, Refused) =>
            KeepsSession(q)
    <2>1. /\ ~Underway(Start) /\ Start.link = Nothing
          /\ ~Underway(Answered) /\ Answered.link = Nothing
          /\ ~Underway(Refused) /\ Refused.link = Nothing
      <3>1. Start.pc = "idle" /\ Start.link = Nothing
        BY DEF Start
      <3>2. Answered.pc = "answered" /\ Answered.link = Nothing
        BY DEF Start, Answered
      <3>3. Refused.pc = "refused" /\ Refused.link = Nothing
        BY DEF Start, Refused
      <3>4. QED
        BY <3>1, <3>2, <3>3 DEF Underway
    <2>2. QED
      BY <1>1, <2>1
  \* The session has its message; nothing is committed.
  <1>3. ASSUME NEW s, Continue(q, s), UNCHANGED <<message, thread>>,
               s.message \in DOMAIN message, message[s.message].thread = s.thread, s.link = Nothing
        PROVE  KeepsSession(q)
    BY <1>3 DEF KeepsSession, Continue, LinkedSession, Underway
  <1>4. ASSUME NEW s, Continue(q, s), SamePlace(s, old), Underway(old), Underway(s),
               message' = message, LinksKept
        PROVE  KeepsSession(q)
    BY <1>0, <1>4 DEF KeepsSession, Continue, LinkedSession, SamePlace, LinksKept, Underway
  <1>5. CASE Lookup(q)
    <2> DEFINE m == email[q].id
    <2>1. UNCHANGED <<message, thread>>
      BY <1>5 DEF Lookup, tables
    <2>2. CASE Continue(q, [Start EXCEPT !.pc = "unknown", !.late = AnsweredBefore(q)])
      <3>1. PICK late : late = AnsweredBefore(q)
        OBVIOUS
      <3>2. PICK s : s = [Start EXCEPT !.pc = "unknown", !.late = late]
        OBVIOUS
      <3>3. s.pc = "unknown" /\ s.link = Nothing
        BY <3>2 DEF Start
      <3>4. Continue(q, s)
        BY <2>2, <3>1, <3>2
      <3>5. QED
        BY <1>1, <3>3, <3>4 DEF Underway
    <2>3. CASE /\ m \in DOMAIN message
               /\ Continue(q, [Start EXCEPT !.pc = "stored", !.late = AnsweredBefore(q),
                                            !.message = m, !.thread = message[m].thread])
      <3>1. PICK late, x, t : late = AnsweredBefore(q) /\ x = m /\ t = message[m].thread
        OBVIOUS
      <3>2. PICK s : s = [Start EXCEPT !.pc = "stored", !.late = late, !.message = x, !.thread = t]
        OBVIOUS
      <3>3. s.message = x /\ s.thread = t /\ s.link = Nothing
        BY <3>2 DEF Start
      <3>4. Continue(q, s)
        BY <2>3, <3>1, <3>2
      <3>5. m \in DOMAIN message
        BY <2>3
      <3>6. QED
        BY <1>3, <2>1, <3>1, <3>3, <3>4, <3>5
    <2>4. QED
      BY <1>2, <1>5, <2>2, <2>3 DEF Lookup, Replay
  <1>6. CASE MatchThread(q)
    <2>1. UNCHANGED <<message, thread>>
      BY <1>6, ReadingSteps DEF ReadsOnly, tables
    <2>2. old.pc = "unknown" /\ old.link = Nothing
      <3>1. old.pc = "unknown"
        BY <1>6, ZenonT(30) DEF MatchThread
      <3>2. QED
        BY <1>0, <3>1 DEF LinkedSession, Underway
    <2>3. ASSUME NEW s, Continue(q, s), s.pc = "storing", s.link = old.link
          PROVE  KeepsSession(q)
      BY <1>1, <2>2, <2>3 DEF Underway
    <2>4. CASE /\ ThreadsOf(q) = {}
               /\ Continue(q, [Goes(q, "storing") EXCEPT !.thread = email[q].conversation,
                                                          !.new_thread = TRUE])
      <3>1. PICK was, t : was = old /\ t = email[q].conversation
        OBVIOUS
      <3>2. PICK base : base = [was EXCEPT !.pc = "storing"] /\ base = Goes(q, "storing")
        BY <3>1 DEF Goes
      <3>3. PICK s : s = [base EXCEPT !.thread = t, !.new_thread = TRUE]
        OBVIOUS
      <3>4. Continue(q, s)
        BY <2>4, <3>1, <3>2, <3>3
      <3>5. s.pc = "storing" /\ s.link = was.link
        BY <1>0, <3>1, <3>2, <3>3 DEF SessionType
      <3>6. QED
        BY <2>3, <3>1, <3>4, <3>5
    <2>5. ASSUME NEW t, Continue(q, [Goes(q, "storing") EXCEPT !.thread = t])
          PROVE  KeepsSession(q)
      <3>1. PICK was : was = old
        OBVIOUS
      <3>2. PICK base : base = [was EXCEPT !.pc = "storing"] /\ base = Goes(q, "storing")
        BY <3>1 DEF Goes
      <3>3. PICK s : s = [base EXCEPT !.thread = t]
        OBVIOUS
      <3>4. Continue(q, s)
        BY <2>5, <3>2, <3>3
      <3>5. s.pc = "storing" /\ s.link = was.link
        BY <1>0, <3>1, <3>2, <3>3 DEF SessionType
      <3>6. QED
        BY <2>3, <3>1, <3>4, <3>5
    <2>6. ASSUME NEW t, NEW m \in CopiesIn(q, t),
                 Continue(q, [Goes(q, "stored") EXCEPT !.thread = t, !.message = m,
                                                       !.renames = TRUE])
          PROVE  KeepsSession(q)
      <3>1. PICK was : was = old
        OBVIOUS
      <3>2. PICK base : base = [was EXCEPT !.pc = "stored"] /\ base = Goes(q, "stored")
        BY <3>1 DEF Goes
      <3>3. PICK s : s = [base EXCEPT !.thread = t, !.message = m, !.renames = TRUE]
        OBVIOUS
      <3>4. Continue(q, s)
        BY <2>6, <3>2, <3>3
      <3>5. s.thread = t /\ s.message = m /\ s.link = was.link
        BY <1>0, <3>1, <3>2, <3>3 DEF SessionType
      <3>6. m \in DOMAIN message /\ message[m].thread = t
        BY DEF CopiesIn
      <3>7. QED
        BY <1>3, <2>1, <2>2, <3>1, <3>4, <3>5, <3>6
    <2>7. CASE \E t \in ThreadsOf(q) :
                  \/ /\ CopiesIn(q, t) = {}
                     /\ Continue(q, [Goes(q, "storing") EXCEPT !.thread = t])
                  \/ \E m \in CopiesIn(q, t) :
                        \/ HasRun(m) /\ Continue(q, Answered)
                        \/ /\ ~HasRun(m)
                           /\ Continue(q, [Goes(q, "stored") EXCEPT !.thread = t, !.message = m,
                                                                    !.renames = TRUE])
      <3>1. PICK t \in ThreadsOf(q) :
                  \/ /\ CopiesIn(q, t) = {}
                     /\ Continue(q, [Goes(q, "storing") EXCEPT !.thread = t])
                  \/ \E m \in CopiesIn(q, t) :
                        \/ HasRun(m) /\ Continue(q, Answered)
                        \/ /\ ~HasRun(m)
                           /\ Continue(q, [Goes(q, "stored") EXCEPT !.thread = t, !.message = m,
                                                                    !.renames = TRUE])
        BY <2>7, ZenonT(30)
      <3>2. QED
        BY <1>2, <2>5, <2>6, <3>1, ZenonT(30)
    <2>8. QED
      BY <1>6, <2>4, <2>7, ZenonT(30) DEF MatchThread, Replay
  <1>7. CASE Store(q)
    <2> DEFINE m == email[q].id
               t == old.thread
    <2>1. CASE /\ message' = Put(message, m, [thread |-> t, payload |-> email[q].payload])
               /\ Continue(q, [Goes(q, "stored") EXCEPT !.message = m])
      <3>0. PICK was, x : was = old /\ x = m
        OBVIOUS
      <3>00. PICK base : base = [was EXCEPT !.pc = "stored"] /\ base = Goes(q, "stored")
        BY <3>0 DEF Goes
      <3>01. PICK s : s = [base EXCEPT !.message = x]
        OBVIOUS
      <3>1. /\ was = old /\ base = [was EXCEPT !.pc = "stored"] /\ x = m
            /\ s = [base EXCEPT !.message = x] /\ Continue(q, s)
        BY <2>1, <3>0, <3>00, <3>01
      <3>2. s.thread = was.thread /\ s.message = x /\ s.link = was.link
        BY <1>0, <3>1 DEF SessionType
      <3>3. old.link = Nothing
        BY <1>0, <1>7 DEF Store, LinkedSession, Underway
      <3>4. message'[m].thread = t
        BY <2>1 DEF Put
      <3>5. LinkedSession(s)'
        BY <3>1, <3>2, <3>3, <3>4 DEF LinkedSession, Underway
      <3>6. QED
        BY <3>1, <3>5 DEF Continue, KeepsSession
    <2>2. QED
      BY <1>2, <1>7, <2>1 DEF Store
  <1>8. CASE Coach(q)
    <2>1. PICK action \in Actions :
             Continue(q, [old EXCEPT !.pc = IF action = "ASSESSMENT" THEN "linking" ELSE "ready",
                                     !.action = action,
                                     !.link = thread[old.thread].initiative])
      BY <1>8, ZenonT(30) DEF Coach
    <2>2. PICK was, link, step : /\ was = old /\ link = thread[old.thread].initiative
                                 /\ step = IF action = "ASSESSMENT" THEN "linking" ELSE "ready"
      OBVIOUS
    <2>3. PICK s : s = [was EXCEPT !.pc = step, !.action = action, !.link = link]
      OBVIOUS
    <2>4. Continue(q, s)
      BY <2>1, <2>2, <2>3
    <2>5. s.pc = step /\ s.message = was.message /\ s.thread = was.thread /\ s.link = link
      BY <1>0, <2>2, <2>3 DEF SessionType
    <2>6. UNCHANGED <<message, thread>> /\ Underway(old)
      BY <1>8 DEF Coach, tables, Underway
    <2>7. LinkedSession(s)'
      BY <1>0, <2>2, <2>5, <2>6 DEF LinkedSession, Underway
    <2>8. QED
      BY <2>4, <2>7 DEF Continue, KeepsSession
  <1>10. CASE Assess(q)
    <2>1. Underway(old) /\ message' = message /\ LinksKept
      BY <1>10, RenamedKeepsLinks, <1>0 DEF Assess, Underway
    <2>2. PICK was, x, first : was = old /\ x = Read(q) /\ first = FirstStage(q)
      OBVIOUS
    <2>3. PICK base : base = [was EXCEPT !.pc = "assessed"] /\ base = Goes(q, "assessed")
      BY <2>2 DEF Goes
    <2>4. PICK s : s = [base EXCEPT !.read = x, !.first = first]
      OBVIOUS
    <2>5. Continue(q, s)
      BY <1>10, <2>2, <2>3, <2>4 DEF Assess
    <2>6. s.message = was.message /\ s.thread = was.thread /\ s.link = was.link /\ s.pc = "assessed"
      BY <1>0, <2>2, <2>3, <2>4 DEF SessionType
    <2>7. QED
      BY <1>4, <2>1, <2>2, <2>5, <2>6 DEF Underway, SamePlace
  <1>11. CASE EnsureInitiative(q)
    <2>1. Underway(old) /\ message' = message /\ LinksKept
      BY <1>11 DEF EnsureInitiative, LinksKept, Underway
    <2>2. PICK i : Continue(q, [Goes(q, "resolved") EXCEPT !.initiative = i])
      BY <1>11 DEF EnsureInitiative
    <2>3. PICK was : was = old
      OBVIOUS
    <2>4. PICK base : base = [was EXCEPT !.pc = "resolved"] /\ base = Goes(q, "resolved")
      BY <2>3 DEF Goes
    <2>5. PICK s : s = [base EXCEPT !.initiative = i]
      OBVIOUS
    <2>6. Continue(q, s)
      BY <2>2, <2>4, <2>5
    <2>7. s.message = was.message /\ s.thread = was.thread /\ s.link = was.link /\ s.pc = "resolved"
      BY <1>0, <2>3, <2>4, <2>5 DEF SessionType
    <2>8. QED
      BY <1>4, <2>1, <2>3, <2>6, <2>7 DEF Underway, SamePlace
  <1>12. CASE CaptureEvidence(q)
    <2>1. Underway(old) /\ message' = message /\ LinksKept
      BY <1>12 DEF CaptureEvidence, tables, LinksKept, Underway
    <2>2. PICK added : added = old.read \ evidence[old.initiative]
      OBVIOUS
    <2>3. PICK items : items = evidence[old.initiative] \cup added
      OBVIOUS
    <2>4. Continue(q, [Goes(q, "captured") EXCEPT !.new_items = added, !.items = items])
      BY <1>12, <2>2, <2>3 DEF CaptureEvidence, Captured
    <2>5. PICK was : was = old
      OBVIOUS
    <2>6. PICK base : base = [was EXCEPT !.pc = "captured"] /\ base = Goes(q, "captured")
      BY <2>5 DEF Goes
    <2>7. PICK s : s = [base EXCEPT !.new_items = added, !.items = items]
      OBVIOUS
    <2>8. Continue(q, s)
      BY <2>4, <2>6, <2>7
    <2>9. s.message = was.message /\ s.thread = was.thread /\ s.link = was.link /\ s.pc = "captured"
      BY <1>0, <2>5, <2>6, <2>7 DEF SessionType
    <2>10. QED
      BY <1>4, <2>1, <2>5, <2>8, <2>9 DEF Underway, SamePlace
  <1>13. CASE NumberVersion(q)
    <2>1. Underway(old) /\ message' = message /\ LinksKept
      BY <1>13 DEF NumberVersion, tables, LinksKept, Underway
    <2>2. PICK n : Continue(q, [Goes(q, "ready") EXCEPT !.number = n])
      BY <1>13 DEF NumberVersion
    <2>3. PICK was : was = old
      OBVIOUS
    <2>4. PICK base : base = [was EXCEPT !.pc = "ready"] /\ base = Goes(q, "ready")
      BY <2>3 DEF Goes
    <2>5. PICK s : s = [base EXCEPT !.number = n]
      OBVIOUS
    <2>6. Continue(q, s)
      BY <2>2, <2>4, <2>5
    <2>7. s.message = was.message /\ s.thread = was.thread /\ s.link = was.link /\ s.pc = "ready"
      BY <1>0, <2>3, <2>4, <2>5 DEF SessionType
    <2>8. QED
      BY <1>4, <2>1, <2>3, <2>6, <2>7 DEF Underway, SamePlace
  <1>14. CASE \/ CommitRun(q) \/ CommitAssessment(q) \/ RefuseAttachment(q) \/ Conflict(q)
             \/ Fail(q) \/ LoseAnswer(q)
    <2>1. Continue(q, Start) \/ Continue(q, Answered) \/ Continue(q, Refused)
      BY <1>14 DEF CommitRun, CommitAssessment, RefuseAttachment, Conflict, Fail, LoseAnswer
    <2>2. QED
      BY <1>2, <2>1
  <1>15. QED
    BY <1>5, <1>6, <1>7, <1>8, <1>10, <1>11, <1>12, <1>13, <1>14 DEF Advance

\* A thread that has an initiative keeps one.
LEMMA LinkStays ==
    ASSUME IInv, NEW q \in Requests, Advance(q) \/ Fail(q) \/ LoseAnswer(q),
           NEW t \in DOMAIN thread, thread[t].initiative # Nothing
    PROVE  t \in DOMAIN thread' /\ thread'[t].initiative # Nothing
  <1>1. CASE ~CommitRun(q) /\ ~CommitAssessment(q)
    BY <1>1, QuietStep DEF LinksKept
  <1>2. CASE CommitRun(q)
    BY <1>2 DEF CommitRun
  <1>3. CASE CommitAssessment(q)
    <2>1. session[q].initiative # Nothing
      BY <1>3, SessionIsOK DEF CommitAssessment
    <2>2. QED
      BY <1>3, <2>1, AssessmentLinks
  <1>4. QED
    BY <1>1, <1>2, <1>3

LEMMA SessionsStayLinked ==
    ASSUME LInv, NEW q \in Requests, Advance(q) \/ Fail(q) \/ LoseAnswer(q)
    PROVE  SessionsLinked'
  <1>1. TablesGrow
    BY StepGrows DEF LInv, Next
  <1>2. PICK s : session' = [session EXCEPT ![q] = s] /\ LinkedSession(s)'
    BY SessionAfter DEF KeepsSession
  <1>3. /\ session'[q] = s
        /\ \A p \in Requests : p # q => session'[p] = session[p]
    BY <1>2, Continued DEF LInv, IInv
  <1>4. SUFFICES ASSUME NEW p \in Requests
                 PROVE  LinkedSession(session[p])'
    BY DEF SessionsLinked
  <1>5. PICK r : r = session'[p]
    OBVIOUS
  <1>6. LinkedSession(r)'
    <2>1. CASE p = q
      BY <1>2, <1>3, <1>5, <2>1
    <2>2. CASE p # q
      <3>1. LinkedSession(r) /\ r = session[p]
        BY <1>3, <1>5, <2>2 DEF LInv, SessionsLinked
      <3>2. Underway(r) => r.message \in DOMAIN message /\ r.thread \in DOMAIN thread
        BY <3>1, SessionIsOK DEF LInv
      <3>3. Underway(r) => message'[r.message].thread = r.thread
        BY <1>1, <3>1, <3>2 DEF LinkedSession, TablesGrow
      <3>4. r.link # Nothing => Underway(r) /\ thread'[r.thread].initiative # Nothing
        BY <3>1, <3>2, LinkStays DEF LinkedSession, LInv
      <3>5. QED
        BY <3>3, <3>4 DEF LinkedSession, Underway
    <2>3. QED
      BY <2>1, <2>2
  <1>7. QED
    BY <1>5, <1>6 DEF LinkedSession, Underway

\* Every run is as it was, and at most one was added: that of a session that was ready.
LEMMA RunsAfter ==
    ASSUME IInv, NEW q \in Requests, Advance(q) \/ Fail(q) \/ LoseAnswer(q),
           NEW n \in DOMAIN run'
    PROVE  \/ n \in DOMAIN run /\ run'[n] = run[n]
           \/ /\ CommitRun(q) \/ CommitAssessment(q)
              /\ session[q].pc = "ready"
              /\ run'[n] = RunRow(q)
  <1>1. CASE ~CommitRun(q) /\ ~CommitAssessment(q)
    BY <1>1, QuietStep
  <1>2. CASE CommitRun(q) \/ CommitAssessment(q)
    <2>1. session[q].pc = "ready" /\ run' = Append(run, RunRow(q))
      BY <1>2 DEF CommitRun, CommitAssessment
    <2>2. QED
      BY <1>2, <2>1, RunCommitted
  <1>3. QED
    BY <1>1, <1>2

LEMMA RunsStayLinked ==
    ASSUME LInv, NEW q \in Requests, Advance(q) \/ Fail(q) \/ LoseAnswer(q)
    PROVE  RunsLinked'
  <1>0. IInv /\ RunsLinked /\ LinkedSession(session[q])
    BY DEF LInv, SessionsLinked
  <1>1. TablesGrow
    BY <1>0, StepGrows DEF Next
  <1>2. ASSUME session[q].pc = "ready"
        PROVE  /\ session[q].message \in DOMAIN message /\ session[q].thread \in DOMAIN thread
               /\ message[session[q].message].thread = session[q].thread
               /\ RunRow(q).message = session[q].message
               /\ RunRow(q).thread = session[q].thread
               /\ RunRow(q).initiative = session[q].initiative
               /\ RunRow(q).action = session[q].action
    BY <1>0, <1>2, ReadyRow DEF LinkedSession, Underway
  <1>3. ASSUME NEW n \in DOMAIN run'
        PROVE  /\ message'[run'[n].message].thread = run'[n].thread
               /\ run'[n].initiative # Nothing => run'[n].action = "ASSESSMENT"
    <2>1. CASE n \in DOMAIN run /\ run'[n] = run[n]
      <3>1. run[n].message \in DOMAIN message
        BY <1>0, <2>1 DEF IInv, Shaped
      <3>2. QED
        BY <1>0, <1>1, <2>1, <3>1 DEF RunsLinked, TablesGrow
    <2>2. CASE session[q].pc = "ready" /\ run'[n] = RunRow(q)
      <3>1. session[q].initiative # Nothing => session[q].action = "ASSESSMENT"
        BY <1>0, SessionIsOK
      <3>2. QED
        BY <1>1, <1>2, <2>2, <3>1 DEF TablesGrow
    <2>3. QED
      BY <1>0, <2>1, <2>2, RunsAfter
  <1>4. \A n \in Assessed : n \in Assessed' /\ run'[n] = run[n]
    BY <1>1 DEF Assessed, TablesGrow
  <1>5. ASSUME NEW n \in Assessed'
        PROVE  thread'[run'[n].thread].initiative # Nothing
    <2>0. n \in DOMAIN run' /\ run'[n].action = "ASSESSMENT"
      BY DEF Assessed
    <2>1. CASE n \in DOMAIN run /\ run'[n] = run[n]
      <3>1. n \in Assessed /\ run[n].thread \in DOMAIN thread
        BY <1>0, <2>0, <2>1 DEF Assessed, IInv, Shaped
      <3>2. thread[run[n].thread].initiative # Nothing
        BY <1>0, <3>1 DEF RunsLinked
      <3>3. QED
        BY <1>0, <2>1, <3>1, <3>2, LinkStays
    <2>2. CASE /\ CommitRun(q) \/ CommitAssessment(q)
               /\ session[q].pc = "ready" /\ run'[n] = RunRow(q)
      <3>1. session[q].action = "ASSESSMENT" /\ run'[n].thread = session[q].thread
        BY <1>2, <2>0, <2>2
      <3>2. CommitAssessment(q)
        BY <2>2, <3>1 DEF CommitRun
      <3>3. session[q].initiative # Nothing
        BY <1>0, <2>2, <3>1, SessionIsOK
      <3>4. session[q].link # Nothing => thread[session[q].thread].initiative # Nothing
        BY <1>0 DEF LinkedSession
      <3>5. QED
        BY <1>0, <3>1, <3>2, <3>3, <3>4, AssessmentLinks
    <2>3. QED
      BY <1>0, <2>0, <2>1, <2>2, RunsAfter
  <1>6. ASSUME NEW t \in DOMAIN thread', thread'[t].initiative # Nothing
        PROVE  \E n \in Assessed' : run'[n].thread = t /\ run'[n].initiative = thread'[t].initiative
    <2>1. CASE t \in DOMAIN thread /\ thread'[t].initiative = thread[t].initiative
      <3>1. PICK n \in Assessed : run[n].thread = t /\ run[n].initiative = thread[t].initiative
        BY <1>0, <1>6, <2>1 DEF RunsLinked
      <3>2. QED
        BY <1>4, <2>1, <3>1
    <2>2. CASE ~CommitAssessment(q)
      <3>1. CASE CommitRun(q)
        BY <2>1, <3>1 DEF CommitRun
      <3>2. CASE ~CommitRun(q)
        BY <1>0, <1>6, <2>1, <2>2, <3>2, QuietStep DEF LinksKept
      <3>3. QED
        BY <3>1, <3>2
    <2>3. CASE CommitAssessment(q)
      <3>1. CASE t = session[q].thread /\ thread'[t].initiative = session[q].initiative
        <4>1. session[q].pc = "ready" /\ session[q].action = "ASSESSMENT"
              /\ run' = Append(run, RunRow(q))
          BY <2>3 DEF CommitAssessment
        <4>2. PICK n \in DOMAIN run' : run'[n] = RunRow(q)
          BY <1>0, <4>1, RunCommitted
        <4>3. n \in Assessed'
          BY <1>2, <4>1, <4>2 DEF Assessed
        <4>4. QED
          BY <1>2, <3>1, <4>1, <4>2, <4>3
      <3>2. QED
        BY <1>0, <2>1, <2>3, <3>1, AssessmentLinks
    <2>4. QED
      BY <2>2, <2>3
  <1>7. QED
    BY <1>3, <1>5, <1>6 DEF RunsLinked

LEMMA LinksPreserved ==
    ASSUME LInv, [Next]_vars
    PROVE  LInv'
  <1>1. IInv'
    BY NextPreserves DEF LInv
  <1>2. CASE UNCHANGED vars \/ \E i \in Promoted : Promote(i)
    <2>1. /\ session' = session /\ thread' = thread /\ message' = message /\ run' = run
      BY <1>2 DEF vars, tables, Promote
    <2>2. SessionsLinked'
      BY <2>1 DEF LInv, SessionsLinked, LinkedSession, Underway
    <2>3. RunsLinked'
      BY <2>1 DEF LInv, RunsLinked, Assessed
    <2>4. QED
      BY <1>1, <2>2, <2>3 DEF LInv
  <1>3. ASSUME NEW q \in Requests, Advance(q) \/ Fail(q) \/ LoseAnswer(q)
        PROVE  LInv'
    BY <1>1, <1>3, SessionsStayLinked, RunsStayLinked DEF LInv
  <1>4. QED
    BY <1>2, <1>3 DEF Next

LEMMA LinksAtStart ==
    ASSUME Init
    PROVE  LInv
  <1>1. \A q \in Requests : session[q] = Start
    BY DEF Init
  <1>2. ~Underway(Start) /\ Start.link = Nothing
    BY DEF Start, Underway
  <1>3. DOMAIN run = {} /\ DOMAIN thread = {}
    BY DEF Init
  <1>4. SessionsLinked
    BY <1>1, <1>2 DEF SessionsLinked, LinkedSession
  <1>5. RunsLinked
    BY <1>3 DEF RunsLinked, Assessed
  <1>6. QED
    BY <1>4, <1>5, InitEstablishes DEF LInv

\* A run is in the thread of its message, and a thread has an initiative exactly if it was
\* assessed, one of those its assessments named, even when two emails of a new thread are
\* assessed at the same time (the link is written with the run).
THEOREM ThreadsLinked == Spec => []RunsLinked
  <1>1. Init => LInv
    BY LinksAtStart
  <1>2. LInv /\ [Next]_vars => LInv'
    BY LinksPreserved
  <1>3. LInv => RunsLinked
    BY DEF LInv
  <1>4. QED
    BY <1>1, <1>2, <1>3, PTL DEF Spec

-----------------------------------------------------------------------------
(* The pages: the invariant. *)

PageRecord ==
    page = [kind |-> page.kind, pc |-> page.pc, of |-> page.of, link |-> page.link,
            inbound |-> page.inbound, outbound |-> page.outbound, runs |-> page.runs,
            threads |-> page.threads, versions |-> page.versions, rows |-> page.rows]

\* The initiative read with the thread is that of an assessment there.
ThreadRead ==
    page.kind = "thread" /\ page.pc \in {"messages", "runs"} /\ page.link # Nothing =>
        \E n \in DOMAIN run :
            run[n].thread = page.of /\ run[n].action = "ASSESSMENT" /\ run[n].initiative = page.link

\* The replies read have runs, whether or not these have been read, and so do their emails.
MessagesRead ==
    page.kind = "thread" /\ page.pc = "runs" =>
        \A q \in page.outbound :
            q \in DOMAIN run /\ run[q].thread = page.of /\ run[q].message \in page.inbound

InitiativeRead ==
    page.kind = "initiative" =>
        /\ page.of \in Initiatives
        /\ page.rows[page.of].versions \in Nat
        /\ page.rows[page.of].versions <= Len(version[page.of])
        /\ page.of \in DOMAIN initiative
        /\ page.rows[page.of].assessed /\ page.pc \in {"threads", "assessments"} =>
              AssessmentsOfInitiative(page.of) # {}
        /\ page.pc = "versions" =>
              /\ page.rows[page.of].assessed => page.runs # {}
              /\ \A q \in page.runs :
                    run[q].thread \in page.threads /\ run[q].version \in 1..Len(version[page.of])

PageInv ==
    /\ LInv
    /\ PageRecord
    /\ PageTypeOK
    /\ ThreadRead
    /\ MessagesRead
    /\ InitiativeRead
    /\ OneReplyShown
    /\ AssessmentsTraceable

-----------------------------------------------------------------------------
(* Intake goes on while a page is read. *)

LEMMA IntakeKeepsPages ==
    ASSUME PageInv, [Next]_vars, page' = page
    PROVE  PageInv'
  <1>1. LInv' /\ TablesGrow
    BY LinksPreserved, StepGrows DEF PageInv, LInv
  <1>2. /\ \A n \in DOMAIN run : n \in DOMAIN run' /\ run'[n] = run[n]
        /\ \A i \in Initiatives : /\ Len(version[i]) \in Nat /\ Len(version'[i]) \in Nat
                               /\ Len(version[i]) <= Len(version'[i])
    <2>1. \A i \in Initiatives : Len(version[i]) \in Nat
      BY LengthOfVersions DEF PageInv, LInv
    <2>2. \A i \in Initiatives : Len(version'[i]) \in Nat
      <3>1. version' \in [Initiatives -> Seq(SUBSET Sources)]
        BY <1>1 DEF LInv, IInv, Shaped
      <3>2. QED
        BY <3>1
    <2>3. QED
      BY <1>1, <2>1, <2>2 DEF TablesGrow
  <1>3. PageRecord' /\ PageTypeOK'
    BY <1>2 DEF PageInv, PageRecord, PageTypeOK
  <1>4. ThreadRead'
    BY <1>2 DEF PageInv, ThreadRead
  <1>5. MessagesRead'
    BY <1>2 DEF PageInv, MessagesRead
  <1>6. InitiativeRead'
    <2>1. SUFFICES ASSUME page.kind = "initiative"
                   PROVE  InitiativeRead'
      BY DEF InitiativeRead
    <2>2. /\ page.of \in Initiatives /\ page.rows[page.of].versions \in Nat
          /\ page.of \in DOMAIN initiative'
          /\ page.rows[page.of].versions <= Len(version[page.of])
      BY <1>1, <2>1 DEF PageInv, InitiativeRead, TablesGrow
    <2>3. PICK most, before, after :
             /\ most = page.rows[page.of].versions /\ before = Len(version[page.of])
             /\ after = Len(version'[page.of])
      OBVIOUS
    <2>4. before \in Nat /\ after \in Nat /\ before <= after /\ 1..before \subseteq 1..after
      BY <1>2, <2>2, <2>3
    <2>5. page.rows[page.of].versions <= Len(version'[page.of])
      <3>1. most <= before /\ most \in Nat
        BY <2>2, <2>3
      <3>2. most <= after
        BY <2>4, <3>1
      <3>3. QED
        BY <2>3, <3>2
    <2>6. page.rows[page.of].assessed /\ page.pc \in {"threads", "assessments"} =>
             AssessmentsOfInitiative(page.of)' # {}
      BY <1>2, <2>1 DEF PageInv, InitiativeRead, AssessmentsOfInitiative
    <2>7. page.pc = "versions" =>
             /\ page.rows[page.of].assessed => page.runs # {}
             /\ \A q \in page.runs :
                   run'[q].thread \in page.threads /\ run'[q].version \in 1..Len(version'[page.of])
      BY <1>2, <2>1, <2>3, <2>4 DEF PageInv, PageTypeOK, InitiativeRead
    <2>8. QED
      BY <2>2, <2>5, <2>6, <2>7 DEF InitiativeRead, AssessmentsOfInitiative
  <1>7. OneReplyShown'
    BY <1>2 DEF PageInv, PageTypeOK, OneReplyShown, Shows
  <1>8. AssessmentsTraceable'
    <2>1. AssessmentsOf(page.runs)' = AssessmentsOf(page.runs)
      BY <1>2 DEF PageInv, PageTypeOK, AssessmentsOf
    <2>2. \A q \in AssessmentsOf(page.runs) : run'[q] = run[q]
      BY <1>2 DEF PageInv, PageTypeOK, AssessmentsOf
    <2>3. {run'[q].initiative : q \in AssessmentsOf(page.runs)}
             = {run[q].initiative : q \in AssessmentsOf(page.runs)}
      BY <2>2
    <2>4. \A q \in page.runs : run'[q] = run[q]
      BY <1>2 DEF PageInv, PageTypeOK
    <2>5. AssessmentsTraceable
      BY DEF PageInv
    <2>6. (Shows("thread") =>
              IF AssessmentsOf(page.runs) = {} THEN page.link = Nothing
              ELSE page.link \in {run[q].initiative : q \in AssessmentsOf(page.runs)})'
      BY <2>1, <2>3, <2>5 DEF AssessmentsTraceable, Shows
    <2>7. QED
      BY <2>4, <2>5, <2>6 DEF AssessmentsTraceable, Shows
  <1>9. QED
    BY <1>1, <1>3, <1>4, <1>5, <1>6, <1>7, <1>8 DEF PageInv

-----------------------------------------------------------------------------
(* The statements of the pages. *)

LEMMA Reading ==
    ASSUME PageInv, UNCHANGED vars
    PROVE  /\ LInv'
           /\ run' = run /\ version' = version /\ thread' = thread /\ message' = message
           /\ initiative' = initiative
  <1>1. LInv'
    BY LinksPreserved DEF PageInv
  <1>2. QED
    BY <1>1 DEF vars, tables

\* Some of the runs: how many is a number, and none if and only if there are none.
LEMMA CountOfRuns ==
    ASSUME IInv, NEW runs \in SUBSET DOMAIN run
    PROVE  /\ IsFiniteSet(runs)
           /\ Cardinality(runs) \in Nat
           /\ Cardinality(runs) > 0 <=> runs # {}
  <1>1. DOMAIN run = 1..Len(run) /\ Len(run) \in Nat
    BY DEF IInv, Shaped
  <1>2. IsFiniteSet(1..Len(run))
    BY <1>1, FS_Interval
  <1>3. IsFiniteSet(runs)
    BY <1>1, <1>2, FS_Subset
  <1>4. Cardinality(runs) \in Nat
    BY <1>3, FS_CardinalityType
  <1>5. Cardinality(runs) = 0 <=> runs = {}
    BY <1>3, FS_EmptySet
  <1>6. QED
    BY <1>3, <1>4, <1>5

LEMMA ListThreadsShows ==
    ASSUME PageInv, ListThreads
    PROVE  PageInv'
  <1>0. PICK rows : rows = ThreadRows
    OBVIOUS
  <1>1. page' = [NoPage EXCEPT !.kind = "threads", !.pc = "shown", !.rows = rows]
        /\ UNCHANGED vars
    BY <1>0 DEF ListThreads, Opens
  <1>2. /\ page'.kind = "threads" /\ page'.pc = "shown" /\ page'.rows = rows
        /\ page'.inbound = {} /\ page'.outbound = {} /\ page'.runs = {}
        /\ page'.threads = {} /\ page'.versions = 0 /\ PageRecord'
    BY <1>1 DEF NoPage, PageRecord
  <1>3. ASSUME NEW t \in DOMAIN rows
        PROVE  (rows[t].assessments > 0) <=> (rows[t].initiative # Nothing)
    <2>1. t \in DOMAIN thread
      BY <1>0 DEF ThreadRows
    <2>2. /\ rows[t].assessments = Cardinality(AssessmentsOf(RunsOf(t)))
          /\ rows[t].initiative = thread[t].initiative
      BY <1>0, <2>1 DEF ThreadRows
    <2>3. AssessmentsOf(RunsOf(t)) \in SUBSET DOMAIN run
      BY DEF AssessmentsOf, RunsOf
    <2>4. Cardinality(AssessmentsOf(RunsOf(t))) > 0 <=> AssessmentsOf(RunsOf(t)) # {}
      BY <2>3, CountOfRuns DEF PageInv, LInv
    <2>5. AssessmentsOf(RunsOf(t)) # {} <=> thread[t].initiative # Nothing
      BY <2>1 DEF PageInv, LInv, RunsLinked, AssessmentsOf, RunsOf, Assessed
    <2>6. QED
      BY <2>2, <2>4, <2>5
  <1>4. QED
    BY <1>1, <1>2, <1>3, Reading
    DEF PageInv, PageTypeOK, ThreadRead, MessagesRead, InitiativeRead, OneReplyShown,
        AssessmentsTraceable, Shows

LEMMA OpenThreadReads ==
    ASSUME PageInv, NEW t, OpenThread(t)
    PROVE  PageInv'
  <1>0. PICK link : link = thread[t].initiative
    OBVIOUS
  <1>1. /\ page' = [NoPage EXCEPT !.kind = "thread", !.pc = "messages", !.of = t, !.link = link]
        /\ t \in DOMAIN thread /\ UNCHANGED vars
    BY <1>0 DEF OpenThread, Opens
  <1>2. /\ page'.kind = "thread" /\ page'.pc = "messages" /\ page'.of = t /\ page'.link = link
        /\ page'.inbound = {} /\ page'.outbound = {} /\ page'.runs = {}
        /\ page'.threads = {} /\ page'.versions = 0 /\ PageRecord'
    BY <1>1 DEF NoPage, PageRecord
  <1>3. link # Nothing =>
           \E n \in DOMAIN run :
              run[n].thread = t /\ run[n].action = "ASSESSMENT" /\ run[n].initiative = link
    BY <1>0, <1>1 DEF PageInv, LInv, RunsLinked, Assessed
  <1>4. QED
    BY <1>1, <1>2, <1>3, Reading
    DEF PageInv, PageTypeOK, ThreadRead, MessagesRead, InitiativeRead, OneReplyShown,
        AssessmentsTraceable, Shows

LEMMA LoadMessagesReads ==
    ASSUME PageInv, LoadMessages
    PROVE  PageInv'
  <1>0. PICK p, inbound, outbound :
           p = page /\ inbound = MessagesOf(page.of) /\ outbound = OutboundOf(page.of)
    OBVIOUS
  <1>1. /\ page' = [p EXCEPT !.pc = "runs", !.inbound = inbound, !.outbound = outbound]
        /\ page.kind = "thread" /\ page.pc = "messages" /\ UNCHANGED vars
    BY <1>0 DEF LoadMessages, Reads
  <1>2. /\ page'.kind = "thread" /\ page'.pc = "runs" /\ page'.of = p.of /\ page'.link = p.link
        /\ page'.inbound = inbound /\ page'.outbound = outbound /\ page'.runs = p.runs
        /\ page'.threads = p.threads /\ page'.versions = p.versions /\ PageRecord'
        /\ p.threads \subseteq Conversations /\ p.versions \in Nat /\ inbound \subseteq MessageIds
    BY <1>0, <1>1 DEF PageInv, PageRecord, PageTypeOK, MessagesOf, LInv, IInv, Shaped
  <1>3. \A q \in outbound : q \in DOMAIN run /\ run[q].thread = p.of /\ run[q].message \in inbound
    BY <1>0 DEF OutboundOf, RunsOf, MessagesOf, PageInv, LInv, IInv, Shaped, RunsLinked
  <1>4. page'.link # Nothing =>
           \E n \in DOMAIN run :
              run[n].thread = p.of /\ run[n].action = "ASSESSMENT" /\ run[n].initiative = p.link
    BY <1>0, <1>1, <1>2 DEF PageInv, ThreadRead
  <1>5. p.runs \subseteq DOMAIN run
    BY <1>0 DEF PageInv, PageTypeOK
  <1>6. QED
    BY <1>1, <1>2, <1>3, <1>4, <1>5, Reading
    DEF PageInv, PageTypeOK, ThreadRead, MessagesRead, InitiativeRead, OneReplyShown,
        AssessmentsTraceable, Shows

\* Of the replies to one message one is kept.
LEMMA KeptOnce ==
    ASSUME IInv, NEW replies \in SUBSET DOMAIN run, NEW kept \in OnePerMessage(replies)
    PROVE  /\ kept \subseteq replies
           /\ \A p, q \in kept : run[p].message = run[q].message => p = q
  <1>1. kept \subseteq replies
    BY DEF OnePerMessage
  <1>2. SUFFICES ASSUME NEW p \in kept, NEW q \in kept, run[p].message = run[q].message
                 PROVE  p = q
    BY <1>1
  <1>3. PICK same : same = {r \in kept : run[r].message = run[q].message}
    OBVIOUS
  <1>4. Cardinality(same) = 1
    BY <1>1, <1>3 DEF OnePerMessage
  <1>5. same \in SUBSET DOMAIN run
    BY <1>1, <1>3
  <1>6. IsFiniteSet(same)
    BY <1>5, CountOfRuns
  <1>7. PICK x : same = {x}
    BY <1>4, <1>6, FS_Singleton
  <1>8. p \in same /\ q \in same
    BY <1>2, <1>3
  <1>9. QED
    BY <1>7, <1>8

LEMMA ShowThreadShows ==
    ASSUME PageInv, ShowThread
    PROVE  PageInv'
  <1>0. PICK p, runs : p = page /\ runs = RunsOf(page.of)
    OBVIOUS
  <1>01. PICK replies \in VisibleReplies(runs), i \in InitiativeShown(runs) :
            Reads("thread", "runs",
                  [page EXCEPT !.pc = "shown", !.runs = runs, !.outbound = replies, !.link = i])
    BY <1>0, ZenonT(30) DEF ShowThread
  <1>1. /\ page' = [p EXCEPT !.pc = "shown", !.runs = runs, !.outbound = replies, !.link = i]
        /\ page.kind = "thread" /\ page.pc = "runs" /\ UNCHANGED vars
    BY <1>0, <1>01 DEF Reads
  <1>2. /\ page'.kind = "thread" /\ page'.pc = "shown" /\ page'.of = p.of /\ page'.link = i
        /\ page'.inbound = p.inbound /\ page'.outbound = replies /\ page'.runs = runs
        /\ page'.threads = p.threads /\ page'.versions = p.versions /\ PageRecord'
        /\ p.inbound \subseteq MessageIds /\ p.threads \subseteq Conversations /\ p.versions \in Nat
    BY <1>0, <1>1 DEF PageInv, PageRecord, PageTypeOK
  <1>3. \A q \in p.outbound : q \in runs /\ run[q].message \in p.inbound
    BY <1>0, <1>1 DEF PageInv, MessagesRead, RunsOf
  <1>4. p.outbound \subseteq runs /\ runs \subseteq DOMAIN run
    BY <1>0, <1>3 DEF RunsOf
  <1>5. PICK kept \in OnePerMessage(p.outbound) : replies = kept
    <2>1. page.outbound \cap runs = p.outbound /\ page.outbound \ runs = {}
      BY <1>0, <1>4
    <2>2. QED
      BY <2>1 DEF VisibleReplies
  <1>6. /\ replies \subseteq p.outbound
        /\ \A r, q \in replies : run[r].message = run[q].message => r = q
    <2>1. p.outbound \in SUBSET DOMAIN run /\ IInv
      BY <1>4 DEF PageInv, LInv
    <2>2. QED
      BY <1>5, <2>1, KeptOnce
  <1>7. OneReplyShown'
    <2>1. run' = run
      BY <1>1, Reading
    <2>2. /\ \A r, q \in page'.outbound : run'[r].message = run'[q].message => r = q
          /\ page'.outbound \subseteq page'.runs
          /\ \A q \in page'.outbound : run'[q].message \in page'.inbound
      BY <1>2, <1>3, <1>4, <1>6, <2>1
    <2>3. QED
      BY <2>2 DEF OneReplyShown
  <1>8. page.link # Nothing =>
           \E n \in AssessmentsOf(runs) : run[n].initiative = page.link
    BY <1>0, <1>1 DEF PageInv, ThreadRead, AssessmentsOf, RunsOf
  <1>9. IF AssessmentsOf(runs) = {} THEN i = Nothing
        ELSE i \in {run[q].initiative : q \in AssessmentsOf(runs)}
    BY <1>1, <1>8 DEF InitiativeShown
  <1>10. AssessmentsTraceable'
    <2>1. run' = run
      BY <1>1, Reading
    <2>2. AssessmentsOf(page.runs)' = AssessmentsOf(runs)
      BY <1>2, <2>1 DEF AssessmentsOf
    <2>3. QED
      BY <1>2, <1>9, <2>1, <2>2 DEF AssessmentsTraceable, Shows
  <1>11. QED
    BY <1>1, <1>2, <1>4, <1>6, <1>7, <1>10, Reading
    DEF PageInv, PageTypeOK, ThreadRead, MessagesRead, InitiativeRead

-----------------------------------------------------------------------------

\* An initiative has a version of its evidence and, unless Scout made it, an assessment; and the
\* version of every assessment of it is one of its own.
LEMMA AssessmentsOfOne ==
    ASSUME LInv, NEW i \in DOMAIN initiative
    PROVE  /\ i \in Initiatives
           /\ i \in Promoted \/ AssessmentsOfInitiative(i) # {}
           /\ \A q \in AssessmentsOfInitiative(i) : run[q].version \in 1..Len(version[i])
           /\ Len(version[i]) \in Nat /\ Len(version[i]) > 0
  <1>1. i \in Initiatives /\ i # Nothing
    BY NothingAssumption DEF LInv, IInv, Shaped
  <1>2. ASSUME i \notin Promoted
        PROVE  AssessmentsOfInitiative(i) # {}
    <2>1. PICK n \in Assessed : run[n].initiative = i
      BY <1>2 DEF LInv, IInv, NoOrphanInitiative
    <2>2. n \in AssessmentsOfInitiative(i)
      BY <2>1 DEF Assessed, AssessmentsOfInitiative
    <2>3. QED
      BY <2>2
  <1>3. Len(version[i]) \in Nat /\ DOMAIN version[i] = 1..Len(version[i])
    BY <1>1, LengthOfVersions DEF LInv
  <1>4. Len(version[i]) > 0
    <2>1. DOMAIN version[i] # {}
      BY <1>1 DEF LInv, IInv, RowsVersioned
    <2>2. QED
      BY <1>3, <2>1
  <1>5. \A q \in AssessmentsOfInitiative(i) : run[q].version \in DOMAIN version[i]
    <2>1. SUFFICES ASSUME NEW q \in AssessmentsOfInitiative(i)
                   PROVE  run[q].version \in DOMAIN version[i]
      OBVIOUS
    <2>2. q \in DOMAIN run /\ run[q].initiative = i
      BY DEF AssessmentsOfInitiative
    <2>3. q \in Assessed
      BY <1>1, <2>2 DEF LInv, RunsLinked, Assessed
    <2>4. QED
      BY <2>2, <2>3 DEF LInv, IInv, SnapshotCoversAssessment
  <1>6. QED
    BY <1>1, <1>2, <1>3, <1>4, <1>5

LEMMA ListInitiativesShows ==
    ASSUME PageInv, ListInitiatives
    PROVE  PageInv'
  <1>0. PICK rows : rows = [i \in DOMAIN initiative |-> Summary(i)]
    OBVIOUS
  <1>1. page' = [NoPage EXCEPT !.kind = "initiatives", !.pc = "shown", !.rows = rows]
        /\ UNCHANGED vars
    BY <1>0 DEF ListInitiatives, Opens
  <1>2. /\ page'.kind = "initiatives" /\ page'.pc = "shown" /\ page'.rows = rows
        /\ page'.inbound = {} /\ page'.outbound = {} /\ page'.runs = {}
        /\ page'.threads = {} /\ page'.versions = 0 /\ PageRecord'
    BY <1>1 DEF NoPage, PageRecord
  <1>3. \A i \in DOMAIN rows : rows[i].versions > 0 /\ (rows[i].assessed \/ i \in Promoted)
    BY <1>0, AssessmentsOfOne DEF Summary, PageInv
  <1>4. QED
    BY <1>1, <1>2, <1>3, Reading
    DEF PageInv, PageTypeOK, ThreadRead, MessagesRead, InitiativeRead, OneReplyShown,
        AssessmentsTraceable, Shows

LEMMA OpenInitiativeReads ==
    ASSUME PageInv, NEW i, OpenInitiative(i)
    PROVE  PageInv'
  <1>0. PICK rows : rows = [j \in {i} |-> Summary(j)]
    OBVIOUS
  <1>1. /\ page' = [NoPage EXCEPT !.kind = "initiative", !.pc = "threads", !.of = i, !.rows = rows]
        /\ i \in DOMAIN initiative /\ UNCHANGED vars
    BY <1>0 DEF OpenInitiative, Opens
  <1>2. /\ page'.kind = "initiative" /\ page'.pc = "threads" /\ page'.of = i /\ page'.rows = rows
        /\ page'.inbound = {} /\ page'.outbound = {} /\ page'.runs = {}
        /\ page'.threads = {} /\ page'.versions = 0 /\ PageRecord'
    BY <1>1 DEF NoPage, PageRecord
  <1>3. i \in Initiatives /\ Len(version[i]) \in Nat
    BY <1>1, AssessmentsOfOne DEF PageInv
  <1>4. /\ rows[i].versions \in Nat /\ rows[i].versions <= Len(version[i])
        /\ rows[i].assessed => AssessmentsOfInitiative(i) # {}
    <2>1. PICK count, has :
             count = Len(version[i]) /\ has = (AssessmentsOfInitiative(i) # {})
      OBVIOUS
    <2>2. rows[i] = [versions |-> count, assessed |-> has]
      BY <1>0, <2>1 DEF Summary
    <2>3. rows[i].versions = count
      BY <2>2
    <2>4. rows[i].assessed = has
      BY <2>2
    <2>5. count \in Nat /\ count <= count
      BY <1>3, <2>1
    <2>6. QED
      BY <2>1, <2>3, <2>4, <2>5
  <1>5. QED
    BY <1>1, <1>2, <1>3, <1>4, Reading
    DEF PageInv, PageTypeOK, ThreadRead, MessagesRead, InitiativeRead, OneReplyShown,
        AssessmentsTraceable, Shows, AssessmentsOfInitiative

LEMMA LoadThreadsReads ==
    ASSUME PageInv, LoadThreads
    PROVE  PageInv'
  <1>0. PICK p, threads : p = page /\ threads = {t \in DOMAIN thread : thread[t].initiative = page.of}
    OBVIOUS
  <1>1. /\ page' = [p EXCEPT !.pc = "assessments", !.threads = threads]
        /\ page.kind = "initiative" /\ page.pc = "threads" /\ UNCHANGED vars
    BY <1>0 DEF LoadThreads, Reads
  <1>2. /\ page'.kind = "initiative" /\ page'.pc = "assessments" /\ page'.of = p.of
        /\ page'.rows = p.rows /\ page'.outbound = p.outbound /\ page'.runs = p.runs
        /\ page'.inbound = p.inbound /\ page'.threads = threads
        /\ page'.versions = p.versions /\ PageRecord' /\ threads \subseteq Conversations
    BY <1>0, <1>1 DEF PageInv, PageRecord, LInv, IInv, Shaped
  <1>3. QED
    BY <1>0, <1>1, <1>2, Reading
    DEF PageInv, PageTypeOK, ThreadRead, MessagesRead, InitiativeRead, OneReplyShown,
        AssessmentsTraceable, Shows, AssessmentsOfInitiative

LEMMA LoadAssessmentsReads ==
    ASSUME PageInv, LoadAssessments
    PROVE  PageInv'
  <1>0. PICK p, found : p = page /\ found = AssessmentsOfInitiative(page.of)
    OBVIOUS
  <1>01. PICK runs \in Deduplicated(found) :
            Reads("initiative", "assessments",
                  [page EXCEPT !.pc = "versions", !.runs = runs, !.threads = ThreadsShown(runs)])
    BY <1>0, ZenonT(30) DEF LoadAssessments
  <1>02. PICK threads : threads = ThreadsShown(runs)
    OBVIOUS
  <1>1. /\ threads = page.threads \cup {run[q].thread : q \in runs}
        /\ page' = [p EXCEPT !.pc = "versions", !.runs = runs, !.threads = threads]
        /\ page.kind = "initiative" /\ page.pc = "assessments" /\ UNCHANGED vars
    <2>1. /\ page' = [p EXCEPT !.pc = "versions", !.runs = runs, !.threads = threads]
          /\ page.kind = "initiative" /\ page.pc = "assessments" /\ UNCHANGED vars
      BY <1>0, <1>01, <1>02 DEF Reads
    <2>2. threads = page.threads \cup {run[q].thread : q \in runs}
      BY <1>02 DEF ThreadsShown
    <2>3. QED
      BY <2>1, <2>2
  <1>2. /\ page'.kind = "initiative" /\ page'.pc = "versions" /\ page'.of = p.of
        /\ page'.rows = p.rows /\ page'.outbound = p.outbound /\ page'.runs = runs
        /\ page'.inbound = p.inbound /\ page'.threads = threads
        /\ page'.versions = p.versions /\ PageRecord'
    BY <1>0, <1>1 DEF PageInv, PageRecord
  <1>3. /\ runs \subseteq found /\ runs \subseteq DOMAIN run
        /\ p.rows[p.of].assessed => runs # {}
    <2>1. (p.rows[p.of].assessed => found # {}) /\ found \subseteq DOMAIN run
      BY <1>0, <1>1 DEF PageInv, InitiativeRead, AssessmentsOfInitiative
    <2>2. runs \subseteq found
          /\ {run[q].version : q \in runs} = {run[q].version : q \in found}
      BY DEF Deduplicated
    <2>3. QED
      BY <2>1, <2>2
  <1>4. \A q \in runs : run[q].thread \in threads /\ run[q].version \in 1..Len(version[p.of])
    <2>1. p.of \in DOMAIN initiative
      BY <1>0, <1>1 DEF PageInv, InitiativeRead
    <2>2. \A r \in found : run[r].version \in 1..Len(version[p.of])
      BY <1>0, <2>1, AssessmentsOfOne DEF PageInv
    <2>3. QED
      BY <1>1, <1>3, <2>2
  <1>5. threads \subseteq Conversations
    <2>1. \A q \in runs : run[q].thread \in Conversations
      BY <1>3 DEF PageInv, LInv, IInv, Shaped
    <2>2. QED
      BY <1>1, <2>1 DEF PageInv, PageTypeOK
  <1>6. QED
    BY <1>0, <1>1, <1>2, <1>3, <1>4, <1>5, Reading
    DEF PageInv, PageTypeOK, ThreadRead, MessagesRead, InitiativeRead, OneReplyShown,
        AssessmentsTraceable, Shows

LEMMA ShowInitiativeShows ==
    ASSUME PageInv, ShowInitiative
    PROVE  PageInv'
  <1>0. PICK p, count : p = page /\ count = Len(version[page.of])
    OBVIOUS
  <1>1. /\ page' = [p EXCEPT !.pc = "shown", !.versions = count]
        /\ page.kind = "initiative" /\ page.pc = "versions" /\ UNCHANGED vars
    BY <1>0 DEF ShowInitiative, Reads
  <1>2. /\ page'.kind = "initiative" /\ page'.pc = "shown" /\ page'.of = p.of
        /\ page'.rows = p.rows /\ page'.outbound = p.outbound /\ page'.runs = p.runs
        /\ page'.threads = p.threads /\ page'.versions = count /\ PageRecord'
        /\ page'.inbound = p.inbound /\ count \in Nat
    BY <1>0, <1>1, LengthOfVersions DEF PageInv, PageRecord, InitiativeRead, LInv
  <1>3. QED
    BY <1>0, <1>1, <1>2, Reading
    DEF PageInv, PageTypeOK, ThreadRead, MessagesRead, InitiativeRead, OneReplyShown,
        AssessmentsTraceable, Shows

-----------------------------------------------------------------------------
(* All steps. *)

LEMMA PagesAtStart ==
    ASSUME PageInit
    PROVE  PageInv
  <1>1. /\ page.kind = "none" /\ page.inbound = {} /\ page.outbound = {} /\ page.runs = {}
        /\ page.threads = {} /\ page.versions = 0 /\ PageRecord
    BY DEF PageInit, NoPage, PageRecord
  <1>2. LInv
    BY LinksAtStart DEF PageInit
  <1>3. QED
    BY <1>1, <1>2
    DEF PageInv, PageTypeOK, ThreadRead, MessagesRead, InitiativeRead, OneReplyShown,
        AssessmentsTraceable, Shows

LEMMA PagesPreserved ==
    ASSUME PageInv, [PageNext]_pageVars
    PROVE  PageInv'
  <1>1. CASE Next /\ UNCHANGED page
    BY <1>1, IntakeKeepsPages
  <1>2. CASE UNCHANGED pageVars
    BY <1>2, IntakeKeepsPages DEF pageVars
  <1>3. CASE ThreadPages
    BY <1>3, ListThreadsShows, OpenThreadReads, LoadMessagesReads, ShowThreadShows DEF ThreadPages
  <1>4. CASE InitiativePages
    BY <1>4, ListInitiativesShows, OpenInitiativeReads, LoadThreadsReads, LoadAssessmentsReads,
       ShowInitiativeShows DEF InitiativePages
  <1>5. QED
    BY <1>1, <1>2, <1>3, <1>4 DEF PageNext

\* However much is taken in between the statements of a page.
THEOREM PagesInvariance == PageSpec => []PageInv
  <1>1. PageInit => PageInv
    BY PagesAtStart
  <1>2. PageInv /\ [PageNext]_pageVars => PageInv'
    BY PagesPreserved
  <1>3. QED
    BY <1>1, <1>2, PTL DEF PageSpec

\* What a page holds has its type, and the replies and runs it names are rows.
THEOREM PageTypeCorrect == PageSpec => []PageTypeOK
  BY PagesInvariance, PTL DEF PageInv

\* Pages only read: the intake beside them takes its own steps, and all that is proved of it
\* holds (the read API has no statement that writes).
THEOREM PagesOnlyRead == PageSpec => Spec
  <1>1. PageInit => Init
    BY DEF PageInit
  <1>2. [PageNext]_pageVars => [Next]_vars
    <2>1. ThreadPages => UNCHANGED vars
      <3>1. ListThreads => UNCHANGED vars
        BY DEF ListThreads, Opens
      <3>2. \A t : OpenThread(t) => UNCHANGED vars
        BY DEF OpenThread, Opens
      <3>3. LoadMessages => UNCHANGED vars
        BY DEF LoadMessages, Reads
      <3>4. ShowThread => UNCHANGED vars
        BY DEF ShowThread, Reads
      <3>5. QED
        BY <3>1, <3>2, <3>3, <3>4 DEF ThreadPages
    <2>2. InitiativePages => UNCHANGED vars
      <3>1. ListInitiatives => UNCHANGED vars
        BY DEF ListInitiatives, Opens
      <3>2. \A i : OpenInitiative(i) => UNCHANGED vars
        BY DEF OpenInitiative, Opens
      <3>3. LoadThreads => UNCHANGED vars
        BY DEF LoadThreads, Reads
      <3>4. LoadAssessments => UNCHANGED vars
        BY DEF LoadAssessments, Reads
      <3>5. ShowInitiative => UNCHANGED vars
        BY DEF ShowInitiative, Reads
      <3>6. QED
        BY <3>1, <3>2, <3>3, <3>4, <3>5 DEF InitiativePages
    <2>3. UNCHANGED pageVars => UNCHANGED vars
      BY DEF pageVars
    <2>4. QED
      BY <2>1, <2>2, <2>3 DEF PageNext
  <1>3. QED
    BY <1>1, <1>2, PTL DEF PageSpec, Spec

\* Whatever is committed while the page of a thread is read: each email has at most one reply
\* on it, whose run and email are on it too (_canonical_messages).
THEOREM RepliesShownOnce == PageSpec => []OneReplyShown
  BY PagesInvariance, PTL DEF PageInv

\* Whatever is committed between the statements of a page: an assessment is shown with its
\* initiative, its thread and its evidence version (get_email_thread, get_initiative), and
\* an initiative without an assessment, as Scout makes them, is shown as one.
THEOREM AssessmentsTraced == PageSpec => []AssessmentsTraceable
  BY PagesInvariance, PTL DEF PageInv

=============================================================================
