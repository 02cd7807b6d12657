-------------------------------- MODULE Scout --------------------------------
(***************************************************************************)
(* Scout: the queue of candidates found in approved sources, and what a    *)
(* reviewer makes of them (oliver/utils/agents/scout.py behind             *)
(* routes/scout.py): the tables scout_candidates and, for a promoted       *)
(* candidate, initiatives with its first evidence version.                 *)
(*                                                                         *)
(* A discovery is one database session under READ COMMITTED that works     *)
(* through the findings of its batch: for each it looks the candidate up   *)
(* and, when there is none, inserts it.  Two discoveries may overlap; the  *)
(* unique constraint on the source makes the later insert wait for the     *)
(* earlier transaction, and fail when that commits.  A review locks the    *)
(* candidate's row until it commits.  Any session may fail, and then       *)
(* nothing of it remains.                                                  *)
(*                                                                         *)
(* Abstracted: titles, summaries and rationales; the confidence of a       *)
(* finding (confident says that it reaches the configured floor); content  *)
(* by its hash; reviewers, times and audit events.                         *)
(***************************************************************************)
EXTENDS Naturals, Sequences, FiniteSets

CONSTANTS
    References,         \* source references
    Contents,           \* hashes of the contents of source records
    Candidates,         \* identifiers of scout_candidates rows
    Initiatives,        \* identifiers of initiatives
    NoInitiative,       \* "promoted_initiative_id is NULL"
    Discoveries,        \* discovery sessions that can be in progress together
    Reviews,            \* review sessions that can be in progress together
    Requests            \* the batches of source records that are submitted

Source == [reference: References, content: Contents]

ASSUME RequestsAssumption == Requests \subseteq Seq(Source)
ASSUME NoInitiativeAssumption == NoInitiative \notin Initiatives

VARIABLES
    candidate,  \* the committed scout_candidates rows, by identifier
    initiative, \* the committed initiatives made from candidates, with their evidence
    discovery,  \* the discovery sessions in progress
    review      \* the review sessions in progress

vars == <<candidate, initiative, discovery, review>>

-----------------------------------------------------------------------------

CandidateRow ==
    [source: Source, status: {"DISCOVERED", "DISMISSED", "PROMOTED"},
     promoted_initiative_id: Initiatives \cup {NoInitiative}]

\* An initiative and version 1 of its evidence: one item, that refers to the candidate
\* and has its content, whose hash is the fingerprint of the version.
InitiativeRow == [external_source_ref: Candidates, source_fingerprint: Contents]

Finding == [reference: References, is_candidate: BOOLEAN, confident: BOOLEAN]

Put(f, k, value) == [x \in DOMAIN f \cup {k} |-> IF x = k THEN value ELSE f[x]]

Forget(f, k) == [x \in DOMAIN f \ {k} |-> f[x]]

NewCandidate(source) ==
    [source |-> source, status |-> "DISCOVERED", promoted_initiative_id |-> NoInitiative]

-----------------------------------------------------------------------------
(* Discovery. *)

\* Every record has a reference of its own.
UniqueReferences(records) ==
    \A m, n \in DOMAIN records : records[m].reference = records[n].reference => m = n

\* The contract of the model's answer: one finding for each record, in any order.
OneFindingPerRecord(records, findings) ==
    /\ \A m, n \in DOMAIN findings : findings[m].reference = findings[n].reference => m = n
    /\ {findings[n].reference : n \in DOMAIN findings}
          = {records[n].reference : n \in DOMAIN records}

\* A finding below the confidence floor is not queued.
Qualifies(finding) == finding.is_candidate /\ finding.confident

\* The source record a finding is about.
SourceOf(records, finding) ==
    CHOOSE source \in {records[n] : n \in DOMAIN records} : source.reference = finding.reference

\* A batch is submitted and the model has answered; what qualifies is to be queued, in
\* the order of the findings.  An answer that breaks the contract, like a batch with a
\* repeated reference, ends the session before it touches a row.
Discover(d, records, findings) ==
    /\ d \notin DOMAIN discovery
    /\ UniqueReferences(records)
    /\ OneFindingPerRecord(records, findings)
    /\ LET qualified == SelectSeq(findings, Qualifies)
       IN  discovery' = Put(discovery, d,
              [pending |-> [n \in 1..Len(qualified) |-> SourceOf(records, qualified[n])],
               inserting |-> FALSE, inserted |-> << >>])
    /\ UNCHANGED <<candidate, initiative, review>>

\* What session d sees: the committed rows and those it has flushed itself.
Visible(d, source) ==
    \/ \E c \in DOMAIN candidate : candidate[c].source = source
    \/ \E c \in DOMAIN discovery[d].inserted : discovery[d].inserted[c] = source

\* The candidate is known already, in whatever status: nothing is written.
FindKnown(d) ==
    /\ d \in DOMAIN discovery
    /\ ~discovery[d].inserting
    /\ discovery[d].pending # << >>
    /\ Visible(d, Head(discovery[d].pending))
    /\ discovery' = [discovery EXCEPT ![d].pending = Tail(@)]
    /\ UNCHANGED <<candidate, initiative, review>>

\* The SELECT finds no candidate of this source and content.
FindUnknown(d) ==
    /\ d \in DOMAIN discovery
    /\ ~discovery[d].inserting
    /\ discovery[d].pending # << >>
    /\ ~Visible(d, Head(discovery[d].pending))
    /\ discovery' = [discovery EXCEPT ![d].inserting = TRUE]
    /\ UNCHANGED <<candidate, initiative, review>>

\* Mutated: the migration has lost the unique constraint.
NoConstraint(source) == TRUE

\* uq_scout_candidate_source_content lets a row of this source in: no committed row and
\* no row of an open transaction has it.
Unconstrained(source) ==
    /\ \A c \in DOMAIN candidate : candidate[c].source # source
    /\ \A d \in DOMAIN discovery : \A c \in DOMAIN discovery[d].inserted :
          discovery[d].inserted[c] # source

\* Identifiers that some row, committed or not, has.
Taken(c) == c \in DOMAIN candidate \/ \E d \in DOMAIN discovery : c \in DOMAIN discovery[d].inserted

InsertCandidate(d, c) ==
    /\ d \in DOMAIN discovery
    /\ discovery[d].inserting
    /\ ~Taken(c)
    /\ LET source == Head(discovery[d].pending)
       IN  /\ Unconstrained(source)
           /\ discovery' = [discovery EXCEPT ![d].inserted = Put(@, c, source),
                                             ![d].inserting = FALSE,
                                             ![d].pending = Tail(@)]
    /\ UNCHANGED <<candidate, initiative, review>>

CommitDiscovery(d) ==
    /\ d \in DOMAIN discovery
    /\ discovery[d].pending = << >>
    /\ LET inserted == discovery[d].inserted
       IN  candidate' = [c \in DOMAIN candidate \cup DOMAIN inserted |->
                            IF c \in DOMAIN inserted THEN NewCandidate(inserted[c])
                            ELSE candidate[c]]
    /\ discovery' = Forget(discovery, d)
    /\ UNCHANGED <<initiative, review>>

\* The unique violation of an insert that waited for the same source, a deadlock of two
\* batches that wait for each other, a crash: the whole batch is rolled back.
AbandonDiscovery(d) ==
    /\ d \in DOMAIN discovery
    /\ discovery' = Forget(discovery, d)
    /\ UNCHANGED <<candidate, initiative, review>>

-----------------------------------------------------------------------------
(* Review. *)

\* Mutated: the candidate is read without a lock.
ReadUnlocked(c) == c \in DOMAIN candidate

\* SELECT ... FOR UPDATE of the candidate's row.
LockCandidate(c) ==
    /\ c \in DOMAIN candidate
    /\ \A w \in DOMAIN review : review[w].candidate # c

OpenReview(v, c, decision) ==
    /\ v \notin DOMAIN review
    /\ LockCandidate(c)
    /\ review' = Put(review, v, [candidate |-> c, decision |-> decision, row |-> candidate[c]])
    /\ UNCHANGED <<candidate, initiative, discovery>>

\* A promotion makes a DI1 initiative with the candidate as its first evidence.
Promote(v, i) ==
    /\ v \in DOMAIN review
    /\ review[v].decision = "PROMOTE"
    /\ review[v].row.status = "DISCOVERED"
    /\ i \notin DOMAIN initiative
    /\ LET c == review[v].candidate
       IN  /\ initiative' = Put(initiative, i,
                 [external_source_ref |-> c, source_fingerprint |-> review[v].row.source.content])
           /\ candidate' = [candidate EXCEPT ![c].status = "PROMOTED",
                                             ![c].promoted_initiative_id = i]
    /\ review' = Forget(review, v)
    /\ UNCHANGED discovery

\* A dismissal may be repeated.
Dismiss(v) ==
    /\ v \in DOMAIN review
    /\ review[v].decision = "DISMISS"
    /\ review[v].row.status # "PROMOTED"
    /\ candidate' = [candidate EXCEPT ![review[v].candidate].status = "DISMISSED"]
    /\ review' = Forget(review, v)
    /\ UNCHANGED <<initiative, discovery>>

\* A repeated promotion answers the initiative there is; the promotion of a dismissed
\* and the dismissal of a promoted candidate are refused; a session may fail.  Nothing
\* is written.
EndReview(v) ==
    /\ v \in DOMAIN review
    /\ review' = Forget(review, v)
    /\ UNCHANGED <<candidate, initiative, discovery>>

-----------------------------------------------------------------------------

Init ==
    /\ candidate = << >>
    /\ initiative = << >>
    /\ discovery = << >>
    /\ review = << >>

DiscoveryStep(d) ==
    \/ \E records \in Requests : \E findings \in [DOMAIN records -> Finding] :
          Discover(d, records, findings)
    \/ FindKnown(d)
    \/ FindUnknown(d)
    \/ \E c \in Candidates : InsertCandidate(d, c)
    \/ CommitDiscovery(d)
    \/ AbandonDiscovery(d)

ReviewStep(v) ==
    \/ \E c \in Candidates, decision \in {"PROMOTE", "DISMISS"} : OpenReview(v, c, decision)
    \/ \E i \in Initiatives : Promote(v, i)
    \/ Dismiss(v)
    \/ EndReview(v)

Next ==
    \/ \E d \in Discoveries : DiscoveryStep(d)
    \/ \E v \in Reviews : ReviewStep(v)

Spec == Init /\ [][Next]_vars

-----------------------------------------------------------------------------
(* Properties. *)

\* The type of every variable.
TypeOK ==
    /\ DOMAIN candidate \subseteq Candidates
    /\ \A c \in DOMAIN candidate : candidate[c] \in CandidateRow
    /\ DOMAIN initiative \subseteq Initiatives
    /\ \A i \in DOMAIN initiative : initiative[i] \in InitiativeRow
    /\ DOMAIN discovery \subseteq Discoveries
    /\ \A d \in DOMAIN discovery :
          /\ discovery[d].pending \in Seq(Source)
          /\ discovery[d].inserting \in BOOLEAN
          /\ DOMAIN discovery[d].inserted \subseteq Candidates
          /\ \A c \in DOMAIN discovery[d].inserted : discovery[d].inserted[c] \in Source
    /\ DOMAIN review \subseteq Reviews
    /\ \A v \in DOMAIN review :
          review[v] \in [candidate: Candidates, decision: {"PROMOTE", "DISMISS"},
                         row: CandidateRow]

\* However many reviewers promote or dismiss a candidate together, it becomes one
\* initiative or none; candidate, initiative and evidence always agree about which.
PromotedOnce ==
    /\ \A i \in DOMAIN initiative :
          LET c == initiative[i].external_source_ref
          IN  /\ c \in DOMAIN candidate
              /\ candidate[c].status = "PROMOTED"
              /\ candidate[c].promoted_initiative_id = i
              /\ candidate[c].source.content = initiative[i].source_fingerprint
    /\ \A c \in DOMAIN candidate :
          IF candidate[c].status = "PROMOTED"
          THEN candidate[c].promoted_initiative_id \in DOMAIN initiative
          ELSE candidate[c].promoted_initiative_id = NoInitiative

\* The queue as the reviewers know it, of sources instead of rows: a batch enters it as
\* a whole and once, however many discoveries looked for its records together, and a
\* decision stands, whatever is discovered again later.  Two rows of one source would be
\* a queue the abstract one never shows.
RowsFor(source) == {c \in DOMAIN candidate : candidate[c].source = source}

StatusOf(source) ==
    IF RowsFor(source) = {} THEN "UNKNOWN"
    ELSE IF Cardinality(RowsFor(source)) > 1 THEN "TWICE"
    ELSE candidate[CHOOSE c \in RowsFor(source) : TRUE].status

MadeFrom(source) ==
    {i \in DOMAIN initiative : candidate[initiative[i].external_source_ref].source = source}

Queue == INSTANCE ReviewQueue WITH
    Sources <- Source,
    queue <- [s \in Source |-> StatusOf(s)],
    made <- [s \in Source |-> Cardinality(MadeFrom(s))]

ImplementsReviewQueue == Queue!QueueSpec
=============================================================================
