----------------------------- MODULE Attachments -----------------------------
(***************************************************************************)
(* Attachments of emails (oliver/utils/attachments/service.py, called by   *)
(* respond_to_email for each attachment of a request): bytes in a          *)
(* content-addressed store, a row of attachment_blobs for each content     *)
(* with what was extracted from it, and a row of email_attachments for     *)
(* each attachment of a message.                                           *)
(*                                                                         *)
(* The bytes are outside the database: they are written before the row     *)
(* that refers to them is inserted, and stay when the session is rolled    *)
(* back.  The rows are flushed one by one and committed together, after    *)
(* the assessment, minutes later; until then the primary key of a flushed  *)
(* blob makes another session with the same content wait, and fail when    *)
(* this one commits.  A request that failed is sent again by the workflow. *)
(*                                                                         *)
(* Abstracted: contents by their hash; what the document libraries can     *)
(* read, within their limits, is a constant; file names by their           *)
(* extension.                                                              *)
(***************************************************************************)
EXTENDS Naturals, Sequences, FiniteSets

CONSTANTS
    Requests,       \* calls of /respond
    Messages,       \* stored inbound messages
    AttachmentIds,  \* the provider's ids of a message's attachments
    Contents,       \* what attachments contain
    Extensions,     \* extensions of file names
    Supported,      \* those with an extractor
    Acceptable,     \* contents that are valid base64 and within the size limit
    Readable,       \* contents with an extension whose extractor can read them
    Mailboxes,      \* the emails the requests may be about
    MaxFaults       \* bound: provider errors and crashes

Attachment == [id: AttachmentIds, content: Contents, extension: Extensions]

Email == [message: Messages, attachments: Seq(Attachment)]

ASSUME ExtensionAssumption == Supported \subseteq Extensions
ASSUME ContentAssumption == Acceptable \subseteq Contents /\ Readable \subseteq Contents \X Supported
ASSUME MailboxAssumption == Mailboxes \subseteq [Requests -> Email]
ASSUME RequestAssumption == IsFiniteSet(Requests)
ASSUME FaultAssumption == MaxFaults \in Nat

VARIABLES
    email,      \* the email of each request; never changes
    store,      \* how much of each content is in the store under its hash
    blob,       \* committed attachment_blobs: the extraction status, by content
    link,       \* committed email_attachments: content and extension, by message and id
    session,    \* the progress of each request
    faults      \* how many faults have happened

vars == <<email, store, blob, link, session, faults>>

-----------------------------------------------------------------------------

Statuses == {"SUCCEEDED", "FAILED", "UNSUPPORTED"}
Steps == {"idle", "next", "putting", "replacing", "inserting", "linking", "ended"}
Keys == Messages \X AttachmentIds
LinkRow == [content: Contents, extension: Extensions]

Put(f, k, value) == [x \in DOMAIN f \cup {k} |-> IF x = k THEN value ELSE f[x]]

Merge(f, g) == [x \in DOMAIN f \cup DOMAIN g |-> IF x \in DOMAIN g THEN g[x] ELSE f[x]]

Start == [pc |-> "idle", pending |-> << >>, blobs |-> << >>, links |-> << >>]

Init ==
    /\ email \in Mailboxes
    /\ store = [c \in Contents |-> "absent"]
    /\ blob = << >>
    /\ link = << >>
    /\ session = [q \in Requests |-> Start]
    /\ faults = 0

Continue(q, record) ==
    /\ session' = [session EXCEPT ![q] = record]
    /\ UNCHANGED <<email, faults>>

Goes(q, step) == [session[q] EXCEPT !.pc = step]

\* The attachment the session works on.
Current(q) == Head(session[q].pending)

KeyOf(q, attachment) == <<email[q].message, attachment.id>>

\* What the extractor chosen by the extension of the name makes of the bytes.
Extraction(attachment) ==
    IF attachment.extension \notin Supported THEN "UNSUPPORTED"
    ELSE IF <<attachment.content, attachment.extension>> \in Readable THEN "SUCCEEDED"
    ELSE "FAILED"

-----------------------------------------------------------------------------

\* The attachments of the request are ingested in their order.
Begin(q) ==
    /\ session[q].pc = "idle"
    /\ Continue(q, [Start EXCEPT !.pc = "next", !.pending = email[q].attachments])
    /\ UNCHANGED <<store, blob, link>>

\* What the session sees of a link and of a blob: committed rows and its own.
LinkKnown(q, attachment) == KeyOf(q, attachment) \in DOMAIN link \cup DOMAIN session[q].links

\* Mutated: blobs are looked for among the rows of this session only.
OwnBlob(q, attachment) == attachment.content \in DOMAIN session[q].blobs

BlobKnown(q, attachment) == attachment.content \in DOMAIN blob \cup DOMAIN session[q].blobs

\* An attachment that is linked already is skipped; one that cannot be decoded or is too
\* large is refused, and with it the request; one whose content is known is only linked.
Examine(q) ==
    /\ session[q].pc = "next"
    /\ session[q].pending # << >>
    /\ LET attachment == Current(q)
       IN  \/ /\ LinkKnown(q, attachment)
              /\ Continue(q, [session[q] EXCEPT !.pending = Tail(@)])
           \/ /\ ~LinkKnown(q, attachment)
              /\ attachment.content \notin Acceptable
              /\ Continue(q, [Start EXCEPT !.pc = "ended"])
           \/ /\ ~LinkKnown(q, attachment)
              /\ attachment.content \in Acceptable
              /\ Continue(q, Goes(q, IF BlobKnown(q, attachment) THEN "linking" ELSE "putting"))
    /\ UNCHANGED <<store, blob, link>>

\* Mutated: the bytes are written under their final name.
WritingInPlace(content) ==
    [store EXCEPT ![content] = IF @ = "absent" THEN "partial" ELSE @]

\* While the bytes are being written to a temporary file the store is as it was.
WritingTemporary(content) == store

\* Bytes that are in the store are not written again.
PutBytes(q) ==
    LET content == Current(q).content
    IN  /\ session[q].pc = "putting"
        /\ \/ /\ store[content] # "absent"
              /\ Continue(q, Goes(q, "inserting"))
              /\ UNCHANGED store
           \/ /\ store[content] = "absent"
              /\ Continue(q, Goes(q, "replacing"))
              /\ store' = WritingTemporary(content)
        /\ UNCHANGED <<blob, link>>

\* The temporary file takes its final name.
ReplaceTarget(q) ==
    /\ session[q].pc = "replacing"
    /\ store' = [store EXCEPT ![Current(q).content] = "complete"]
    /\ Continue(q, Goes(q, "inserting"))
    /\ UNCHANGED <<blob, link>>

\* Does another transaction hold the primary key of this content, or the unique message
\* and attachment id?
BlobHeld(q, content) == \E p \in Requests \ {q} : content \in DOMAIN session[p].blobs
LinkHeld(q, key) == \E p \in Requests \ {q} : key \in DOMAIN session[p].links

\* Mutated: the blob's row is committed before its link is made.
InsertBlobAndCommit(q) ==
    LET attachment == Current(q)
    IN  /\ session[q].pc = "inserting"
        /\ attachment.content \notin DOMAIN blob
        /\ ~BlobHeld(q, attachment.content)
        /\ blob' = Put(blob, attachment.content, Extraction(attachment))
        /\ Continue(q, Goes(q, "linking"))
        /\ UNCHANGED <<store, link>>

InsertBlob(q) ==
    LET attachment == Current(q)
    IN  /\ session[q].pc = "inserting"
        /\ attachment.content \notin DOMAIN blob
        /\ ~BlobHeld(q, attachment.content)
        /\ Continue(q, [Goes(q, "linking") EXCEPT
                           !.blobs = Put(@, attachment.content, Extraction(attachment))])
        /\ UNCHANGED <<store, blob, link>>

InsertLink(q) ==
    LET attachment == Current(q)
        key        == KeyOf(q, attachment)
    IN  /\ session[q].pc = "linking"
        /\ key \notin DOMAIN link
        /\ ~LinkHeld(q, key)
        /\ Continue(q, [Goes(q, "next") EXCEPT
                           !.pending = Tail(@),
                           !.links = Put(@, key, [content   |-> attachment.content,
                                                  extension |-> attachment.extension])])
        /\ UNCHANGED <<store, blob, link>>

\* The first commit of the request after its attachments.
Commit(q) ==
    /\ session[q].pc = "next"
    /\ session[q].pending = << >>
    /\ blob' = Merge(blob, session[q].blobs)
    /\ link' = Merge(link, session[q].links)
    /\ Continue(q, [Start EXCEPT !.pc = "ended"])
    /\ UNCHANGED store

\* Another session has committed the row that this one inserts.
Violation(q) ==
    \/ session[q].pc = "inserting" /\ Current(q).content \in DOMAIN blob
    \/ session[q].pc = "linking" /\ KeyOf(q, Current(q)) \in DOMAIN link

\* q waits for a row that p has flushed.
WaitsFor(q, p) ==
    /\ p # q
    /\ \/ session[q].pc = "inserting" /\ Current(q).content \in DOMAIN session[p].blobs
       \/ session[q].pc = "linking" /\ KeyOf(q, Current(q)) \in DOMAIN session[p].links

\* The database refuses the insert: the rows of the session are rolled back, its bytes
\* stay, and the workflow sends the email again.
Refuse(q) ==
    /\ Violation(q)
    /\ Continue(q, Start)
    /\ UNCHANGED <<store, blob, link>>

\* Of sessions that wait for each other in a circle the database gives one up.
BreakDeadlock(q) ==
    /\ \E circle \in SUBSET Requests :
          /\ q \in circle
          /\ \A p \in circle : /\ \E r \in circle : WaitsFor(p, r)
                             /\ \E r \in circle : WaitsFor(r, p)
    /\ Continue(q, Start)
    /\ UNCHANGED <<store, blob, link>>

\* The assessment fails, or the server dies: as above.
Fail(q) ==
    /\ session[q].pc \notin {"idle", "ended"}
    /\ faults < MaxFaults
    /\ faults' = faults + 1
    /\ session' = [session EXCEPT ![q] = Start]
    /\ UNCHANGED <<email, store, blob, link>>

Advance(q) ==
    \/ Begin(q)
    \/ Examine(q)
    \/ PutBytes(q)
    \/ ReplaceTarget(q)
    \/ InsertBlob(q)
    \/ InsertLink(q)
    \/ Commit(q)
    \/ Refuse(q)
    \/ BreakDeadlock(q)

Next == \E q \in Requests : Advance(q) \/ Fail(q)

Spec == Init /\ [][Next]_vars

\* A request that is being handled goes on, and the workflow repeats one that failed.
FairSpec == Spec /\ \A q \in Requests : WF_vars(Advance(q))

-----------------------------------------------------------------------------
(* Properties. *)

\* The type of every variable.
TypeOK ==
    /\ email \in Mailboxes
    /\ store \in [Contents -> {"absent", "partial", "complete"}]
    /\ DOMAIN blob \subseteq Contents
    /\ \A c \in DOMAIN blob : blob[c] \in Statuses
    /\ DOMAIN link \subseteq Keys
    /\ \A k \in DOMAIN link : link[k] \in LinkRow
    /\ \A q \in Requests :
          /\ session[q].pc \in Steps
          /\ session[q].pending \in Seq(Attachment)
          /\ DOMAIN session[q].blobs \subseteq Contents
          /\ \A c \in DOMAIN session[q].blobs : session[q].blobs[c] \in Statuses
          /\ DOMAIN session[q].links \subseteq Keys
          /\ \A k \in DOMAIN session[q].links : session[q].links[k] \in LinkRow
    /\ faults \in 0..MaxFaults

\* A row never refers to bytes that are missing or half-written, whichever session wrote
\* them and wherever it died; a link never refers to a missing row.
StoredBeforeReferred ==
    /\ \A c \in DOMAIN blob : store[c] = "complete"
    /\ \A k \in DOMAIN link : link[k].content \in DOMAIN blob

\* What a content yielded is explained by one of the files it arrived as: the row is
\* committed with its first link, and never without one.  (A file with the same content
\* and another extension keeps the status of the first.)
ExtractionExplained ==
    \A c \in DOMAIN blob : \E k \in DOMAIN link :
        /\ link[k].content = c
        /\ blob[c] = Extraction([id |-> k[2], content |-> c, extension |-> link[k].extension])

\* Every attachment of an acceptable email is linked in the end, although sessions with
\* the same content make each other wait, fail and start again: unless they deadlock for
\* ever, which the seconds between a failure and its repetition prevent in practice.
EventuallyLinked ==
    ~[]<><<\E q \in Requests : BreakDeadlock(q)>>_vars =>
        \A q \in Requests :
            (\A n \in DOMAIN email[q].attachments : email[q].attachments[n].content \in Acceptable)
                ~> (\A n \in DOMAIN email[q].attachments :
                       KeyOf(q, email[q].attachments[n]) \in DOMAIN link)
=============================================================================
