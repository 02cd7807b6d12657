-------------------------- MODULE Attachments_proofs --------------------------
(***************************************************************************)
(* For any number of requests, contents and attachments: what the database *)
(* says of an attachment is backed by the store and explained by the files *)
(* that were sent (module Attachments).                                    *)
(*                                                                         *)
(* The invariant adds what a session relies on between its steps: bytes    *)
(* are complete before its row is inserted, what it links is stored by     *)
(* itself or committed, and nobody else holds the keys of its links.       *)
(* That waiting always ends is an argument about finite graphs, on top of  *)
(* the fact that a session at rest holds no row.                           *)
(***************************************************************************)
EXTENDS Attachments, FiniteSetTheorems, TLAPS

-----------------------------------------------------------------------------
(* The inductive invariant. *)

Working(q) == session[q].pc \in {"putting", "replacing", "inserting", "linking"}

\* The variables have their types, and no half-written content is ever visible.
Shaped ==
    /\ email \in [Requests -> Email]
    /\ store \in [Contents -> {"absent", "complete"}]
    /\ DOMAIN session = Requests
    /\ \A q \in Requests :
          /\ session[q] = [pc |-> session[q].pc, pending |-> session[q].pending,
                           blobs |-> session[q].blobs, links |-> session[q].links]
          /\ session[q].pc \in Steps
          /\ session[q].pending \in Seq(Attachment)
          /\ DOMAIN session[q].blobs \subseteq Contents
          /\ \A c \in DOMAIN session[q].blobs : session[q].blobs[c] \in Statuses
          /\ DOMAIN session[q].links \subseteq Keys
          /\ \A k \in DOMAIN session[q].links : session[q].links[k] \in LinkRow
    /\ DOMAIN blob \subseteq Contents
    /\ \A c \in DOMAIN blob : blob[c] \in Statuses
    /\ DOMAIN link \subseteq Keys
    /\ \A k \in DOMAIN link : link[k] \in LinkRow
    /\ faults \in 0..MaxFaults

\* A session that works on an attachment has one, and has not linked it yet.
AtWork ==
    \A q \in Requests : Working(q) =>
        /\ session[q].pending # << >>
        /\ KeyOf(q, Current(q)) \notin DOMAIN session[q].links

\* The bytes are complete before the row of a content is inserted.
BytesFirst ==
    \A q \in Requests :
        /\ session[q].pc = "inserting" => store[Current(q).content] = "complete"
        /\ \A c \in DOMAIN session[q].blobs : store[c] = "complete"

\* What a session links is committed or its own.
RowFirst ==
    \A q \in Requests :
        /\ session[q].pc = "linking" =>
              Current(q).content \in DOMAIN blob \cup DOMAIN session[q].blobs
        /\ \A k \in DOMAIN session[q].links :
              session[q].links[k].content \in DOMAIN blob \cup DOMAIN session[q].blobs

\* Is the status of content c in blobs that of one of the files in links?
Explained(c, blobs, links) ==
    \E k \in DOMAIN links :
        /\ links[k].content = c
        /\ blobs[c] = Extraction([id |-> k[2], content |-> c, extension |-> links[k].extension])

\* A flushed row is explained by a file of its session, at the latest the one it is about
\* to link.
SessionsExplained ==
    \A q \in Requests : \A c \in DOMAIN session[q].blobs :
        \/ Explained(c, session[q].blobs, session[q].links)
        \/ /\ session[q].pc = "linking"
           /\ Current(q).content = c
           /\ session[q].blobs[c] = Extraction(Current(q))

\* A link is flushed by one session, and not again once it is committed.
LinksApart ==
    \A q \in Requests : \A k \in DOMAIN session[q].links :
        /\ k \notin DOMAIN link
        /\ \A p \in Requests : k \in DOMAIN session[p].links => p = q

IInv ==
    /\ Shaped
    /\ AtWork
    /\ BytesFirst
    /\ RowFirst
    /\ SessionsExplained
    /\ LinksApart
    /\ StoredBeforeReferred
    /\ ExtractionExplained

-----------------------------------------------------------------------------
(* What every step does to the sessions. *)

LEMMA Continued ==
    ASSUME Shaped, NEW q \in Requests, NEW record, session' = [session EXCEPT ![q] = record]
    PROVE  /\ DOMAIN session' = Requests
           /\ session'[q] = record
           /\ \A p \in Requests : p # q => session'[p] = session[p]
  BY DEF Shaped

LEMMA EmptyMap ==
    DOMAIN << >> = {}
  OBVIOUS

LEMMA InitEstablishes == Init => IInv
  <1> SUFFICES ASSUME Init PROVE IInv
    OBVIOUS
  <1>1. \A q \in Requests :
            /\ session[q] = [pc |-> "idle", pending |-> << >>, blobs |-> << >>, links |-> << >>]
            /\ session[q].pc = "idle" /\ session[q].pending = << >>
            /\ session[q].blobs = << >> /\ session[q].links = << >>
    BY DEF Init, Start
  <1>2. Shaped
    <2>1. email \in [Requests -> Email]
      BY MailboxAssumption DEF Init
    <2>2. store \in [Contents -> {"absent", "complete"}]
      BY DEF Init
    <2>3. faults \in 0..MaxFaults
      BY FaultAssumption DEF Init
    <2>4. DOMAIN session = Requests
      BY DEF Init
    <2>5. << >> \in Seq(Attachment)
      OBVIOUS
    <2>6. DOMAIN blob = {} /\ DOMAIN link = {}
      BY EmptyMap DEF Init
    <2>7. QED
      BY <1>1, <2>1, <2>2, <2>3, <2>4, <2>5, <2>6, EmptyMap DEF Shaped, Steps
  <1>3. QED
    BY <1>1, <1>2, EmptyMap
       DEF Init, IInv, AtWork, Working, BytesFirst, RowFirst, SessionsExplained, LinksApart,
           StoredBeforeReferred, ExtractionExplained

\* A session that gives up its rows: it begins, is refused, fails or waits for ever.
LEMMA ClearedPreserves ==
    ASSUME IInv, NEW q \in Requests, NEW record,
           session' = [session EXCEPT ![q] = record],
           record = [pc |-> record.pc, pending |-> record.pending, blobs |-> << >>, links |-> << >>],
           record.pc \in {"idle", "next", "ended"},
           record.pending \in Seq(Attachment),
           UNCHANGED <<email, store, blob, link>>, faults' \in 0..MaxFaults
    PROVE  IInv'
  <1>1. /\ DOMAIN session' = Requests
        /\ session'[q] = record
        /\ \A p \in Requests : p # q => session'[p] = session[p]
    BY Continued DEF IInv
  <1>2. DOMAIN record.blobs = {} /\ DOMAIN record.links = {}
    BY EmptyMap
  <1>3. Shaped'
    BY <1>1, <1>2 DEF IInv, Shaped, Steps
  <1>4. AtWork'
    BY <1>1 DEF IInv, AtWork, Working, KeyOf, Current
  <1>5. BytesFirst'
    BY <1>1, <1>2 DEF IInv, BytesFirst, Current
  <1>6. RowFirst'
    BY <1>1, <1>2 DEF IInv, RowFirst, Current
  <1>7. SessionsExplained'
    BY <1>1, <1>2 DEF IInv, SessionsExplained, Explained, Current
  <1>8. LinksApart'
    BY <1>1, <1>2 DEF IInv, LinksApart
  <1>9. StoredBeforeReferred' /\ ExtractionExplained'
    BY DEF IInv, StoredBeforeReferred, ExtractionExplained
  <1>10. QED
    BY <1>3, <1>4, <1>5, <1>6, <1>7, <1>8, <1>9 DEF IInv

\* A session that goes on without a row of its own more or less; the store may only gain.
LEMMA MovedPreserves ==
    ASSUME IInv, NEW q \in Requests, NEW record,
           session' = [session EXCEPT ![q] = record],
           record = [pc |-> record.pc, pending |-> record.pending,
                     blobs |-> record.blobs, links |-> record.links],
           record.blobs = session[q].blobs, record.links = session[q].links,
           record.pc \in Steps, record.pending \in Seq(Attachment),
           record.pc \in {"putting", "replacing", "inserting", "linking"} =>
              /\ record.pending # << >>
              /\ KeyOf(q, Head(record.pending)) \notin DOMAIN session[q].links,
           record.pc = "inserting" => store'[Head(record.pending).content] = "complete",
           record.pc = "linking" =>
              Head(record.pending).content \in DOMAIN blob \cup DOMAIN session[q].blobs,
           session[q].pc # "linking",
           store' \in [Contents -> {"absent", "complete"}],
           \A c \in Contents : store[c] = "complete" => store'[c] = "complete",
           UNCHANGED <<email, blob, link, faults>>
    PROVE  IInv'
  <1>1. /\ DOMAIN session' = Requests
        /\ session'[q] = record
        /\ \A p \in Requests : p # q => session'[p] = session[p]
    BY Continued DEF IInv
  <1>2. /\ record.blobs = session[q].blobs
        /\ record.links = session[q].links
    OBVIOUS
  <1>3. Shaped'
    BY <1>1, <1>2 DEF IInv, Shaped
  <1>4. AtWork'
    BY <1>1, <1>2 DEF IInv, AtWork, Working, KeyOf, Current
  <1>5. BytesFirst'
    <2>1. \A p \in Requests : p # q /\ session[p].pc = "inserting" => Current(p) \in Attachment
      BY DEF IInv, Shaped, AtWork, Working, Current
    <2>2. \A p \in Requests : p # q /\ session[p].pc = "inserting" => Current(p).content \in Contents
      BY <2>1 DEF Attachment
    <2>3. \A p \in Requests : DOMAIN session[p].blobs \subseteq Contents
      BY DEF IInv, Shaped
    <2>4. QED
      BY <1>1, <1>2, <2>2, <2>3 DEF IInv, BytesFirst, Current
  <1>6. RowFirst'
    BY <1>1, <1>2 DEF IInv, RowFirst, Current
  <1>7. SessionsExplained'
    <2>1. SUFFICES ASSUME NEW p \in Requests, NEW c \in DOMAIN session'[p].blobs
                   PROVE  \/ Explained(c, session'[p].blobs, session'[p].links)
                          \/ /\ session'[p].pc = "linking"
                             /\ Current(p)'.content = c
                             /\ session'[p].blobs[c] = Extraction(Current(p)')
      BY DEF SessionsExplained
    <2>2. /\ session'[p].blobs = session[p].blobs
          /\ session'[p].links = session[p].links
      BY <1>1, <1>2
    <2>3. CASE p = q
      BY <2>2, <2>3 DEF IInv, SessionsExplained
    <2>4. CASE p # q
      BY <1>1, <2>2, <2>4 DEF IInv, SessionsExplained, Current
    <2>5. QED
      BY <2>3, <2>4
  <1>8. LinksApart'
    BY <1>1, <1>2 DEF IInv, LinksApart
  <1>9. StoredBeforeReferred' /\ ExtractionExplained'
    BY DEF IInv, Shaped, StoredBeforeReferred, ExtractionExplained
  <1>10. QED
    BY <1>3, <1>4, <1>5, <1>6, <1>7, <1>8, <1>9 DEF IInv

-----------------------------------------------------------------------------
(* The steps that touch rows. *)

\* What a working session holds.
LEMMA WorkingFacts ==
    ASSUME IInv, NEW q \in Requests, session[q].pending # << >>
    PROVE  /\ Current(q) \in Attachment
           /\ Current(q).content \in Contents
           /\ Current(q).extension \in Extensions
           /\ Current(q).id \in AttachmentIds
           /\ KeyOf(q, Current(q)) \in Keys
           /\ Tail(session[q].pending) \in Seq(Attachment)
           /\ Extraction(Current(q)) \in Statuses
  <1>1. session[q].pending \in Seq(Attachment)
    BY DEF IInv, Shaped
  <1>2. Current(q) \in Attachment /\ Tail(session[q].pending) \in Seq(Attachment)
    BY <1>1 DEF Current
  <1>3. email[q].message \in Messages
    BY DEF IInv, Shaped, Email
  <1>4. QED
    BY <1>2, <1>3 DEF Attachment, KeyOf, Keys, Extraction, Statuses

LEMMA InsertBlobPreserves ==
    ASSUME IInv, NEW q \in Requests, InsertBlob(q)
    PROVE  IInv'
  <1> DEFINE old == session[q]
  <1>1. PICK a \in Attachment :
           /\ a = Current(q)
           /\ a.content \in Contents
           /\ Extraction(a) \in Statuses
    BY WorkingFacts DEF InsertBlob, IInv, AtWork, Working
  <1>2. PICK record : record = [pc |-> "linking", pending |-> old.pending,
                                blobs |-> Put(old.blobs, a.content, Extraction(a)),
                                links |-> old.links]
    OBVIOUS
  <1>3. session' = [session EXCEPT ![q] = record]
    <2>1. old = [pc |-> old.pc, pending |-> old.pending, blobs |-> old.blobs, links |-> old.links]
      BY DEF IInv, Shaped
    <2>2. Goes(q, "linking") = [pc |-> "linking", pending |-> old.pending,
                                blobs |-> old.blobs, links |-> old.links]
      BY <2>1 DEF Goes
    <2>3. [Goes(q, "linking") EXCEPT !.blobs = Put(@, a.content, Extraction(a))] = record
      BY <1>2, <2>2
    <2>4. QED
      BY <1>1, <2>3 DEF InsertBlob, Continue
  <1>4. /\ DOMAIN session' = Requests
        /\ session'[q] = record
        /\ \A p \in Requests : p # q => session'[p] = session[p]
    BY <1>3, Continued DEF IInv
  <1>5. /\ old.pc = "inserting"
        /\ UNCHANGED <<email, store, blob, link, faults>>
    BY DEF InsertBlob, Continue
  <1>6. /\ DOMAIN record.blobs = DOMAIN old.blobs \cup {a.content}
        /\ record.blobs[a.content] = Extraction(a)
        /\ \A c \in DOMAIN old.blobs : c # a.content => record.blobs[c] = old.blobs[c]
        /\ record.links = old.links /\ record.pc = "linking" /\ record.pending = old.pending
    BY <1>2 DEF Put
  <1>7. Shaped'
    <2>1. /\ record = [pc |-> record.pc, pending |-> record.pending,
                       blobs |-> record.blobs, links |-> record.links]
          /\ record.pc \in Steps
          /\ record.pending \in Seq(Attachment)
      BY <1>2 DEF IInv, Shaped, Steps
    <2>2. /\ DOMAIN record.blobs \subseteq Contents
          /\ \A c \in DOMAIN record.blobs : record.blobs[c] \in Statuses
          /\ DOMAIN record.links \subseteq Keys
          /\ \A k \in DOMAIN record.links : record.links[k] \in LinkRow
      BY <1>1, <1>6 DEF IInv, Shaped
    <2>3. QED
      BY <1>4, <1>5, <2>1, <2>2 DEF IInv, Shaped
  <1>8. AtWork'
    BY <1>4, <1>5, <1>6 DEF IInv, AtWork, Working, KeyOf, Current
  <1>9. BytesFirst'
    BY <1>1, <1>4, <1>5, <1>6 DEF IInv, BytesFirst, Current
  <1>10. RowFirst'
    BY <1>1, <1>4, <1>5, <1>6 DEF IInv, RowFirst, Current
  <1>11. SessionsExplained'
    <2>1. SUFFICES ASSUME NEW p \in Requests, NEW c \in DOMAIN session'[p].blobs
                   PROVE  \/ Explained(c, session'[p].blobs, session'[p].links)
                          \/ /\ session'[p].pc = "linking"
                             /\ Current(p)'.content = c
                             /\ session'[p].blobs[c] = Extraction(Current(p)')
      BY DEF SessionsExplained
    <2>2. CASE p # q
      BY <1>4, <2>2 DEF IInv, SessionsExplained, Current
    <2>3. CASE p = q /\ c = a.content
      BY <1>1, <1>4, <1>6, <2>3 DEF Current
    <2>4. CASE p = q /\ c # a.content
      <3>1. Explained(c, old.blobs, old.links)
        BY <1>4, <1>5, <1>6, <2>4 DEF IInv, SessionsExplained
      <3>2. record.blobs[c] = old.blobs[c]
        BY <1>4, <1>6, <2>4
      <3>3. QED
        BY <1>4, <1>6, <2>4, <3>1, <3>2 DEF Explained
    <2>5. QED
      BY <2>2, <2>3, <2>4
  <1>12. LinksApart'
    BY <1>4, <1>5, <1>6 DEF IInv, LinksApart
  <1>13. StoredBeforeReferred' /\ ExtractionExplained'
    BY <1>5 DEF IInv, StoredBeforeReferred, ExtractionExplained
  <1>14. QED
    BY <1>7, <1>8, <1>9, <1>10, <1>11, <1>12, <1>13 DEF IInv

\* A session's record after its attachment was linked.
LEMMA LinkedRecord ==
    ASSUME NEW base, NEW pc, NEW pending, NEW blobs, NEW links, NEW key, NEW row, NEW new,
           base = [pc |-> pc, pending |-> pending, blobs |-> blobs, links |-> links],
           new = [base EXCEPT !.pending = Tail(@), !.links = Put(@, key, row)]
    PROVE  /\ new = [pc |-> new.pc, pending |-> new.pending, blobs |-> new.blobs, links |-> new.links]
           /\ new.pc = pc
           /\ new.pending = Tail(pending)
           /\ new.blobs = blobs
           /\ new.links = Put(links, key, row)
  <1>1. new = [x \in DOMAIN base |-> IF x = "links" THEN Put(base.links, key, row)
                                     ELSE IF x = "pending" THEN Tail(base.pending) ELSE base[x]]
    OBVIOUS
  <1>2. DOMAIN new = {"pc", "pending", "blobs", "links"}
    OBVIOUS
  <1>3. new = [x \in {"pc", "pending", "blobs", "links"} |-> new[x]]
    BY <1>1, <1>2
  <1>4. new = [pc |-> new.pc, pending |-> new.pending, blobs |-> new.blobs, links |-> new.links]
    BY <1>2, <1>3
  <1>5. /\ new.pc = pc
        /\ new.pending = Tail(pending)
        /\ new.blobs = blobs
        /\ new.links = Put(links, key, row)
    OBVIOUS
  <1>6. QED
    BY <1>4, <1>5

LEMMA InsertLinkPreserves ==
    ASSUME IInv, NEW q \in Requests, InsertLink(q)
    PROVE  IInv'
  <1> DEFINE old == session[q]
  <1>0. old.pending # << >> /\ KeyOf(q, Current(q)) \notin DOMAIN old.links
    BY DEF InsertLink, IInv, AtWork, Working
  <1>1. PICK a \in Attachment, key \in Keys, row \in LinkRow :
           /\ a = Current(q)
           /\ key = KeyOf(q, a)
           /\ row = [content |-> a.content, extension |-> a.extension]
           /\ a.content \in Contents
    <2>1. /\ Current(q) \in Attachment
          /\ Current(q).content \in Contents
          /\ Current(q).extension \in Extensions
          /\ KeyOf(q, Current(q)) \in Keys
      BY <1>0, WorkingFacts
    <2>2. [content |-> Current(q).content, extension |-> Current(q).extension] \in LinkRow
      BY <2>1 DEF LinkRow
    <2>3. QED
      BY <2>1, <2>2
  <1>2. PICK record : record = [Goes(q, "next") EXCEPT !.pending = Tail(@), !.links = Put(@, key, row)]
    OBVIOUS
  <1>3. session' = [session EXCEPT ![q] = record]
    BY <1>1, <1>2 DEF InsertLink, Continue
  <1>4. /\ DOMAIN session' = Requests
        /\ session'[q] = record
        /\ \A p \in Requests : p # q => session'[p] = session[p]
    BY <1>3, Continued DEF IInv
  <1>5. /\ old.pc = "linking"
        /\ key \notin DOMAIN link
        /\ ~LinkHeld(q, key)
        /\ UNCHANGED <<email, store, blob, link, faults>>
    BY <1>1 DEF InsertLink, Continue
  <1>61. /\ record = [pc |-> record.pc, pending |-> record.pending,
                       blobs |-> record.blobs, links |-> record.links]
         /\ record.pc = "next"
         /\ record.pending = Tail(old.pending)
         /\ record.blobs = old.blobs
         /\ record.links = Put(old.links, key, row)
    <2>1. PICK base, pc, pending, blobs, links :
             /\ base = Goes(q, "next")
             /\ pc = "next" /\ pending = old.pending /\ blobs = old.blobs /\ links = old.links
      OBVIOUS
    <2>2. base = [pc |-> pc, pending |-> pending, blobs |-> blobs, links |-> links]
      BY <2>1 DEF IInv, Shaped, Goes
    <2>3. record = [base EXCEPT !.pending = Tail(@), !.links = Put(@, key, row)]
      BY <1>2, <2>1
    <2>4. /\ record = [pc |-> record.pc, pending |-> record.pending,
                       blobs |-> record.blobs, links |-> record.links]
          /\ record.pc = pc
          /\ record.pending = Tail(pending)
          /\ record.blobs = blobs
          /\ record.links = Put(links, key, row)
      BY <2>2, <2>3, LinkedRecord
    <2>5. QED
      BY <2>1, <2>4
  <1>6. /\ DOMAIN record.links = DOMAIN old.links \cup {key}
        /\ record.links[key] = row
        /\ key \notin DOMAIN old.links
        /\ \A k \in DOMAIN old.links : record.links[k] = old.links[k]
        /\ record.blobs = old.blobs /\ record.pc = "next"
        /\ record.pending = Tail(old.pending) /\ record.pending \in Seq(Attachment)
    BY <1>0, <1>1, <1>61, WorkingFacts DEF Put
  <1>7. Shaped'
    <2>1. DOMAIN record.links \subseteq Keys /\ \A k \in DOMAIN record.links : record.links[k] \in LinkRow
      BY <1>1, <1>6 DEF IInv, Shaped
    <2>2. DOMAIN record.blobs \subseteq Contents /\ \A c \in DOMAIN record.blobs : record.blobs[c] \in Statuses
      BY <1>6 DEF IInv, Shaped
    <2>3. QED
      BY <1>4, <1>5, <1>6, <1>61, <2>1, <2>2 DEF IInv, Shaped, Steps
  <1>8. AtWork'
    BY <1>4, <1>5, <1>6 DEF IInv, AtWork, Working, KeyOf, Current
  <1>9. BytesFirst'
    BY <1>4, <1>5, <1>6 DEF IInv, BytesFirst, Current
  <1>10. RowFirst'
    BY <1>1, <1>4, <1>5, <1>6 DEF IInv, RowFirst, Current
  <1>11. SessionsExplained'
    <2>1. SUFFICES ASSUME NEW p \in Requests, NEW c \in DOMAIN session'[p].blobs
                   PROVE  \/ Explained(c, session'[p].blobs, session'[p].links)
                          \/ /\ session'[p].pc = "linking"
                             /\ Current(p)'.content = c
                             /\ session'[p].blobs[c] = Extraction(Current(p)')
      BY DEF SessionsExplained
    <2>2. CASE p # q
      BY <1>4, <2>2 DEF IInv, SessionsExplained, Current
    <2>3. ASSUME p = q, Explained(c, old.blobs, old.links)
          PROVE  Explained(c, session'[p].blobs, session'[p].links)
      BY <1>4, <1>6, <2>3 DEF Explained
    <2>4. ASSUME p = q, a.content = c, old.blobs[c] = Extraction(a)
          PROVE  Explained(c, session'[p].blobs, session'[p].links)
      <3>1. /\ row.content = c /\ row.extension = a.extension
            /\ Extraction(a) =
                  Extraction([id |-> key[2], content |-> c, extension |-> a.extension])
        BY <1>1, <2>4 DEF Extraction
      <3>2. QED
        BY <1>4, <1>6, <2>4, <3>1 DEF Explained
    <2>5. QED
      BY <1>1, <1>4, <1>6, <2>2, <2>3, <2>4 DEF IInv, SessionsExplained
  <1>12. LinksApart'
    BY <1>4, <1>5, <1>6 DEF IInv, LinksApart, LinkHeld
  <1>13. StoredBeforeReferred' /\ ExtractionExplained'
    BY <1>5 DEF IInv, StoredBeforeReferred, ExtractionExplained
  <1>14. QED
    BY <1>7, <1>8, <1>9, <1>10, <1>11, <1>12, <1>13 DEF IInv

LEMMA CommitPreserves ==
    ASSUME IInv, NEW q \in Requests, Commit(q)
    PROVE  IInv'
  <1> DEFINE old == session[q]
  <1>1. PICK record : record = [pc |-> "ended", pending |-> << >>, blobs |-> << >>, links |-> << >>]
    OBVIOUS
  <1>2. session' = [session EXCEPT ![q] = record]
    <2>1. [Start EXCEPT !.pc = "ended"] = record
      BY <1>1 DEF Start
    <2>2. QED
      BY <2>1 DEF Commit, Continue
  <1>3. /\ DOMAIN session' = Requests
        /\ session'[q] = record
        /\ \A p \in Requests : p # q => session'[p] = session[p]
    BY <1>2, Continued DEF IInv
  <1>4. /\ record.pc = "ended" /\ record.pending = << >> /\ record.blobs = << >>
        /\ record.links = << >> /\ DOMAIN record.blobs = {} /\ DOMAIN record.links = {}
    BY <1>1, EmptyMap
  <1>5. /\ old.pc = "next"
        /\ UNCHANGED <<email, store, faults>>
    BY DEF Commit, Continue
  <1>6. /\ DOMAIN blob' = DOMAIN blob \cup DOMAIN old.blobs
        /\ \A c \in DOMAIN old.blobs : blob'[c] = old.blobs[c]
        /\ \A c \in DOMAIN blob \ DOMAIN old.blobs : blob'[c] = blob[c]
    BY DEF Commit, Merge
  <1>7. /\ DOMAIN link' = DOMAIN link \cup DOMAIN old.links
        /\ \A k \in DOMAIN old.links : link'[k] = old.links[k] /\ k \notin DOMAIN link
        /\ \A k \in DOMAIN link : link'[k] = link[k]
    BY DEF Commit, Merge, IInv, LinksApart
  <1>8. Shaped'
    <2>1. /\ DOMAIN old.blobs \subseteq Contents
          /\ \A c \in DOMAIN old.blobs : old.blobs[c] \in Statuses
          /\ DOMAIN old.links \subseteq Keys
          /\ \A k \in DOMAIN old.links : old.links[k] \in LinkRow
      BY DEF IInv, Shaped
    <2>2. /\ DOMAIN blob' \subseteq Contents
          /\ \A c \in DOMAIN blob' : blob'[c] \in Statuses
          /\ DOMAIN link' \subseteq Keys
          /\ \A k \in DOMAIN link' : link'[k] \in LinkRow
      BY <1>6, <1>7, <2>1 DEF IInv, Shaped
    <2>3. /\ record.pending \in Seq(Attachment) /\ record.pc \in Steps
      BY <1>4 DEF Steps
    <2>4. QED
      BY <1>1, <1>3, <1>4, <1>5, <2>2, <2>3 DEF IInv, Shaped
  <1>9. AtWork'
    BY <1>3, <1>4, <1>5 DEF IInv, AtWork, Working, KeyOf, Current
  <1>10. BytesFirst'
    BY <1>3, <1>4, <1>5 DEF IInv, BytesFirst, Current
  <1>11. RowFirst'
    BY <1>3, <1>4, <1>6 DEF IInv, RowFirst, Current
  <1>12. SessionsExplained'
    <2>1. \A p \in Requests : \A c \in DOMAIN session'[p].blobs : p # q
      BY <1>3, <1>4
    <2>2. QED
      BY <1>3, <2>1 DEF IInv, SessionsExplained, Current
  <1>13. LinksApart'
    BY <1>3, <1>4, <1>7 DEF IInv, LinksApart
  <1>14. StoredBeforeReferred'
    <2>1. \A c \in DOMAIN blob' : store'[c] = "complete"
      BY <1>5, <1>6 DEF IInv, BytesFirst, StoredBeforeReferred
    <2>2. \A k \in DOMAIN link' : link'[k].content \in DOMAIN blob'
      BY <1>6, <1>7 DEF IInv, RowFirst, StoredBeforeReferred
    <2>3. QED
      BY <2>1, <2>2 DEF StoredBeforeReferred
  <1>15. ExtractionExplained'
    <2>1. ASSUME NEW c \in DOMAIN old.blobs
          PROVE  Explained(c, blob', link')
      <3>1. Explained(c, old.blobs, old.links)
        BY <1>5 DEF IInv, SessionsExplained
      <3>2. QED
        BY <1>6, <1>7, <3>1 DEF Explained
    <2>2. ASSUME NEW c \in DOMAIN blob \ DOMAIN old.blobs
          PROVE  Explained(c, blob', link')
      <3>1. Explained(c, blob, link)
        BY DEF IInv, ExtractionExplained, Explained
      <3>2. QED
        BY <1>6, <1>7, <3>1 DEF Explained
    <2>3. QED
      BY <1>6, <2>1, <2>2 DEF ExtractionExplained, Explained
  <1>16. QED
    BY <1>8, <1>9, <1>10, <1>11, <1>12, <1>13, <1>14, <1>15 DEF IInv

-----------------------------------------------------------------------------
(* The invariant holds, whoever goes on and wherever a session dies. *)

\* A session's record when it begins.
LEMMA StartedRecord ==
    ASSUME NEW base, NEW attachments, NEW new,
           base = [pc |-> "idle", pending |-> << >>, blobs |-> << >>, links |-> << >>],
           new = [base EXCEPT !.pc = "next", !.pending = attachments]
    PROVE  /\ new = [pc |-> new.pc, pending |-> new.pending, blobs |-> << >>, links |-> << >>]
           /\ new.pc = "next"
           /\ new.pending = attachments
  <1>1. new = [x \in DOMAIN base |-> IF x = "pending" THEN attachments
                                     ELSE IF x = "pc" THEN "next" ELSE base[x]]
    OBVIOUS
  <1>2. DOMAIN new = {"pc", "pending", "blobs", "links"}
    OBVIOUS
  <1>3. new = [x \in {"pc", "pending", "blobs", "links"} |-> new[x]]
    BY <1>1, <1>2
  <1>4. new = [pc |-> new.pc, pending |-> new.pending, blobs |-> new.blobs, links |-> new.links]
    BY <1>2, <1>3
  <1>5. new.pc = "next" /\ new.pending = attachments /\ new.blobs = << >> /\ new.links = << >>
    OBVIOUS
  <1>6. QED
    BY <1>4, <1>5

LEMMA AdvancePreserves ==
    ASSUME IInv, NEW q \in Requests, Advance(q)
    PROVE  IInv'
  <1> DEFINE old == session[q]
  <1>0. /\ old = [pc |-> old.pc, pending |-> old.pending, blobs |-> old.blobs, links |-> old.links]
        /\ old.pc \in Steps
        /\ old.pending \in Seq(Attachment)
        /\ store \in [Contents -> {"absent", "complete"}]
        /\ faults \in 0..MaxFaults
    BY DEF IInv, Shaped
  <1>1. ASSUME NEW step \in Steps
        PROVE  /\ Goes(q, step) = [pc |-> step, pending |-> old.pending,
                                   blobs |-> old.blobs, links |-> old.links]
               /\ Goes(q, step).pc = step /\ Goes(q, step).pending = old.pending
               /\ Goes(q, step).blobs = old.blobs /\ Goes(q, step).links = old.links
    BY <1>0 DEF Goes
  <1>2. CASE Begin(q)
    <2>1. PICK record : record = [Start EXCEPT !.pc = "next", !.pending = email[q].attachments]
      OBVIOUS
    <2>2. /\ record = [pc |-> record.pc, pending |-> record.pending, blobs |-> << >>, links |-> << >>]
          /\ record.pc = "next" /\ record.pending = email[q].attachments
      <3>1. PICK base : base = Start
        OBVIOUS
      <3>2. base = [pc |-> "idle", pending |-> << >>, blobs |-> << >>, links |-> << >>]
        BY <3>1 DEF Start
      <3>3. record = [base EXCEPT !.pc = "next", !.pending = email[q].attachments]
        BY <2>1, <3>1
      <3>4. QED
        BY <3>2, <3>3, StartedRecord
    <2>3. email[q].attachments \in Seq(Attachment)
      BY DEF IInv, Shaped, Email
    <2>4. QED
      BY <1>0, <1>2, <2>1, <2>2, <2>3, ClearedPreserves DEF Begin, Continue
  <1>3. CASE Examine(q)
    <2>1. /\ old.pc = "next" /\ old.pending # << >>
          /\ UNCHANGED <<email, store, blob, link, faults>>
      BY <1>3 DEF Examine, Continue
    <2>2. Tail(old.pending) \in Seq(Attachment)
      BY <2>1, WorkingFacts
    <2>3. CASE Continue(q, [old EXCEPT !.pending = Tail(@)])
      <3>1. PICK record : record = [old EXCEPT !.pending = Tail(@)]
        OBVIOUS
      <3>2. /\ record = [pc |-> record.pc, pending |-> record.pending,
                         blobs |-> record.blobs, links |-> record.links]
            /\ record.blobs = old.blobs /\ record.links = old.links
            /\ record.pc = "next" /\ record.pending = Tail(old.pending)
        <4>1. PICK base, pending, blobs, links :
                 base = old /\ pending = old.pending /\ blobs = old.blobs /\ links = old.links
          OBVIOUS
        <4>2. base = [pc |-> "next", pending |-> pending, blobs |-> blobs, links |-> links]
          BY <1>0, <2>1, <4>1
        <4>3. record = [base EXCEPT !.pending = Tail(@)]
          BY <3>1, <4>1
        <4>4. /\ record = [pc |-> record.pc, pending |-> record.pending,
                           blobs |-> record.blobs, links |-> record.links]
              /\ record.blobs = blobs /\ record.links = links
              /\ record.pc = "next" /\ record.pending = Tail(pending)
          BY <4>2, <4>3
        <4>5. QED
          BY <4>1, <4>4
      <3>3. session' = [session EXCEPT ![q] = record]
        BY <2>3, <3>1 DEF Continue
      <3>4. record.pc \in Steps /\ record.pending \in Seq(Attachment)
        BY <2>2, <3>2 DEF Steps
      <3>5. QED
        BY <1>0, <2>1, <3>2, <3>3, <3>4, MovedPreserves
    <2>4. CASE Continue(q, [Start EXCEPT !.pc = "ended"])
      <3>1. PICK record : record = [pc |-> "ended", pending |-> << >>, blobs |-> << >>, links |-> << >>]
        OBVIOUS
      <3>2. [Start EXCEPT !.pc = "ended"] = record
        BY <3>1 DEF Start
      <3>3. << >> \in Seq(Attachment)
        OBVIOUS
      <3>4. QED
        BY <1>0, <2>1, <2>4, <3>1, <3>2, <3>3, ClearedPreserves DEF Continue
    <2>5. ASSUME NEW step \in {"linking", "putting"}, Continue(q, Goes(q, step)),
                 ~LinkKnown(q, Current(q)),
                 step = "linking" => BlobKnown(q, Current(q))
          PROVE  IInv'
      <3>1. PICK record : record = Goes(q, step)
        OBVIOUS
      <3>2. /\ record = [pc |-> record.pc, pending |-> record.pending,
                         blobs |-> record.blobs, links |-> record.links]
            /\ record.blobs = old.blobs /\ record.links = old.links
            /\ record.pc = step /\ record.pending = old.pending /\ step \in Steps
        BY <1>1, <3>1 DEF Steps
      <3>3. session' = [session EXCEPT ![q] = record]
        BY <2>5, <3>1 DEF Continue
      <3>4. KeyOf(q, Head(record.pending)) \notin DOMAIN old.links
        BY <2>5, <3>2 DEF LinkKnown, Current
      <3>5. record.pc = "linking" =>
               Head(record.pending).content \in DOMAIN blob \cup DOMAIN old.blobs
        BY <2>5, <3>2 DEF BlobKnown, Current
      <3>6. QED
        BY <1>0, <2>1, <2>5, <3>2, <3>3, <3>4, <3>5, MovedPreserves
    <2>6. QED
      BY <1>3, <2>3, <2>4, <2>5 DEF Examine
  <1>4. ASSUME NEW step \in {"inserting", "replacing"}, Continue(q, Goes(q, step)),
               old.pc \in {"putting", "replacing"},
               UNCHANGED <<blob, link>>,
               store' \in [Contents -> {"absent", "complete"}],
               \A c \in Contents : store[c] = "complete" => store'[c] = "complete",
               step = "inserting" => store'[Current(q).content] = "complete"
        PROVE  IInv'
    <2>1. PICK record : record = Goes(q, step)
      OBVIOUS
    <2>2. /\ record = [pc |-> record.pc, pending |-> record.pending,
                       blobs |-> record.blobs, links |-> record.links]
          /\ record.blobs = old.blobs /\ record.links = old.links
          /\ record.pc = step /\ record.pending = old.pending /\ step \in Steps
      BY <1>1, <2>1 DEF Steps
    <2>3. session' = [session EXCEPT ![q] = record] /\ UNCHANGED <<email, faults>>
      BY <1>4, <2>1 DEF Continue
    <2>4. record.pending # << >> /\ KeyOf(q, Head(record.pending)) \notin DOMAIN old.links
      BY <1>4, <2>2 DEF IInv, AtWork, Working, Current
    <2>5. record.pc = "inserting" => store'[Head(record.pending).content] = "complete"
      BY <1>4, <2>2 DEF Current
    <2>6. QED
      BY <1>0, <1>4, <2>2, <2>3, <2>4, <2>5, MovedPreserves
  <1>5. CASE PutBytes(q)
    <2>1. old.pc = "putting" /\ old.pending # << >>
      BY <1>5 DEF PutBytes, IInv, AtWork, Working
    <2>2. Current(q).content \in Contents
      BY <2>1, WorkingFacts
    <2>3. CASE store[Current(q).content] # "absent"
      BY <1>0, <1>4, <1>5, <2>1, <2>2, <2>3 DEF PutBytes
    <2>4. CASE store[Current(q).content] = "absent"
      BY <1>0, <1>4, <1>5, <2>1, <2>4 DEF PutBytes, WritingTemporary
    <2>5. QED
      BY <2>3, <2>4
  <1>6. CASE ReplaceTarget(q)
    <2>1. old.pc = "replacing" /\ old.pending # << >>
      BY <1>6 DEF ReplaceTarget, IInv, AtWork, Working
    <2>2. Current(q).content \in Contents
      BY <2>1, WorkingFacts
    <2>3. store' = [store EXCEPT ![Current(q).content] = "complete"]
      BY <1>6 DEF ReplaceTarget
    <2>4. QED
      BY <1>0, <1>4, <1>6, <2>1, <2>2, <2>3 DEF ReplaceTarget
  <1>7. CASE Refuse(q) \/ BreakDeadlock(q)
    <2>1. /\ Continue(q, Start)
          /\ UNCHANGED <<store, blob, link>>
      BY <1>7 DEF Refuse, BreakDeadlock
    <2>2. PICK record : record = Start
      OBVIOUS
    <2>3. /\ record = [pc |-> record.pc, pending |-> record.pending, blobs |-> << >>, links |-> << >>]
          /\ record.pc = "idle" /\ record.pending \in Seq(Attachment)
      BY <2>2 DEF Start
    <2>4. QED
      BY <1>0, <2>1, <2>2, <2>3, ClearedPreserves DEF Continue
  <1>8. QED
    BY <1>2, <1>3, <1>5, <1>6, <1>7, InsertBlobPreserves, InsertLinkPreserves, CommitPreserves
       DEF Advance

LEMMA FailPreserves ==
    ASSUME IInv, NEW q \in Requests, Fail(q)
    PROVE  IInv'
  <1>1. faults' \in 0..MaxFaults
    BY FaultAssumption DEF Fail, IInv, Shaped
  <1>2. PICK record : record = Start
    OBVIOUS
  <1>3. /\ record = [pc |-> record.pc, pending |-> record.pending, blobs |-> << >>, links |-> << >>]
        /\ record.pc = "idle" /\ record.pending \in Seq(Attachment)
    BY <1>2 DEF Start
  <1>4. QED
    BY <1>1, <1>2, <1>3, ClearedPreserves DEF Fail

\* Ingestion by any number of requests, with any faults, keeps the invariant.
THEOREM Invariance == Spec => []IInv
  <1>1. ASSUME IInv, [Next]_vars
        PROVE  IInv'
    <2>1. CASE UNCHANGED vars
      <3>1. /\ email' = email /\ store' = store /\ blob' = blob /\ link' = link
            /\ session' = session /\ faults' = faults
        BY <2>1 DEF vars
      <3>2. Shaped' /\ AtWork'
        BY <1>1, <3>1 DEF IInv, Shaped, AtWork, Working, KeyOf, Current
      <3>3. BytesFirst' /\ RowFirst'
        BY <1>1, <3>1 DEF IInv, BytesFirst, RowFirst, Current
      <3>4. SessionsExplained' /\ LinksApart'
        BY <1>1, <3>1 DEF IInv, SessionsExplained, LinksApart, Explained, Current
      <3>5. StoredBeforeReferred' /\ ExtractionExplained'
        BY <1>1, <3>1 DEF IInv, StoredBeforeReferred, ExtractionExplained
      <3>6. QED
        BY <3>2, <3>3, <3>4, <3>5 DEF IInv
    <2>2. CASE Next
      BY <1>1, <2>2, AdvancePreserves, FailPreserves DEF Next
    <2>3. QED
      BY <1>1, <2>1, <2>2
  <1>2. QED
    BY <1>1, InitEstablishes, PTL DEF Spec

\* No row refers to bytes that are missing or half-written, whichever session wrote them
\* and wherever it died, and no link refers to a missing row.
THEOREM ReferencesBacked == Spec => []StoredBeforeReferred
  <1>1. IInv => StoredBeforeReferred
    BY DEF IInv
  <1>2. QED
    BY <1>1, Invariance, PTL

\* The extraction status of a content is that of one of the files it was sent as.
THEOREM StatusesExplained == Spec => []ExtractionExplained
  <1>1. IInv => ExtractionExplained
    BY DEF IInv
  <1>2. QED
    BY <1>1, Invariance, PTL
\* The requests are about emails of the mailbox.
Addressed == email \in Mailboxes

\* The variables have their types, whatever is stored, refused, repeated or lost.
THEOREM TypeCorrect == Spec => []TypeOK
  <1>1. Init => Addressed
    BY DEF Init, Addressed
  <1>2. Addressed /\ [Next]_vars => Addressed'
    BY DEF Addressed, Next, Advance, vars, Begin, Examine, PutBytes, ReplaceTarget, InsertBlob,
           InsertLink, Commit, Refuse, BreakDeadlock, Fail, Continue
  <1>3. IInv /\ Addressed => TypeOK
    BY DEF Addressed, IInv, Shaped, TypeOK
  <1>4. QED
    BY <1>1, <1>2, <1>3, Invariance, PTL DEF Spec

-----------------------------------------------------------------------------
(* Waiting. *)

\* The request is being handled.
Underway(q) == session[q].pc \notin {"idle", "ended"}

\* The row that the session inserts is not committed, and another session has flushed it.
MustWait(q) ==
    \/ /\ session[q].pc = "inserting"
       /\ Current(q).content \notin DOMAIN blob
       /\ BlobHeld(q, Current(q).content)
    \/ /\ session[q].pc = "linking"
       /\ KeyOf(q, Current(q)) \notin DOMAIN link
       /\ LinkHeld(q, KeyOf(q, Current(q)))

\* The session is in a circle of sessions that wait for each other.
InDeadlock(q) ==
    \E circle \in SUBSET Requests :
        /\ q \in circle
        /\ \A p \in circle : /\ \E r \in circle : WaitsFor(p, r)
                             /\ \E r \in circle : WaitsFor(r, p)

\* A step of the session is due: the database lets it go on, refuses its insert or breaks
\* its deadlock.
CanGoOn(q) == ~MustWait(q) \/ InDeadlock(q)

\* A set of sessions that contains all that its members wait for.
WaitsWithin(S) == \A q \in S, p \in Requests : WaitsFor(q, p) => p \in S

\* Whoever a session waits for, directly or through others, one of them can go on.
SomebodyCanGoOn ==
    \A S \in SUBSET Requests :
        WaitsWithin(S) /\ (\E q \in S : Underway(q)) => \E q \in S : Underway(q) /\ CanGoOn(q)

\* A session that is not underway holds no rows: nobody waits for it.
RestHoldsNothing ==
    \A q \in Requests :
        ~Underway(q) => DOMAIN session[q].blobs = {} /\ DOMAIN session[q].links = {}

\* A step leaves the session underway, or at rest without rows.
StepsOn(q) ==
    \/ \E record : /\ Continue(q, record)
                   /\ record.pc \in {"next", "putting", "replacing", "inserting", "linking"}
    \/ Continue(q, Start)
    \/ Continue(q, [Start EXCEPT !.pc = "ended"])

LEMMA RestPreserved ==
    ASSUME IInv, RestHoldsNothing, [Next]_vars
    PROVE  RestHoldsNothing'
  <1>1. /\ Start.pc = "idle" /\ Start.blobs = << >> /\ Start.links = << >>
        /\ [Start EXCEPT !.pc = "ended"].blobs = << >>
        /\ [Start EXCEPT !.pc = "ended"].links = << >>
    BY DEF Start
  <1>2. ASSUME NEW q \in Requests, NEW record, session' = [session EXCEPT ![q] = record],
               record.pc \notin {"idle", "ended"}
                  \/ (record.blobs = << >> /\ record.links = << >>)
        PROVE  RestHoldsNothing'
    <2>1. /\ session'[q] = record
          /\ \A p \in Requests : p # q => session'[p] = session[p]
      BY <1>2, Continued DEF IInv
    <2>2. QED
      BY <1>2, <2>1, EmptyMap DEF RestHoldsNothing, Underway
  <1>3. ASSUME NEW q \in Requests, NEW step \in {"next", "putting", "replacing", "inserting", "linking"},
               NEW record, record.pc = step, Continue(q, record)
        PROVE  RestHoldsNothing'
    BY <1>2, <1>3 DEF Continue
  <1>4. ASSUME NEW q \in Requests, Advance(q)
        PROVE  StepsOn(q)
    <2>1. PICK old : old = session[q] /\ old = [pc |-> old.pc, pending |-> old.pending,
                                                blobs |-> old.blobs, links |-> old.links]
      BY DEF IInv, Shaped
    <2>2. \A step : Goes(q, step).pc = step
      BY <2>1 DEF Goes
    <2>3. CASE Begin(q)
      <3>1. PICK record : record = [Start EXCEPT !.pc = "next", !.pending = email[q].attachments]
        OBVIOUS
      <3>2. record.pc = "next"
        BY <3>1 DEF Start
      <3>3. QED
        BY <2>3, <3>1, <3>2 DEF Begin, StepsOn
    <2>4. CASE Examine(q)
      <3>1. PICK record : record = [old EXCEPT !.pending = Tail(@)]
        OBVIOUS
      <3>2. old.pc = "next" => record.pc = "next"
        BY <2>1, <3>1
      <3>3. session[q].pc = "next"
        BY <2>4 DEF Examine
      <3>4. \/ Continue(q, record)
            \/ Continue(q, [Start EXCEPT !.pc = "ended"])
            \/ \E step \in {"linking", "putting"} : Continue(q, Goes(q, step))
        BY <2>1, <2>4, <3>1 DEF Examine
      <3>5. QED
        BY <2>1, <2>2, <3>2, <3>3, <3>4 DEF StepsOn
    <2>5. CASE PutBytes(q) \/ ReplaceTarget(q)
      BY <2>2, <2>5 DEF PutBytes, ReplaceTarget, StepsOn
    <2>6. CASE InsertBlob(q)
      <3>1. PICK base : base = Goes(q, "linking")
        OBVIOUS
      <3>2. PICK record : record = [base EXCEPT !.blobs =
                                       Put(@, Current(q).content, Extraction(Current(q)))]
        OBVIOUS
      <3>3. base.pc = "linking"
        BY <2>2, <3>1
      <3>4. base = [old EXCEPT !.pc = "linking"]
        BY <2>1, <3>1 DEF Goes
      <3>5. record.pc = "linking"
        BY <3>2, <3>3
      <3>6. Continue(q, record)
        BY <2>6, <3>1, <3>2 DEF InsertBlob
      <3>7. QED
        BY <3>5, <3>6 DEF StepsOn
    <2>7. CASE InsertLink(q)
      <3>1. PICK base : base = Goes(q, "next")
        OBVIOUS
      <3>2. PICK row : row = [content   |-> Current(q).content, extension |-> Current(q).extension]
        OBVIOUS
      <3>3. PICK record : record = [base EXCEPT !.pending = Tail(@),
                                               !.links = Put(@, KeyOf(q, Current(q)), row)]
        OBVIOUS
      <3>4. base.pc = "next"
        BY <2>2, <3>1
      <3>5. record.pc = "next"
        BY <3>3, <3>4
      <3>6. Continue(q, record)
        BY <2>7, <3>1, <3>2, <3>3 DEF InsertLink
      <3>7. QED
        BY <3>5, <3>6 DEF StepsOn
    <2>8. CASE Commit(q) \/ Refuse(q) \/ BreakDeadlock(q)
      BY <2>8 DEF Commit, Refuse, BreakDeadlock, StepsOn
    <2>9. QED
      BY <1>4, <2>3, <2>4, <2>5, <2>6, <2>7, <2>8 DEF Advance
  <1>5. ASSUME NEW q \in Requests, Advance(q)
        PROVE  RestHoldsNothing'
    <2>1. CASE Continue(q, Start)
      BY <1>1, <1>2, <2>1 DEF Continue
    <2>2. CASE Continue(q, [Start EXCEPT !.pc = "ended"])
      <3>1. PICK record : record = [Start EXCEPT !.pc = "ended"]
        OBVIOUS
      <3>2. record.blobs = << >> /\ record.links = << >>
        BY <1>1, <3>1
      <3>3. QED
        BY <1>2, <2>2, <3>1, <3>2 DEF Continue
    <2>3. QED
      BY <1>3, <1>4, <1>5, <2>1, <2>2 DEF StepsOn
  <1>6. ASSUME NEW q \in Requests, Fail(q)
        PROVE  RestHoldsNothing'
    BY <1>1, <1>2, <1>6 DEF Fail
  <1>7. CASE UNCHANGED vars
    BY <1>7 DEF vars, RestHoldsNothing, Underway
  <1>8. QED
    BY <1>5, <1>6, <1>7 DEF Next

\* A finite set in which everybody waits for a member contains a circle: the smallest such
\* subset has nobody that no member waits for.
LEMMA WaitersContainCircle ==
    ASSUME NEW S \in SUBSET Requests, S # {}, \A p \in S : \E r \in S : WaitsFor(p, r)
    PROVE  \E q \in S : InDeadlock(q)
  <1> DEFINE Closed == {T \in SUBSET S : T # {} /\ \A p \in T : \E r \in T : WaitsFor(p, r)}
  <1>1. IsFiniteSet(S)
    BY RequestAssumption, FS_Subset
  <1>2. IsWellFoundedOn(StrictSubsetOrdering(S), SUBSET S)
    BY <1>1, FS_StrictSubsetOrderingWellFounded, FS_FiniteSubsetsOfFinite
  <1>3. Closed \subseteq SUBSET S /\ S \in Closed
    OBVIOUS
  <1>4. PICK circle \in Closed : \A T \in Closed : <<T, circle>> \notin StrictSubsetOrdering(S)
    <2> HIDE DEF Closed
    <2>1. QED
      BY <1>2, <1>3, WFMin
  <1>5. \A p \in circle : \E r \in circle : WaitsFor(p, r)
    BY <1>4
  <1>6. ASSUME NEW p \in circle, \A r \in circle : ~WaitsFor(r, p)
        PROVE  FALSE
    <2> DEFINE rest == circle \ {p}
    <2>1. PICK r \in circle : WaitsFor(p, r)
      BY <1>5
    <2>2. r # p
      BY <2>1 DEF WaitsFor
    <2>3. rest # {} /\ rest \in SUBSET S /\ circle \in SUBSET S
      BY <1>4, <2>2
    <2>4. \A t \in rest : \E u \in rest : WaitsFor(t, u)
      BY <1>5, <1>6
    <2>5. rest \in Closed
      BY <2>3, <2>4
    <2>6. <<rest, circle>> \in StrictSubsetOrdering(S)
      BY <2>3 DEF StrictSubsetOrdering
    <2>7. QED
      BY <1>4, <2>5, <2>6
  <1>7. circle \in SUBSET Requests /\ circle \in SUBSET S /\ circle # {}
    BY <1>4
  <1>8. PICK q \in circle : TRUE
    BY <1>7
  <1>9. InDeadlock(q)
    BY <1>5, <1>6, <1>7 DEF InDeadlock
  <1>10. QED
    BY <1>7, <1>9

\* Requests with the same contents make each other wait for the length of an assessment, in
\* any number and any order: never all of them, unless the database breaks a circle.
THEOREM WaitingEnds == Spec => []SomebodyCanGoOn
  <1>1. Init => RestHoldsNothing
    BY EmptyMap DEF Init, Start, RestHoldsNothing
  <1>2. IInv /\ RestHoldsNothing /\ [Next]_vars => RestHoldsNothing'
    BY RestPreserved
  <1>3. RestHoldsNothing => SomebodyCanGoOn
    <2>1. SUFFICES ASSUME RestHoldsNothing, NEW S \in SUBSET Requests, WaitsWithin(S),
                          NEW q \in S, Underway(q),
                          \A p \in S : Underway(p) => ~CanGoOn(p)
                   PROVE  FALSE
      BY DEF SomebodyCanGoOn
    <2> DEFINE waiting == {p \in S : Underway(p)}
    <2>2. ASSUME NEW p \in waiting
          PROVE  \E r \in waiting : WaitsFor(p, r)
      <3>1. MustWait(p)
        BY <2>1, <2>2 DEF CanGoOn
      <3>2. PICK r \in Requests : WaitsFor(p, r)
        BY <3>1 DEF MustWait, BlobHeld, LinkHeld, WaitsFor
      <3>3. r \in S
        BY <2>1, <2>2, <3>2 DEF WaitsWithin
      <3>4. Underway(r)
        BY <2>1, <3>2 DEF WaitsFor, RestHoldsNothing
      <3>5. QED
        BY <3>2, <3>3, <3>4
    <2>3. waiting \in SUBSET Requests /\ waiting # {}
      BY <2>1
    <2>4. PICK p \in waiting : InDeadlock(p)
      <3> HIDE DEF waiting
      <3>1. QED
        BY <2>2, <2>3, WaitersContainCircle
    <2>5. QED
      BY <2>1, <2>4 DEF CanGoOn
  <1>4. QED
    BY <1>1, <1>2, <1>3, Invariance, PTL DEF Spec

=============================================================================
