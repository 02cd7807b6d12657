----------------------------- MODULE Scout_proofs -----------------------------
(***************************************************************************)
(* Theorems about Scout, for every set of sources, candidates, initiatives *)
(* and sessions.  The inductive invariant says what the two mechanisms of  *)
(* the database buy: a row lock, that a reviewer decides on the row as it  *)
(* is; the unique constraint, that no two rows, committed or about to be,  *)
(* have the same source.                                                   *)
(***************************************************************************)
EXTENDS Scout, FiniteSetTheorems, TLAPS

\* The rows are records with the columns of the table, and a status.
RowsShaped ==
    \A c \in DOMAIN candidate :
        /\ candidate[c] = [source |-> candidate[c].source, status |-> candidate[c].status,
                           promoted_initiative_id |-> candidate[c].promoted_initiative_id]
        /\ candidate[c].status \in {"DISCOVERED", "DISMISSED", "PROMOTED"}

\* What a review has read is the row, and no other review has it.
ReviewsExclusive ==
    \A v \in DOMAIN review :
        /\ review[v].candidate \in DOMAIN candidate
        /\ review[v].row = candidate[review[v].candidate]
        /\ \A w \in DOMAIN review : review[w].candidate = review[v].candidate => w = v

\* The candidates that discovery d has inserted and not committed.
Flushed(d) == DOMAIN discovery[d].inserted

\* The sessions are records with the fields of a discovery, and a row that is not
\* committed has an identifier and a source of its own.
DiscoveriesApart ==
    \A d \in DOMAIN discovery :
        /\ discovery[d] = [pending |-> discovery[d].pending,
                           inserting |-> discovery[d].inserting,
                           inserted |-> discovery[d].inserted]
        /\ \A c \in Flushed(d) :
              /\ c \notin DOMAIN candidate
              /\ \A b \in DOMAIN candidate : candidate[b].source # discovery[d].inserted[c]
              /\ \A e \in DOMAIN discovery : \A b \in Flushed(e) :
                    b = c \/ discovery[e].inserted[b] = discovery[d].inserted[c] => e = d /\ b = c

\* A source has one row.
OneRowPerSource ==
    \A b, c \in DOMAIN candidate : candidate[b].source = candidate[c].source => b = c

IInv ==
    /\ RowsShaped
    /\ ReviewsExclusive
    /\ DiscoveriesApart
    /\ OneRowPerSource
    /\ PromotedOnce

-----------------------------------------------------------------------------

(* Maps. *)

LEMMA MapForget ==
    ASSUME NEW f, NEW k
    PROVE  /\ DOMAIN Forget(f, k) = DOMAIN f \ {k}
           /\ \A x \in DOMAIN f \ {k} : Forget(f, k)[x] = f[x]
  BY DEF Forget

\* What ends a discovery or a review leaves the others as they were.
LEMMA DiscoveryEnds ==
    ASSUME DiscoveriesApart, NEW d, discovery' = Forget(discovery, d), candidate' = candidate
    PROVE  DiscoveriesApart'
  <1>1. /\ DOMAIN discovery' \subseteq DOMAIN discovery
        /\ \A e \in DOMAIN discovery' : discovery'[e] = discovery[e]
    BY MapForget
  <1>2. QED
    BY <1>1 DEF DiscoveriesApart, Flushed

LEMMA ReviewEnds ==
    ASSUME ReviewsExclusive, NEW v, review' = Forget(review, v), candidate' = candidate
    PROVE  ReviewsExclusive'
  <1>1. /\ DOMAIN review' \subseteq DOMAIN review
        /\ \A w \in DOMAIN review' : review'[w] = review[w]
    BY MapForget
  <1>2. QED
    BY <1>1 DEF ReviewsExclusive

\* A discovery that starts, or goes on to its next finding, has inserted nothing more.
LEMMA DiscoveryProceeds ==
    ASSUME DiscoveriesApart, candidate' = candidate, NEW d,
           DOMAIN discovery' \subseteq DOMAIN discovery \cup {d},
           \A e \in DOMAIN discovery' : e # d => discovery'[e] = discovery[e],
           d \in DOMAIN discovery' =>
              /\ discovery'[d] = [pending |-> discovery'[d].pending,
                                  inserting |-> discovery'[d].inserting,
                                  inserted |-> discovery'[d].inserted]
              /\ \/ DOMAIN discovery'[d].inserted = {}
                 \/ d \in DOMAIN discovery /\ discovery'[d].inserted = discovery[d].inserted
    PROVE  DiscoveriesApart'
  <1> SUFFICES ASSUME NEW e \in DOMAIN discovery'
               PROVE  /\ discovery'[e] = [pending |-> discovery'[e].pending,
                                          inserting |-> discovery'[e].inserting,
                                          inserted |-> discovery'[e].inserted]
                      /\ \A c \in Flushed(e)' :
                            /\ c \notin DOMAIN candidate
                            /\ \A b \in DOMAIN candidate : candidate[b].source # discovery'[e].inserted[c]
                            /\ \A g \in DOMAIN discovery' : \A b \in Flushed(g)' :
                                  b = c \/ discovery'[g].inserted[b] = discovery'[e].inserted[c]
                                     => g = e /\ b = c
    BY DEF DiscoveriesApart
  <1>1. \A g \in DOMAIN discovery' : \A c \in Flushed(g)' :
            g \in DOMAIN discovery /\ discovery'[g].inserted = discovery[g].inserted
    BY DEF Flushed
  <1>2. discovery'[e] = [pending |-> discovery'[e].pending,
                         inserting |-> discovery'[e].inserting,
                         inserted |-> discovery'[e].inserted]
    BY DEF DiscoveriesApart
  <1>3. QED
    BY <1>1, <1>2 DEF DiscoveriesApart, Flushed

-----------------------------------------------------------------------------

\* The empty queue, before Scout's first discovery and the first review, satisfies the invariant.
THEOREM InitEstablishes == Init => IInv
  BY DEF Init, IInv, RowsShaped, ReviewsExclusive, DiscoveriesApart, OneRowPerSource, PromotedOnce

(* One lemma per action. *)

LEMMA DiscoverPreserves ==
    ASSUME IInv, NEW d, NEW records, NEW findings, Discover(d, records, findings)
    PROVE  IInv'
  <1>1. PICK pending :
           discovery' = Put(discovery, d, [pending |-> pending, inserting |-> FALSE, inserted |-> << >>])
    BY DEF Discover
  <1>2. DiscoveriesApart'
    <2>1. /\ DOMAIN discovery' = DOMAIN discovery \cup {d}
          /\ \A e \in DOMAIN discovery' : e # d => discovery'[e] = discovery[e]
          /\ discovery'[d] = [pending |-> pending, inserting |-> FALSE, inserted |-> << >>]
      BY <1>1 DEF Put
    <2>2. DOMAIN discovery'[d].inserted = {}
      BY <2>1
    <2>3. discovery'[d] = [pending |-> discovery'[d].pending,
                           inserting |-> discovery'[d].inserting,
                           inserted |-> discovery'[d].inserted]
      BY <2>1
    <2>4. candidate' = candidate
      BY DEF Discover
    <2>5. QED
      BY <2>1, <2>2, <2>3, <2>4, DiscoveryProceeds DEF IInv
  <1>3. QED
    BY <1>2 DEF Discover, IInv, RowsShaped, ReviewsExclusive, OneRowPerSource, PromotedOnce

LEMMA FindPreserves ==
    ASSUME IInv, NEW d, FindKnown(d) \/ FindUnknown(d)
    PROVE  IInv'
  <1>1. /\ d \in DOMAIN discovery
        /\ \/ discovery' = [discovery EXCEPT ![d].pending = Tail(@)]
           \/ discovery' = [discovery EXCEPT ![d].inserting = TRUE]
        /\ UNCHANGED <<candidate, initiative, review>>
    BY DEF FindKnown, FindUnknown
  <1>2. DiscoveriesApart'
    <2>1. discovery[d] = [pending |-> discovery[d].pending, inserting |-> discovery[d].inserting,
                          inserted |-> discovery[d].inserted]
      BY <1>1 DEF IInv, DiscoveriesApart
    <2>2. /\ DOMAIN discovery' = DOMAIN discovery
          /\ \A e \in DOMAIN discovery' : e # d => discovery'[e] = discovery[e]
      BY <1>1
    <2>3. \/ discovery'[d] = [discovery[d] EXCEPT !.pending = Tail(@)]
          \/ discovery'[d] = [discovery[d] EXCEPT !.inserting = TRUE]
      BY <1>1
    <2>4. /\ discovery'[d] = [pending |-> discovery'[d].pending,
                              inserting |-> discovery'[d].inserting,
                              inserted |-> discovery'[d].inserted]
          /\ discovery'[d].inserted = discovery[d].inserted
      BY <2>1, <2>3
    <2>5. QED
      BY <1>1, <2>2, <2>4, DiscoveryProceeds DEF IInv
  <1>3. QED
    BY <1>1, <1>2 DEF IInv, RowsShaped, ReviewsExclusive, OneRowPerSource, PromotedOnce

\* The unique constraint: the new row's source is in no other row, and its identifier is new.
LEMMA InsertPreserves ==
    ASSUME IInv, NEW d, NEW c, InsertCandidate(d, c)
    PROVE  IInv'
  <1> DEFINE source == Head(discovery[d].pending)
  <1>1. /\ d \in DOMAIN discovery
        /\ ~Taken(c)
        /\ Unconstrained(source)
        /\ UNCHANGED <<candidate, initiative, review>>
    BY DEF InsertCandidate
  <1>2. /\ DOMAIN discovery' = DOMAIN discovery
        /\ \A e \in DOMAIN discovery : e # d => discovery'[e] = discovery[e]
    BY DEF InsertCandidate
  <1>3. discovery'[d] = [pending |-> Tail(discovery[d].pending), inserting |-> FALSE,
                         inserted |-> Put(discovery[d].inserted, c, source)]
    <2>1. discovery[d] = [pending |-> discovery[d].pending, inserting |-> discovery[d].inserting,
                          inserted |-> discovery[d].inserted]
      BY <1>1 DEF IInv, DiscoveriesApart
    <2>2. discovery'[d] = [discovery[d] EXCEPT !.inserted = Put(@, c, source),
                                               !.inserting = FALSE, !.pending = Tail(@)]
      BY <1>1 DEF InsertCandidate
    <2>3. QED
      BY <2>1, <2>2
  <1>4. /\ Flushed(d)' = Flushed(d) \cup {c}
        /\ discovery'[d].inserted[c] = source
        /\ \A b \in Flushed(d) : b # c => discovery'[d].inserted[b] = discovery[d].inserted[b]
        /\ \A e \in DOMAIN discovery : e # d => Flushed(e)' = Flushed(e)
    <2>1. discovery'[d].inserted = Put(discovery[d].inserted, c, source)
      BY <1>3
    <2>2. /\ DOMAIN discovery'[d].inserted = DOMAIN discovery[d].inserted \cup {c}
          /\ discovery'[d].inserted[c] = source
          /\ \A b \in DOMAIN discovery[d].inserted :
                b # c => discovery'[d].inserted[b] = discovery[d].inserted[b]
      BY <2>1 DEF Put
    <2>3. QED
      BY <1>2, <2>2 DEF Flushed
  <1>5. /\ c \notin DOMAIN candidate
        /\ \A e \in DOMAIN discovery : c \notin Flushed(e)
        /\ \A b \in DOMAIN candidate : candidate[b].source # source
        /\ \A e \in DOMAIN discovery : \A b \in Flushed(e) : discovery[e].inserted[b] # source
    BY <1>1 DEF Taken, Unconstrained, Flushed
  <1>6. DiscoveriesApart'
    <2>1. \A e \in DOMAIN discovery : \A b \in Flushed(e)' :
              \/ e = d /\ b = c
              \/ b # c /\ b \in Flushed(e) /\ discovery'[e].inserted[b] = discovery[e].inserted[b]
                 /\ discovery'[e].inserted[b] # source
      BY <1>2, <1>4, <1>5
    <2>2. \A e \in DOMAIN discovery' :
              discovery'[e] = [pending |-> discovery'[e].pending,
                               inserting |-> discovery'[e].inserting,
                               inserted |-> discovery'[e].inserted]
      BY <1>2, <1>3 DEF IInv, DiscoveriesApart
    <2>3. \A e \in DOMAIN discovery' : \A b \in Flushed(e)' :
              /\ b \notin DOMAIN candidate
              /\ \A a \in DOMAIN candidate : candidate[a].source # discovery'[e].inserted[b]
      BY <1>2, <1>4, <1>5, <2>1 DEF IInv, DiscoveriesApart
    <2>4. \A e, g \in DOMAIN discovery' : \A b \in Flushed(e)', a \in Flushed(g)' :
              a = b \/ discovery'[g].inserted[a] = discovery'[e].inserted[b] => g = e /\ a = b
      <3>1. SUFFICES ASSUME NEW e \in DOMAIN discovery, NEW g \in DOMAIN discovery,
                            NEW b \in Flushed(e)', NEW a \in Flushed(g)',
                            a = b \/ discovery'[g].inserted[a] = discovery'[e].inserted[b]
                     PROVE  g = e /\ a = b
        BY <1>2
      <3>2. CASE (e = d /\ b = c) \/ (g = d /\ a = c)
        BY <3>1, <3>2, <2>1, <1>4
      <3>3. CASE ~(e = d /\ b = c) /\ ~(g = d /\ a = c)
        BY <3>1, <3>3, <2>1 DEF IInv, DiscoveriesApart
      <3>4. QED
        BY <3>2, <3>3
    <2>5. QED
      BY <1>1, <2>2, <2>3, <2>4 DEF DiscoveriesApart
  <1>7. QED
    BY <1>1, <1>6 DEF IInv, RowsShaped, ReviewsExclusive, OneRowPerSource, PromotedOnce

\* The rows of a discovery join the table; none of them meets a row of its source there.
LEMMA CommitDiscoveryPreserves ==
    ASSUME IInv, NEW d, CommitDiscovery(d)
    PROVE  IInv'
  <1>1. /\ d \in DOMAIN discovery
        /\ UNCHANGED <<initiative, review>>
        /\ DOMAIN candidate' = DOMAIN candidate \cup Flushed(d)
        /\ \A c \in Flushed(d) : candidate'[c] = NewCandidate(discovery[d].inserted[c])
        /\ \A c \in DOMAIN candidate \ Flushed(d) : candidate'[c] = candidate[c]
    BY DEF CommitDiscovery, Flushed
  <1>2. \A c \in Flushed(d) :
           /\ c \notin DOMAIN candidate
           /\ candidate'[c].source = discovery[d].inserted[c]
           /\ candidate'[c].status = "DISCOVERED"
           /\ candidate'[c].promoted_initiative_id = NoInitiative
    BY <1>1 DEF IInv, DiscoveriesApart, NewCandidate
  <1>3. \A c \in DOMAIN candidate : c \in DOMAIN candidate' /\ candidate'[c] = candidate[c]
    BY <1>1, <1>2
  <1>4. /\ DOMAIN discovery' = DOMAIN discovery \ {d}
        /\ \A e \in DOMAIN discovery' : discovery'[e] = discovery[e] /\ Flushed(e)' = Flushed(e)
    BY DEF CommitDiscovery, Flushed, Forget
  <1>5. RowsShaped'
    BY <1>1, <1>2, <1>3 DEF IInv, RowsShaped, NewCandidate
  <1>6. ReviewsExclusive'
    BY <1>1, <1>3 DEF IInv, ReviewsExclusive
  <1>7. OneRowPerSource'
    BY <1>1, <1>2, <1>3 DEF IInv, OneRowPerSource, DiscoveriesApart
  <1>8. DiscoveriesApart'
    <2>1. \A e \in DOMAIN discovery' : \A c \in Flushed(e) :
              /\ c \notin DOMAIN candidate'
              /\ \A b \in DOMAIN candidate' : candidate'[b].source # discovery[e].inserted[c]
      BY <1>1, <1>2, <1>3, <1>4 DEF IInv, DiscoveriesApart
    <2>2. QED
      BY <1>4, <2>1 DEF IInv, DiscoveriesApart
  <1>9. PromotedOnce'
    BY <1>1, <1>2, <1>3 DEF IInv, PromotedOnce
  <1>10. QED
    BY <1>5, <1>6, <1>7, <1>8, <1>9 DEF IInv

LEMMA AbandonDiscoveryPreserves ==
    ASSUME IInv, NEW d, AbandonDiscovery(d)
    PROVE  IInv'
  <1>1. DiscoveriesApart'
    BY DiscoveryEnds DEF AbandonDiscovery, IInv
  <1>2. QED
    BY <1>1 DEF AbandonDiscovery, IInv, RowsShaped, ReviewsExclusive, OneRowPerSource, PromotedOnce

LEMMA OpenReviewPreserves ==
    ASSUME IInv, NEW v, NEW c, NEW decision, OpenReview(v, c, decision)
    PROVE  IInv'
  <1>1. /\ DOMAIN review' = DOMAIN review \cup {v}
        /\ review'[v] = [candidate |-> c, decision |-> decision, row |-> candidate[c]]
        /\ \A w \in DOMAIN review : w # v => review'[w] = review[w]
        /\ v \notin DOMAIN review
    BY DEF OpenReview, Put
  <1>2. /\ c \in DOMAIN candidate
        /\ \A w \in DOMAIN review : review[w].candidate # c
        /\ UNCHANGED <<candidate, initiative, discovery>>
    BY DEF OpenReview, LockCandidate
  <1>3. ReviewsExclusive'
    BY <1>1, <1>2 DEF IInv, ReviewsExclusive
  <1>4. QED
    BY <1>2, <1>3 DEF IInv, RowsShaped, DiscoveriesApart, Flushed, OneRowPerSource, PromotedOnce

\* The row of a review is decided on while the review has it to itself.
LEMMA PromoteFacts ==
    ASSUME IInv, NEW v, NEW i, Promote(v, i), NEW c, c = review[v].candidate
    PROVE  /\ c \in DOMAIN candidate
           /\ v \in DOMAIN review
           /\ candidate[c].status = "DISCOVERED"
           /\ i \notin DOMAIN initiative
           /\ DOMAIN candidate' = DOMAIN candidate
           /\ candidate'[c] = [source |-> candidate[c].source, status |-> "PROMOTED",
                               promoted_initiative_id |-> i]
           /\ \A b \in DOMAIN candidate : b # c => candidate'[b] = candidate[b]
           /\ DOMAIN initiative' = DOMAIN initiative \cup {i}
           /\ initiative'[i].external_source_ref = c
           /\ initiative'[i].source_fingerprint = candidate[c].source.content
           /\ \A j \in DOMAIN initiative : initiative'[j] = initiative[j]
           /\ discovery' = discovery
  <1>1. v \in DOMAIN review /\ c \in DOMAIN candidate /\ review[v].row = candidate[c]
    BY DEF Promote, IInv, ReviewsExclusive
  <1>2. candidate[c] = [source |-> candidate[c].source, status |-> candidate[c].status,
                        promoted_initiative_id |-> candidate[c].promoted_initiative_id]
    BY <1>1 DEF IInv, RowsShaped
  <1>3. candidate' = [candidate EXCEPT ![c].status = "PROMOTED", ![c].promoted_initiative_id = i]
    BY DEF Promote
  <1>4. candidate'[c] = [candidate[c] EXCEPT !.status = "PROMOTED", !.promoted_initiative_id = i]
    BY <1>1, <1>3
  <1>5. /\ DOMAIN initiative' = DOMAIN initiative \cup {i}
        /\ initiative'[i] = [external_source_ref |-> c,
                             source_fingerprint |-> review[v].row.source.content]
        /\ i \notin DOMAIN initiative
        /\ \A j \in DOMAIN initiative : initiative'[j] = initiative[j]
    BY DEF Promote, Put
  <1>6. candidate[c].status = "DISCOVERED" /\ discovery' = discovery
    BY <1>1 DEF Promote
  <1>7. /\ candidate'[c] = [source |-> candidate[c].source, status |-> "PROMOTED",
                             promoted_initiative_id |-> i]
        /\ DOMAIN candidate' = DOMAIN candidate
        /\ \A b \in DOMAIN candidate : b # c => candidate'[b] = candidate[b]
    <2>1. candidate'[c] = [source |-> candidate[c].source, status |-> "PROMOTED",
                           promoted_initiative_id |-> i]
      BY <1>2, <1>4
    <2>2. /\ DOMAIN candidate' = DOMAIN candidate
          /\ \A b \in DOMAIN candidate : b # c => candidate'[b] = candidate[b]
      BY <1>1, <1>3
    <2>3. QED
      BY <2>1, <2>2
  <1>8. /\ initiative'[i].external_source_ref = c
        /\ initiative'[i].source_fingerprint = candidate[c].source.content
    BY <1>1, <1>5
  <1>9. QED
    BY <1>1, <1>5, <1>6, <1>7, <1>8, Zenon

LEMMA PromotePreserves ==
    ASSUME IInv, NEW v, NEW i, Promote(v, i)
    PROVE  IInv'
  <1> DEFINE c == review[v].candidate
  <1>1. /\ c \in DOMAIN candidate
        /\ v \in DOMAIN review
        /\ candidate[c].status = "DISCOVERED"
        /\ i \notin DOMAIN initiative
        /\ DOMAIN candidate' = DOMAIN candidate
        /\ candidate'[c] = [source |-> candidate[c].source, status |-> "PROMOTED",
                            promoted_initiative_id |-> i]
        /\ \A b \in DOMAIN candidate : b # c => candidate'[b] = candidate[b]
        /\ DOMAIN initiative' = DOMAIN initiative \cup {i}
        /\ initiative'[i].external_source_ref = c
        /\ initiative'[i].source_fingerprint = candidate[c].source.content
        /\ \A j \in DOMAIN initiative : initiative'[j] = initiative[j]
        /\ discovery' = discovery
    BY PromoteFacts
  <1>2. \A b \in DOMAIN candidate : candidate'[b].source = candidate[b].source
    BY <1>1
  <1>3. RowsShaped'
    BY <1>1 DEF IInv, RowsShaped
  <1>4. ReviewsExclusive'
    <2>0. review' = Forget(review, v)
      BY DEF Promote
    <2>1. /\ DOMAIN review' = DOMAIN review \ {v}
          /\ \A w \in DOMAIN review' : review'[w] = review[w]
      BY <2>0 DEF Forget
    <2>2. \A w \in DOMAIN review' : review[w].candidate # c
      BY <1>1, <2>1 DEF IInv, ReviewsExclusive
    <2>3. QED
      BY <1>1, <2>1, <2>2 DEF IInv, ReviewsExclusive
  <1>5. DiscoveriesApart'
    BY <1>1, <1>2 DEF IInv, DiscoveriesApart, Flushed
  <1>6. OneRowPerSource'
    BY <1>1, <1>2 DEF IInv, OneRowPerSource
  <1>7. PromotedOnce'
    <2>1. \A j \in DOMAIN initiative : initiative[j].external_source_ref # c
      BY <1>1 DEF IInv, PromotedOnce
    <2>2. QED
      BY <1>1, <2>1 DEF IInv, PromotedOnce
  <1>8. QED
    BY <1>3, <1>4, <1>5, <1>6, <1>7 DEF IInv

LEMMA DismissPreserves ==
    ASSUME IInv, NEW v, Dismiss(v)
    PROVE  IInv'
  <1> DEFINE c == review[v].candidate
  <1>1. /\ v \in DOMAIN review
        /\ c \in DOMAIN candidate
        /\ candidate[c].status # "PROMOTED"
        /\ candidate' = [candidate EXCEPT ![c].status = "DISMISSED"]
        /\ UNCHANGED <<initiative, discovery>>
    BY DEF Dismiss, IInv, ReviewsExclusive
  <1>2. candidate[c] = [source |-> candidate[c].source, status |-> candidate[c].status,
                        promoted_initiative_id |-> candidate[c].promoted_initiative_id]
    BY <1>1 DEF IInv, RowsShaped
  <1>3. candidate'[c] = [candidate[c] EXCEPT !.status = "DISMISSED"]
    BY <1>1
  <1>4. /\ DOMAIN candidate' = DOMAIN candidate
        /\ candidate'[c] = [source |-> candidate[c].source, status |-> "DISMISSED",
                            promoted_initiative_id |-> candidate[c].promoted_initiative_id]
        /\ \A b \in DOMAIN candidate : b # c => candidate'[b] = candidate[b]
        /\ \A b \in DOMAIN candidate : candidate'[b].source = candidate[b].source
    BY <1>1, <1>2, <1>3
  <1>5. RowsShaped'
    BY <1>1, <1>4 DEF IInv, RowsShaped
  <1>6. ReviewsExclusive'
    <2>0. review' = Forget(review, v)
      BY DEF Dismiss
    <2>1. /\ DOMAIN review' = DOMAIN review \ {v}
          /\ \A w \in DOMAIN review' : review'[w] = review[w]
      BY <2>0 DEF Forget
    <2>2. \A w \in DOMAIN review' : review[w].candidate # c
      BY <1>1, <2>1 DEF IInv, ReviewsExclusive
    <2>3. QED
      BY <1>1, <1>4, <2>1, <2>2 DEF IInv, ReviewsExclusive
  <1>7. DiscoveriesApart'
    BY <1>1, <1>4 DEF IInv, DiscoveriesApart, Flushed
  <1>8. OneRowPerSource'
    BY <1>1, <1>4 DEF IInv, OneRowPerSource
  <1>9. PromotedOnce'
    BY <1>1, <1>4 DEF IInv, PromotedOnce
  <1>10. QED
    BY <1>5, <1>6, <1>7, <1>8, <1>9 DEF IInv

LEMMA EndReviewPreserves ==
    ASSUME IInv, NEW v, EndReview(v)
    PROVE  IInv'
  <1>1. ReviewsExclusive'
    BY ReviewEnds DEF EndReview, IInv
  <1>2. QED
    BY <1>1 DEF EndReview, IInv, RowsShaped, DiscoveriesApart, Flushed, OneRowPerSource, PromotedOnce

LEMMA StutterPreserves ==
    ASSUME IInv, UNCHANGED vars
    PROVE  IInv'
  BY DEF vars, IInv, RowsShaped, ReviewsExclusive, DiscoveriesApart, Flushed, OneRowPerSource,
         PromotedOnce

-----------------------------------------------------------------------------

\* Discoveries and reviews of any number of sessions keep the invariant.
THEOREM Invariance == Spec => []IInv
  <1>1. Init => IInv
    BY InitEstablishes
  <1>2. IInv /\ [Next]_vars => IInv'
    <2>1. SUFFICES ASSUME IInv, [Next]_vars PROVE IInv'
      OBVIOUS
    <2>2. ASSUME NEW d \in Discoveries, DiscoveryStep(d) PROVE IInv'
      <3>1. CASE \E records \in Requests : \E findings \in [DOMAIN records -> Finding] :
                    Discover(d, records, findings)
        BY <2>1, <3>1, DiscoverPreserves
      <3>2. CASE FindKnown(d) \/ FindUnknown(d)
        BY <2>1, <3>2, FindPreserves
      <3>3. CASE \E c \in Candidates : InsertCandidate(d, c)
        BY <2>1, <3>3, InsertPreserves
      <3>4. CASE CommitDiscovery(d)
        BY <2>1, <3>4, CommitDiscoveryPreserves
      <3>5. CASE AbandonDiscovery(d)
        BY <2>1, <3>5, AbandonDiscoveryPreserves
      <3>6. QED
        BY <2>2, <3>1, <3>2, <3>3, <3>4, <3>5 DEF DiscoveryStep
    <2>3. ASSUME NEW v \in Reviews, ReviewStep(v) PROVE IInv'
      <3>1. CASE \E c \in Candidates, decision \in {"PROMOTE", "DISMISS"} : OpenReview(v, c, decision)
        BY <2>1, <3>1, OpenReviewPreserves
      <3>2. CASE \E i \in Initiatives : Promote(v, i)
        BY <2>1, <3>2, PromotePreserves
      <3>3. CASE Dismiss(v)
        BY <2>1, <3>3, DismissPreserves
      <3>4. CASE EndReview(v)
        BY <2>1, <3>4, EndReviewPreserves
      <3>5. QED
        BY <2>3, <3>1, <3>2, <3>3, <3>4 DEF ReviewStep
    <2>4. QED
      BY <2>1, <2>2, <2>3, StutterPreserves DEF Next
  <1>3. QED
    BY <1>1, <1>2, PTL DEF Spec

\* However many reviewers promote or dismiss a candidate at the same time, it has one
\* initiative or none, and candidate, initiative and evidence agree about it.
THEOREM PromotionsConsistent == Spec => []PromotedOnce
  <1>1. IInv => PromotedOnce
    BY DEF IInv
  <1>2. QED
    BY <1>1, Invariance, PTL

\* Overlapping discoveries of one source leave one candidate.
THEOREM CandidatesUnique == Spec => []OneRowPerSource
  <1>1. IInv => OneRowPerSource
    BY DEF IInv
  <1>2. QED
    BY <1>1, Invariance, PTL

-----------------------------------------------------------------------------

(* Scout implements ReviewQueue. *)

\* What the queue shows of a source is the status of its row.
LEMMA StatusIs ==
    ASSUME OneRowPerSource, NEW s
    PROVE  /\ RowsFor(s) = {} => StatusOf(s) = "UNKNOWN"
           /\ \A c \in DOMAIN candidate : candidate[c].source = s => StatusOf(s) = candidate[c].status
  <1>1. ASSUME NEW c \in DOMAIN candidate, candidate[c].source = s
        PROVE  StatusOf(s) = candidate[c].status
    <2>1. RowsFor(s) = {c}
      BY <1>1 DEF RowsFor, OneRowPerSource
    <2>2. Cardinality(RowsFor(s)) = 1
      BY <2>1, FS_Singleton
    <2>3. (CHOOSE b \in RowsFor(s) : TRUE) = c
      BY <2>1
    <2>4. QED
      BY <2>1, <2>2, <2>3 DEF StatusOf
  <1>2. QED
    BY <1>1 DEF StatusOf

LEMMA StatusIsPrime ==
    ASSUME OneRowPerSource', NEW s
    PROVE  /\ RowsFor(s)' = {} => StatusOf(s)' = "UNKNOWN"
           /\ \A c \in DOMAIN candidate' : candidate'[c].source = s => StatusOf(s)' = candidate'[c].status
  <1>1. ASSUME NEW c \in DOMAIN candidate', candidate'[c].source = s
        PROVE  StatusOf(s)' = candidate'[c].status
    <2>1. RowsFor(s)' = {c}
      BY <1>1 DEF RowsFor, OneRowPerSource
    <2>2. Cardinality(RowsFor(s)') = 1
      BY <2>1, FS_Singleton
    <2>3. (CHOOSE b \in RowsFor(s)' : TRUE) = c
      BY <2>1
    <2>4. QED
      BY <2>1, <2>2, <2>3 DEF StatusOf
  <1>2. QED
    BY <1>1 DEF StatusOf

\* The rows of a source, and so what the queue shows of it, as a step leaves them alone.
LEMMA StatusKept ==
    ASSUME OneRowPerSource, OneRowPerSource', NEW s,
           RowsFor(s)' = RowsFor(s),
           \A c \in RowsFor(s) : candidate'[c].status = candidate[c].status
    PROVE  StatusOf(s)' = StatusOf(s)
  <1>1. CASE RowsFor(s) = {}
    BY <1>1, StatusIs, StatusIsPrime
  <1>2. ASSUME NEW c \in RowsFor(s) PROVE StatusOf(s)' = StatusOf(s)
    <2>1. c \in DOMAIN candidate /\ candidate[c].source = s
      BY <1>2 DEF RowsFor
    <2>2. c \in DOMAIN candidate' /\ candidate'[c].source = s
      BY <1>2 DEF RowsFor
    <2>3. QED
      BY <1>2, <2>1, <2>2, StatusIs, StatusIsPrime
  <1>3. QED
    BY <1>1, <1>2

LEMMA InitRefines == Init => Queue!QueueInit
  <1>1. SUFFICES ASSUME Init, NEW s \in Source
                 PROVE  StatusOf(s) = "UNKNOWN" /\ Cardinality(MadeFrom(s)) = 0
    BY DEF Queue!QueueInit
  <1>2. RowsFor(s) = {} /\ MadeFrom(s) = {}
    BY <1>1 DEF Init, RowsFor, MadeFrom
  <1>3. QED
    BY <1>2, FS_EmptySet DEF StatusOf

\* A step that keeps the committed rows is not seen in the queue.
LEMMA InvisibleStep ==
    ASSUME candidate' = candidate, initiative' = initiative
    PROVE  UNCHANGED Queue!queueVars
  <1>1. \A s : StatusOf(s)' = StatusOf(s) /\ MadeFrom(s)' = MadeFrom(s)
    BY DEF StatusOf, RowsFor, MadeFrom
  <1>2. QED
    BY <1>1 DEF Queue!queueVars

\* A committed batch enters the queue as a whole.
LEMMA CommitDiscoveryRefines ==
    ASSUME IInv, IInv', NEW d, CommitDiscovery(d)
    PROVE  Queue!QueueNext
  <1> DEFINE batch == {s \in Source : \E c \in Flushed(d) : discovery[d].inserted[c] = s}
  <1>1. /\ d \in DOMAIN discovery
        /\ initiative' = initiative
        /\ DOMAIN candidate' = DOMAIN candidate \cup Flushed(d)
        /\ \A c \in Flushed(d) : candidate'[c] = NewCandidate(discovery[d].inserted[c])
        /\ \A c \in DOMAIN candidate \ Flushed(d) : candidate'[c] = candidate[c]
    BY DEF CommitDiscovery, Flushed
  <1>2. \A c \in Flushed(d) :
           /\ c \notin DOMAIN candidate
           /\ c \in DOMAIN candidate'
           /\ candidate'[c].source = discovery[d].inserted[c]
           /\ candidate'[c].status = "DISCOVERED"
    BY <1>1 DEF IInv, DiscoveriesApart, NewCandidate
  <1>3. \A c \in DOMAIN candidate : c \in DOMAIN candidate' /\ candidate'[c] = candidate[c]
    BY <1>1, <1>2
  <1>4. ASSUME NEW s \in batch
        PROVE  StatusOf(s) = "UNKNOWN" /\ StatusOf(s)' = "DISCOVERED"
    <2>1. PICK c \in Flushed(d) : discovery[d].inserted[c] = s
      OBVIOUS
    <2>2. RowsFor(s) = {}
      BY <1>1, <2>1 DEF RowsFor, IInv, DiscoveriesApart
    <2>3. c \in DOMAIN candidate' /\ candidate'[c].source = s /\ candidate'[c].status = "DISCOVERED"
      BY <1>2, <2>1
    <2>4. QED
      BY <2>2, <2>3, StatusIs, StatusIsPrime DEF IInv
  <1>5. ASSUME NEW s \in Source \ batch
        PROVE  StatusOf(s)' = StatusOf(s)
    <2>1. RowsFor(s)' = RowsFor(s)
      BY <1>1, <1>2, <1>3 DEF RowsFor
    <2>2. \A c \in RowsFor(s) : candidate'[c].status = candidate[c].status
      BY <1>3 DEF RowsFor
    <2>3. QED
      BY <2>1, <2>2, StatusKept DEF IInv
  <1>6. \A s : MadeFrom(s)' = MadeFrom(s)
    <2>1. \A j \in DOMAIN initiative :
             candidate'[initiative[j].external_source_ref] = candidate[initiative[j].external_source_ref]
      BY <1>3 DEF IInv, PromotedOnce
    <2>2. QED
      BY <1>1, <2>1 DEF MadeFrom
  <1>7. Queue!Find(batch)
    BY <1>4, <1>5, <1>6 DEF Queue!Find
  <1>8. batch \in SUBSET Source
    OBVIOUS
  <1>9. QED
    BY <1>7, <1>8 DEF Queue!QueueNext

\* A promotion makes the first initiative of the candidate's source.
LEMMA PromoteRefines ==
    ASSUME IInv, IInv', NEW v, NEW i, Promote(v, i)
    PROVE  Queue!QueueNext \/ UNCHANGED Queue!queueVars
  <1> DEFINE c == review[v].candidate
  <1>0. PICK source : source = candidate[c].source
    OBVIOUS
  <1>1. /\ c \in DOMAIN candidate
        /\ v \in DOMAIN review
        /\ candidate[c].status = "DISCOVERED"
        /\ i \notin DOMAIN initiative
        /\ DOMAIN candidate' = DOMAIN candidate
        /\ candidate'[c] = [source |-> candidate[c].source, status |-> "PROMOTED",
                            promoted_initiative_id |-> i]
        /\ \A b \in DOMAIN candidate : b # c => candidate'[b] = candidate[b]
        /\ DOMAIN initiative' = DOMAIN initiative \cup {i}
        /\ initiative'[i].external_source_ref = c
        /\ initiative'[i].source_fingerprint = candidate[c].source.content
        /\ \A j \in DOMAIN initiative : initiative'[j] = initiative[j]
        /\ discovery' = discovery
    BY PromoteFacts
  <1>2. \A b \in DOMAIN candidate : candidate'[b].source = candidate[b].source
    BY <1>1
  <1>3. StatusOf(source) = "DISCOVERED" /\ StatusOf(source)' = "PROMOTED"
    <2>1. c \in DOMAIN candidate' /\ candidate'[c].source = source /\ candidate'[c].status = "PROMOTED"
      BY <1>0, <1>1
    <2>2. QED
      BY <1>0, <1>1, <2>1, StatusIs, StatusIsPrime DEF IInv
  <1>4. ASSUME NEW s, s # source PROVE StatusOf(s)' = StatusOf(s) /\ MadeFrom(s)' = MadeFrom(s)
    <2>1. RowsFor(s)' = RowsFor(s)
      BY <1>0, <1>1, <1>2 DEF RowsFor
    <2>2. \A b \in RowsFor(s) : candidate'[b].status = candidate[b].status
      BY <1>0, <1>1, <1>4 DEF RowsFor
    <2>3. \A j \in DOMAIN initiative : initiative[j].external_source_ref \in DOMAIN candidate
      BY DEF IInv, PromotedOnce
    <2>4. MadeFrom(s)' = MadeFrom(s)
      BY <1>0, <1>1, <1>2, <1>4, <2>3 DEF MadeFrom
    <2>5. QED
      BY <2>1, <2>2, <2>4, StatusKept DEF IInv
  <1>5. Cardinality(MadeFrom(source)) = 0 /\ Cardinality(MadeFrom(source)') = 1
    <2>1. ASSUME NEW j \in DOMAIN initiative
          PROVE  candidate[initiative[j].external_source_ref].source # source
      <3>1. /\ initiative[j].external_source_ref \in DOMAIN candidate
            /\ candidate[initiative[j].external_source_ref].status = "PROMOTED"
        BY <2>1 DEF IInv, PromotedOnce
      <3>2. QED
        BY <1>0, <1>1, <3>1 DEF IInv, OneRowPerSource
    <2>2. MadeFrom(source) = {}
      BY <2>1 DEF MadeFrom
    <2>3. \A j \in DOMAIN initiative : initiative[j].external_source_ref \in DOMAIN candidate
      BY DEF IInv, PromotedOnce
    <2>4. MadeFrom(source)' = {i}
      BY <1>0, <1>1, <1>2, <2>1, <2>3 DEF MadeFrom
    <2>5. QED
      BY <2>2, <2>4, FS_EmptySet, FS_Singleton
  <1>6. CASE source \in Source
    <2>1. Queue!MakeInitiative(source)
      <3>1. [s \in Source |-> StatusOf(s)]' = [[s \in Source |-> StatusOf(s)] EXCEPT ![source] = "PROMOTED"]
        BY <1>3, <1>4, <1>6
      <3>2. \A s \in Source :
               Cardinality(MadeFrom(s)') = IF s = source THEN 1 ELSE Cardinality(MadeFrom(s))
        BY <1>4, <1>5
      <3>3. [s \in Source |-> Cardinality(MadeFrom(s))]'
               = [[s \in Source |-> Cardinality(MadeFrom(s))] EXCEPT ![source] = @ + 1]
        <4>1. [s \in Source |-> Cardinality(MadeFrom(s))][source] + 1 = 1
          BY <1>5, <1>6
        <4>2. [s \in Source |-> Cardinality(MadeFrom(s))]'
                 = [[s \in Source |-> Cardinality(MadeFrom(s))] EXCEPT ![source] = 1]
          BY <3>2, <1>6
        <4>3. QED
          BY <4>1, <4>2
      <3>4. QED
        BY <1>3, <1>6, <3>1, <3>3 DEF Queue!MakeInitiative
    <2>2. QED
      BY <1>6, <2>1 DEF Queue!QueueNext
  <1>7. CASE source \notin Source
    BY <1>4, <1>7 DEF Queue!queueVars
  <1>8. QED
    BY <1>6, <1>7

\* A dismissal turns the source down, the first time.
LEMMA DismissRefines ==
    ASSUME IInv, IInv', NEW v, Dismiss(v)
    PROVE  Queue!QueueNext \/ UNCHANGED Queue!queueVars
  <1>0. PICK c, source : c = review[v].candidate /\ source = candidate[c].source
    OBVIOUS
  <1>1. /\ c \in DOMAIN candidate
        /\ candidate[c].status # "PROMOTED"
        /\ candidate' = [candidate EXCEPT ![c].status = "DISMISSED"]
        /\ initiative' = initiative
    BY <1>0 DEF Dismiss, IInv, ReviewsExclusive
  <1>2. candidate[c] = [source |-> candidate[c].source, status |-> candidate[c].status,
                        promoted_initiative_id |-> candidate[c].promoted_initiative_id]
    BY <1>1 DEF IInv, RowsShaped
  <1>3. candidate'[c] = [candidate[c] EXCEPT !.status = "DISMISSED"]
    BY <1>1
  <1>4. /\ DOMAIN candidate' = DOMAIN candidate
        /\ candidate'[c].status = "DISMISSED"
        /\ \A b \in DOMAIN candidate : b # c => candidate'[b] = candidate[b]
        /\ \A b \in DOMAIN candidate : candidate'[b].source = candidate[b].source
    BY <1>1, <1>2, <1>3
  <1>5. \A s : MadeFrom(s)' = MadeFrom(s)
    <2>1. \A j \in DOMAIN initiative : initiative[j].external_source_ref \in DOMAIN candidate
      BY DEF IInv, PromotedOnce
    <2>2. QED
      BY <1>1, <1>4, <2>1 DEF MadeFrom
  <1>6. StatusOf(source) = candidate[c].status /\ StatusOf(source)' = "DISMISSED"
    BY <1>0, <1>1, <1>4, StatusIs, StatusIsPrime DEF IInv
  <1>7. ASSUME NEW s, s # source PROVE StatusOf(s)' = StatusOf(s)
    <2>1. RowsFor(s)' = RowsFor(s)
      BY <1>4 DEF RowsFor
    <2>2. \A b \in RowsFor(s) : candidate'[b].status = candidate[b].status
      BY <1>0, <1>4, <1>7 DEF RowsFor
    <2>3. QED
      BY <2>1, <2>2, StatusKept DEF IInv
  <1>8. CASE source \in Source /\ candidate[c].status = "DISCOVERED"
    <2>1. Queue!TurnDown(source)
      BY <1>5, <1>6, <1>7, <1>8 DEF Queue!TurnDown
    <2>2. QED
      BY <1>8, <2>1 DEF Queue!QueueNext
  <1>9. CASE source \notin Source \/ candidate[c].status = "DISMISSED"
    BY <1>5, <1>6, <1>7, <1>9 DEF Queue!queueVars
  <1>10. candidate[c].status \in {"DISCOVERED", "DISMISSED"}
    BY <1>1 DEF IInv, RowsShaped
  <1>11. QED
    BY <1>8, <1>9, <1>10

\* The queue that reviewers see behaves as ReviewQueue, whatever overlaps underneath:
\* what is discovered is offered once, and a decision is never taken back.
THEOREM QueueImplemented == Spec => ImplementsReviewQueue
  <1>1. Init => Queue!QueueInit
    BY InitRefines
  <1>2. IInv /\ IInv' /\ [Next]_vars => [Queue!QueueNext]_Queue!queueVars
    <2>1. SUFFICES ASSUME IInv, IInv', [Next]_vars
                   PROVE  Queue!QueueNext \/ UNCHANGED Queue!queueVars
      OBVIOUS
    <2>2. ASSUME NEW d \in Discoveries, DiscoveryStep(d)
          PROVE  Queue!QueueNext \/ UNCHANGED Queue!queueVars
      <3>1. CASE CommitDiscovery(d)
        BY <2>1, <3>1, CommitDiscoveryRefines
      <3>2. CASE ~CommitDiscovery(d)
        <4>1. candidate' = candidate /\ initiative' = initiative
          BY <2>2, <3>2 DEF DiscoveryStep, Discover, FindKnown, FindUnknown, InsertCandidate,
                            AbandonDiscovery
        <4>2. QED
          BY <4>1, InvisibleStep
      <3>3. QED
        BY <3>1, <3>2
    <2>3. ASSUME NEW v \in Reviews, ReviewStep(v)
          PROVE  Queue!QueueNext \/ UNCHANGED Queue!queueVars
      <3>1. CASE \E i \in Initiatives : Promote(v, i)
        BY <2>1, <3>1, PromoteRefines
      <3>2. CASE Dismiss(v)
        BY <2>1, <3>2, DismissRefines
      <3>3. CASE (\E c \in Candidates, decision \in {"PROMOTE", "DISMISS"} : OpenReview(v, c, decision))
                 \/ EndReview(v)
        <4>1. candidate' = candidate /\ initiative' = initiative
          BY <3>3 DEF OpenReview, EndReview
        <4>2. QED
          BY <4>1, InvisibleStep
      <3>4. QED
        BY <2>3, <3>1, <3>2, <3>3 DEF ReviewStep
    <2>4. CASE UNCHANGED vars
      BY <2>4, InvisibleStep DEF vars
    <2>5. QED
      BY <2>1, <2>2, <2>3, <2>4 DEF Next
  <1>3. QED
    BY <1>1, <1>2, Invariance, PTL DEF Spec, ImplementsReviewQueue, Queue!QueueSpec
=============================================================================
