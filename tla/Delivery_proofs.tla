--------------------------- MODULE Delivery_proofs ---------------------------
(***************************************************************************)
(* Theorems about Delivery, for every set of deliveries and every finite   *)
(* set of senders, every timeout and delay, and any number of faults.  The *)
(* inductive invariant adds to the properties what a sender that concluded *)
(* knows: its email was mailed if it says so, and its result is counted    *)
(* among those that are still to be recorded.                              *)
(***************************************************************************)
EXTENDS Delivery, FiniteSetTheorems, TLAPS

Concluded == {"SENT", "FAILED"}

\* A sender that works has a delivery, and only results of concluded attempts are recorded.
SendersBusy ==
    /\ \A s \in Senders :
          sender[s].phase \in Concluded \cup {"sending"} => sender[s].delivery \in Deliveries
    /\ \A s \in recorded : sender[s].phase \in Concluded

\* A sender only reports a success if the email left the mailbox.
SuccessWasMailed ==
    \A s \in Senders : sender[s].phase = "SENT" => mailed[sender[s].delivery] > 0

\* A claim never outlives the time for which its instruction is not due.
HeldWithinWait == \A d \in Deliveries : held[d] <= wait[d]

IInv ==
    /\ TypeOK
    /\ SendersBusy
    /\ SuccessWasMailed
    /\ AttemptsCountedOnce
    /\ SentWasMailed
    /\ HeldWithinWait

SenderRow ==
    [phase : {"idle", "sending", "SENT", "FAILED", "ended"}, delivery : Deliveries \cup {NoDelivery}]

InstructionRow == [status : Statuses, attempt_count : Nat]

-----------------------------------------------------------------------------

(* Delays. *)

\* The backoff is a delay the type invariant allows, whatever the attempt count.
LEMMA BackoffInRange ==
    ASSUME NEW n \in Nat \ {0}
    PROVE  Backoff(n) \in LongestWait
  <1>1. MinOf(n, 7) \in 1..7
    BY DEF MinOf
  <1>2. Doublings[MinOf(n, 7)] \in Nat
    BY <1>1 DEF Doublings
  <1>3. BaseDelay * Doublings[MinOf(n, 7)] \in Nat
    BY <1>2, TimeAssumption
  <1>4. QED
    BY <1>3, TimeAssumption DEF Backoff, MinOf, LongestWait

LEMMA TimeoutInRange == VisibilityTimeout \in LongestWait
  BY TimeAssumption DEF LongestWait

LEMMA DelaysAreNat == LongestWait \subseteq Nat
  BY TimeAssumption DEF LongestWait

\* The shorter of two delays is one of them.
LEMMA MinOfRange ==
    ASSUME NEW a \in LongestWait, NEW b \in LongestWait
    PROVE  MinOf(a, b) \in LongestWait /\ MinOf(a, b) <= b
  BY DelaysAreNat DEF MinOf

-----------------------------------------------------------------------------

(* Counting the results that are not recorded yet. *)

LEMMA UnreportedFinite ==
    ASSUME NEW d
    PROVE  IsFiniteSet(Unreported(d)) /\ Cardinality(Unreported(d)) \in Nat
  <1>1. IsFiniteSet(Senders)
    BY SendersAssumption, FS_Union DEF Senders
  <1>2. Unreported(d) \subseteq Senders
    BY DEF Unreported
  <1>3. QED
    BY <1>1, <1>2, FS_Subset, FS_CardinalityType

LEMMA UnreportedFinitePrime ==
    ASSUME NEW d
    PROVE  IsFiniteSet(Unreported(d)') /\ Cardinality(Unreported(d)') \in Nat
  <1>1. IsFiniteSet(Senders)
    BY SendersAssumption, FS_Union DEF Senders
  <1>2. Unreported(d)' \subseteq Senders
    BY DEF Unreported
  <1>3. QED
    BY <1>1, <1>2, FS_Subset, FS_CardinalityType

\* A sender that concludes is added to the unreported results of its delivery.
LEMMA UnreportedAdded ==
    ASSUME TypeOK, SendersBusy, NEW s \in Senders, sender[s].phase = "sending",
           NEW outcome \in Concluded,
           sender' = [sender EXCEPT ![s].phase = outcome],
           recorded' = recorded,
           NEW d \in Deliveries
    PROVE  Cardinality(Unreported(d)') =
              Cardinality(Unreported(d)) + (IF d = sender[s].delivery THEN 1 ELSE 0)
  <1>1. s \notin recorded
    BY DEF SendersBusy, Concluded
  <1>2. s \notin Unreported(d)
    BY DEF Unreported
  <1>3. sender'[s].phase = outcome /\ sender'[s].delivery = sender[s].delivery
    BY DEF TypeOK
  <1>4. \A u \in Senders : u # s => sender'[u] = sender[u]
    BY DEF TypeOK
  <1>5. CASE d = sender[s].delivery
    <2>1. Unreported(d)' = Unreported(d) \cup {s}
      BY <1>1, <1>3, <1>4, <1>5 DEF Unreported, Concluded
    <2>2. QED
      BY <2>1, <1>2, <1>5, UnreportedFinite, FS_AddElement
  <1>6. CASE d # sender[s].delivery
    <2>1. Unreported(d)' = Unreported(d)
      BY <1>2, <1>3, <1>4, <1>6 DEF Unreported
    <2>2. QED
      BY <2>1, <1>6, UnreportedFinite
  <1>7. QED
    BY <1>5, <1>6

\* A concluded sender whose result is recorded, or lost, is removed from them.
LEMMA UnreportedRemoved ==
    ASSUME TypeOK, NEW s \in Senders, sender[s].phase \in Concluded, s \notin recorded,
           \A u \in Senders : u # s => sender'[u] = sender[u] /\ (u \in recorded' <=> u \in recorded),
           s \in recorded' \/ sender'[s].phase \notin Concluded,
           NEW d \in Deliveries
    PROVE  /\ Cardinality(Unreported(d)') =
              Cardinality(Unreported(d)) - (IF d = sender[s].delivery THEN 1 ELSE 0)
           /\ d = sender[s].delivery => Cardinality(Unreported(d)) > 0
  <1>1. s \notin Unreported(d)'
    BY DEF Unreported, Concluded
  <1>2. CASE d = sender[s].delivery
    <2>1. s \in Unreported(d)
      BY <1>2 DEF Unreported, Concluded
    <2>2. Unreported(d)' = Unreported(d) \ {s}
      BY <1>1 DEF Unreported
    <2>3. Cardinality(Unreported(d)') = Cardinality(Unreported(d)) - 1
      BY <2>1, <2>2, UnreportedFinite, FS_RemoveElement
    <2>4. QED
      BY <2>3, <1>2, UnreportedFinite, UnreportedFinitePrime
  <1>3. CASE d # sender[s].delivery
    <2>1. s \notin Unreported(d)
      BY <1>3 DEF Unreported
    <2>2. Unreported(d)' = Unreported(d)
      BY <1>1, <2>1 DEF Unreported
    <2>3. QED
      BY <2>2, <1>3, UnreportedFinite
  <1>4. QED
    BY <1>2, <1>3

\* A step of a sender that has not concluded, or whose result was recorded, to a state in
\* which it has not concluded leaves them alone.
LEMMA UnreportedSame ==
    ASSUME NEW s \in Senders, sender[s].phase \notin Concluded \/ s \in recorded,
           sender'[s].phase \notin Concluded,
           \A u \in Senders : u # s => sender'[u] = sender[u] /\ (u \in recorded' <=> u \in recorded),
           NEW d
    PROVE  Unreported(d)' = Unreported(d)
  BY DEF Unreported, Concluded

\* Nor does a step that changes neither the senders nor what is recorded.
LEMMA UnreportedUnchanged ==
    ASSUME sender' = sender, recorded' = recorded, NEW d
    PROVE  Unreported(d)' = Unreported(d)
  BY DEF Unreported

-----------------------------------------------------------------------------

(* Typing of updates. *)

LEMMA BeginTyped ==
    ASSUME TypeOK, NEW s \in Senders, NEW d \in Deliveries, Begin(s, d)
    PROVE  /\ sender' \in [Senders -> SenderRow]
           /\ sender'[s] = [phase |-> "sending", delivery |-> d]
           /\ \A u \in Senders : u # s => sender'[u] = sender[u]
  BY DEF TypeOK, Begin, SenderRow

LEMMA ConcludeTyped ==
    ASSUME TypeOK, NEW s \in Senders, NEW outcome \in Concluded,
           sender' = [sender EXCEPT ![s].phase = outcome]
    PROVE  /\ sender' \in [Senders -> SenderRow]
           /\ sender'[s].phase = outcome
           /\ sender'[s].delivery = sender[s].delivery
           /\ \A u \in Senders : u # s => sender'[u] = sender[u]
  BY DEF TypeOK, SenderRow, Concluded

LEMMA RestTyped ==
    ASSUME TypeOK, NEW s \in Senders, Rest(s)
    PROVE  /\ sender' \in [Senders -> SenderRow]
           /\ sender'[s].phase \in {"idle", "ended"}
           /\ \A u \in Senders : u # s => sender'[u] = sender[u]
  BY DEF TypeOK, Rest, Idle, SenderRow

\* Adding one to a counter of a delivery.
LEMMA CounterIncremented ==
    ASSUME NEW f \in [Deliveries -> Nat], NEW d \in Deliveries, NEW g,
           g = [f EXCEPT ![d] = @ + 1]
    PROVE  /\ g \in [Deliveries -> Nat]
           /\ g[d] = f[d] + 1
           /\ \A e \in Deliveries : e # d => g[e] = f[e]
           /\ \A e \in Deliveries : f[e] > 0 => g[e] > 0
  <1>1. f[d] + 1 \in Nat
    OBVIOUS
  <1>2. g[d] = f[d] + 1 /\ \A e \in Deliveries : e # d => g[e] = f[e]
    OBVIOUS
  <1>3. g \in [Deliveries -> Nat]
    BY <1>1
  <1>4. \A e \in Deliveries : f[e] > 0 => g[e] > 0
    BY <1>2
  <1>5. QED
    BY <1>2, <1>3, <1>4

\* A fault stays within its bound.
LEMMA FaultCounted ==
    ASSUME TypeOK, faults < MaxFaults, faults' = faults + 1
    PROVE  faults' \in 0..MaxFaults
  BY TimeAssumption DEF TypeOK

-----------------------------------------------------------------------------

LEMMA InitEstablishes == Init => IInv
  <1> SUFFICES ASSUME Init PROVE IInv
    OBVIOUS
  <1> USE DEF Init
  <1>1. TypeOK
    <2>1. 0 \in LongestWait
      BY TimeAssumption DEF LongestWait
    <2>2. faults \in 0..MaxFaults
      BY TimeAssumption
    <2>3. instruction \in [Deliveries -> InstructionRow]
      BY DEF InstructionRow, Statuses
    <2>4. sender \in [Senders -> SenderRow]
      BY DEF SenderRow, Idle
    <2>5. QED
      BY <2>1, <2>2, <2>3, <2>4 DEF TypeOK, InstructionRow, SenderRow
  <1>2. SendersBusy
    BY DEF SendersBusy, Concluded, Idle
  <1>3. SuccessWasMailed
    BY DEF SuccessWasMailed, Idle
  <1>4. AttemptsCountedOnce
    <2> SUFFICES ASSUME NEW d \in Deliveries
                 PROVE  instruction[d].attempt_count + Cardinality(Unreported(d)) = results[d]
      BY DEF AttemptsCountedOnce
    <2>1. Unreported(d) = {}
      BY DEF Unreported, Idle
    <2>2. QED
      BY <2>1, FS_EmptySet
  <1>5. SentWasMailed
    BY DEF SentWasMailed
  <1>6. HeldWithinWait
    BY DEF HeldWithinWait
  <1>7. QED
    BY <1>1, <1>2, <1>3, <1>4, <1>5, <1>6 DEF IInv

LEMMA EnqueuePreserves ==
    ASSUME IInv, NEW d \in Deliveries, Enqueue(d)
    PROVE  IInv'
  <1> USE DEF Enqueue
  <1>1. instruction' \in [Deliveries -> InstructionRow]
    BY DEF IInv, TypeOK, InstructionRow, Statuses
  <1>2. \A e \in Deliveries : instruction'[e].attempt_count = instruction[e].attempt_count
    BY DEF IInv, TypeOK
  <1>3. \A e \in Deliveries : instruction'[e].status = "SENT" => instruction[e].status = "SENT"
    BY DEF IInv, TypeOK
  <1>4. TypeOK'
    BY <1>1 DEF IInv, TypeOK, InstructionRow
  <1>5. AttemptsCountedOnce'
    <2>1. \A e \in Deliveries : Unreported(e)' = Unreported(e)
      BY UnreportedUnchanged
    <2>2. QED
      BY <2>1, <1>2 DEF IInv, AttemptsCountedOnce
  <1>6. SentWasMailed'
    BY <1>3 DEF IInv, SentWasMailed
  <1>7. SendersBusy' /\ SuccessWasMailed' /\ HeldWithinWait'
    BY DEF IInv, SendersBusy, SuccessWasMailed, HeldWithinWait
  <1>8. QED
    BY <1>4, <1>5, <1>6, <1>7 DEF IInv

\* What both ways of getting an instruction have in common.
LEMMA BeginPreserves ==
    ASSUME IInv, NEW s \in Senders, NEW d \in Deliveries, sender[s] = Idle, Begin(s, d),
           UNCHANGED <<instruction, recorded, results, mailed, faults>>
    PROVE  /\ sender' \in [Senders -> SenderRow]
           /\ SendersBusy'
           /\ SuccessWasMailed'
           /\ AttemptsCountedOnce'
           /\ SentWasMailed'
  <1> USE DEF IInv
  <1>1. /\ sender' \in [Senders -> SenderRow]
        /\ sender'[s] = [phase |-> "sending", delivery |-> d]
        /\ \A u \in Senders : u # s => sender'[u] = sender[u]
    BY BeginTyped
  <1>2. sender[s].phase = "idle"
    BY DEF Idle
  <1>3. s \notin recorded
    BY <1>2 DEF SendersBusy, Concluded
  <1>4. SendersBusy'
    BY <1>1, <1>3 DEF SendersBusy, Concluded, TypeOK
  <1>5. SuccessWasMailed'
    BY <1>1 DEF SuccessWasMailed
  <1>6. AttemptsCountedOnce'
    <2>1. \A e : Unreported(e)' = Unreported(e)
      BY <1>1, <1>2, UnreportedSame DEF Concluded
    <2>2. QED
      BY <2>1 DEF AttemptsCountedOnce
  <1>7. SentWasMailed'
    BY DEF SentWasMailed
  <1>8. QED
    BY <1>1, <1>4, <1>5, <1>6, <1>7

LEMMA InstructPreserves ==
    ASSUME IInv, NEW w \in Workflows, NEW d \in Deliveries, Instruct(w, d)
    PROVE  IInv'
  <1>1. w \in Senders
    BY DEF Senders
  <1>2. /\ sender' \in [Senders -> SenderRow]
        /\ SendersBusy' /\ SuccessWasMailed' /\ AttemptsCountedOnce' /\ SentWasMailed'
    BY <1>1, BeginPreserves DEF Instruct, herald
  <1>3. TypeOK'
    BY <1>2 DEF IInv, TypeOK, Instruct, herald, SenderRow
  <1>4. HeldWithinWait'
    BY DEF IInv, HeldWithinWait, Instruct, herald
  <1>5. QED
    BY <1>2, <1>3, <1>4 DEF IInv

LEMMA ClaimPreserves ==
    ASSUME IInv, NEW p \in Pollers, NEW d \in Deliveries, Claim(p, d)
    PROVE  IInv'
  <1>1. p \in Senders
    BY DEF Senders
  <1>2. /\ sender' \in [Senders -> SenderRow]
        /\ SendersBusy' /\ SuccessWasMailed' /\ AttemptsCountedOnce' /\ SentWasMailed'
    BY <1>1, BeginPreserves DEF Claim
  <1>3. wait' \in [Deliveries -> LongestWait] /\ held' \in [Deliveries -> LongestWait]
    BY TimeoutInRange DEF IInv, TypeOK, Claim, WaitOnceClaimed
  <1>4. TypeOK'
    BY <1>2, <1>3 DEF IInv, TypeOK, Claim, SenderRow
  <1>5. HeldWithinWait'
    BY TimeAssumption DEF IInv, TypeOK, HeldWithinWait, Claim, WaitOnceClaimed
  <1>6. QED
    BY <1>2, <1>4, <1>5 DEF IInv

\* What both outcomes of an attempt have in common.
LEMMA ConcludePreserves ==
    ASSUME IInv, NEW s \in Senders, NEW outcome \in Concluded,
           sender[s].phase = "sending", Conclude(s, outcome)
    PROVE  /\ sender' \in [Senders -> SenderRow]
           /\ sender'[s].phase = outcome /\ sender'[s].delivery = sender[s].delivery
           /\ \A u \in Senders : u # s => sender'[u] = sender[u]
           /\ results' \in [Deliveries -> Nat]
           /\ SendersBusy'
           /\ AttemptsCountedOnce'
  <1> DEFINE e == sender[s].delivery
  <1> USE DEF IInv
  <1>1. e \in Deliveries
    BY DEF SendersBusy
  <1>2. /\ sender' \in [Senders -> SenderRow]
        /\ sender'[s].phase = outcome /\ sender'[s].delivery = e
        /\ \A u \in Senders : u # s => sender'[u] = sender[u]
    BY ConcludeTyped DEF Conclude
  <1>3. /\ results' \in [Deliveries -> Nat]
        /\ results'[e] = results[e] + 1
        /\ \A d \in Deliveries : d # e => results'[d] = results[d]
    <2>1. results' = [results EXCEPT ![e] = @ + 1]
      BY DEF Conclude
    <2>2. results \in [Deliveries -> Nat]
      BY DEF TypeOK
    <2> HIDE DEF e
    <2>3. QED
      BY <2>1, <2>2, <1>1, CounterIncremented
  <1>4. SendersBusy'
    <2>1. recorded' = recorded
      BY DEF Conclude, herald
    <2>2. s \notin recorded
      BY DEF SendersBusy, Concluded
    <2>3. QED
      BY <1>1, <1>2, <2>1, <2>2 DEF SendersBusy, TypeOK
  <1>5. AttemptsCountedOnce'
    <2> SUFFICES ASSUME NEW d \in Deliveries
                 PROVE  (instruction[d].attempt_count + Cardinality(Unreported(d)) = results[d])'
      BY DEF AttemptsCountedOnce
    <2>1. recorded' = recorded /\ instruction' = instruction
      BY DEF Conclude, herald
    <2>2. Cardinality(Unreported(d)') = Cardinality(Unreported(d)) + (IF d = e THEN 1 ELSE 0)
      BY <2>1, UnreportedAdded DEF Conclude
    <2>3. instruction[d].attempt_count + Cardinality(Unreported(d)) = results[d]
      BY DEF AttemptsCountedOnce
    <2>4. instruction[d].attempt_count \in Nat /\ results[d] \in Nat
      BY DEF TypeOK
    <2>5. Cardinality(Unreported(d)) \in Nat
      BY UnreportedFinite
    <2>6. QED
      BY <2>1, <2>2, <2>3, <2>4, <2>5, <1>3
  <1>6. QED
    BY <1>2, <1>3, <1>4, <1>5

LEMMA SendPreserves ==
    ASSUME IInv, NEW s \in Senders, Send(s)
    PROVE  IInv'
  <1> DEFINE e == sender[s].delivery
  <1>1. e \in Deliveries
    BY DEF IInv, SendersBusy, Send
  <1>2. /\ sender' \in [Senders -> SenderRow]
        /\ sender'[s].phase = "SENT" /\ sender'[s].delivery = e
        /\ \A u \in Senders : u # s => sender'[u] = sender[u]
        /\ results' \in [Deliveries -> Nat]
        /\ SendersBusy' /\ AttemptsCountedOnce'
    BY ConcludePreserves DEF Send, Concluded
  <1>3. /\ mailed' \in [Deliveries -> Nat]
        /\ mailed'[e] = mailed[e] + 1
        /\ \A d \in Deliveries : mailed[d] > 0 => mailed'[d] > 0
    <2>1. mailed' = [mailed EXCEPT ![e] = @ + 1]
      BY DEF Send
    <2>2. mailed \in [Deliveries -> Nat]
      BY DEF IInv, TypeOK
    <2> HIDE DEF e
    <2>3. QED
      BY <2>1, <2>2, <1>1, CounterIncremented
  <1>4. TypeOK'
    BY <1>2, <1>3 DEF IInv, TypeOK, Send, Conclude, herald, SenderRow
  <1>5. SuccessWasMailed'
    <2> SUFFICES ASSUME NEW u \in Senders, sender'[u].phase = "SENT"
                 PROVE  mailed'[sender'[u].delivery] > 0
      BY DEF SuccessWasMailed
    <2>1. CASE u = s
      BY <2>1, <1>1, <1>2, <1>3 DEF IInv, TypeOK
    <2>2. CASE u # s
      BY <2>2, <1>2, <1>3 DEF IInv, SuccessWasMailed, SendersBusy, Concluded
    <2>3. QED
      BY <2>1, <2>2
  <1>6. SentWasMailed'
    BY <1>3 DEF IInv, SentWasMailed, Send, Conclude, herald
  <1>7. HeldWithinWait'
    BY DEF IInv, HeldWithinWait, Send, Conclude, herald
  <1>8. QED
    BY <1>2, <1>4, <1>5, <1>6, <1>7 DEF IInv

\* An email that leaves the mailbox, or none, leaves what is known about emails true.
LEMMA MailedGrows ==
    ASSUME TypeOK, NEW e \in Deliveries,
           \/ mailed' = [mailed EXCEPT ![e] = @ + 1]
           \/ UNCHANGED mailed
    PROVE  /\ mailed' \in [Deliveries -> Nat]
           /\ \A d \in Deliveries : mailed[d] > 0 => mailed'[d] > 0
  <1>1. mailed \in [Deliveries -> Nat]
    BY DEF TypeOK
  <1>2. CASE mailed' = [mailed EXCEPT ![e] = @ + 1]
    BY <1>1, <1>2, CounterIncremented
  <1>3. CASE UNCHANGED mailed
    BY <1>1, <1>3
  <1>4. QED
    BY <1>2, <1>3

LEMMA FailToSendPreserves ==
    ASSUME IInv, NEW s \in Senders, FailToSend(s)
    PROVE  IInv'
  <1> DEFINE e == sender[s].delivery
  <1>1. e \in Deliveries
    BY DEF IInv, SendersBusy, FailToSend
  <1>2. /\ sender' \in [Senders -> SenderRow]
        /\ sender'[s].phase = "FAILED" /\ sender'[s].delivery = e
        /\ \A u \in Senders : u # s => sender'[u] = sender[u]
        /\ results' \in [Deliveries -> Nat]
        /\ SendersBusy' /\ AttemptsCountedOnce'
    BY ConcludePreserves DEF FailToSend, Concluded
  <1>3. /\ mailed' \in [Deliveries -> Nat]
        /\ \A d \in Deliveries : mailed[d] > 0 => mailed'[d] > 0
    <2>1. \/ mailed' = [mailed EXCEPT ![e] = @ + 1]
          \/ UNCHANGED mailed
      BY DEF FailToSend
    <2> HIDE DEF e
    <2>2. QED
      BY <2>1, <1>1, MailedGrows DEF IInv
  <1>4. TypeOK'
    <2>1. faults' \in 0..MaxFaults
      BY FaultCounted DEF IInv, FailToSend
    <2>2. QED
      BY <1>2, <1>3, <2>1 DEF IInv, TypeOK, FailToSend, Conclude, herald, SenderRow
  <1>5. SuccessWasMailed'
    BY <1>2, <1>3 DEF IInv, SuccessWasMailed, SendersBusy, Concluded
  <1>6. SentWasMailed'
    BY <1>3 DEF IInv, SentWasMailed, FailToSend, Conclude, herald
  <1>7. HeldWithinWait'
    BY DEF IInv, HeldWithinWait, FailToSend, Conclude, herald
  <1>8. QED
    BY <1>2, <1>4, <1>5, <1>6, <1>7 DEF IInv

\* Recording a result moves it from the results a sender knows to the attempts counted.
LEMMA RecordResultCounts ==
    ASSUME IInv, NEW s \in Senders, sender[s].phase \in Concluded, NewKey(s),
           recorded' = recorded \cup {s},
           UNCHANGED <<sender, results>>,
           \A d \in Deliveries :
              instruction'[d].attempt_count =
                 instruction[d].attempt_count + (IF d = sender[s].delivery THEN 1 ELSE 0)
    PROVE  AttemptsCountedOnce'
  <1> SUFFICES ASSUME NEW d \in Deliveries
               PROVE  (instruction[d].attempt_count + Cardinality(Unreported(d)) = results[d])'
    BY DEF AttemptsCountedOnce
  <1>1. s \notin recorded
    BY DEF NewKey
  <1>2. \A u \in Senders : u # s => sender'[u] = sender[u] /\ (u \in recorded' <=> u \in recorded)
    OBVIOUS
  <1>3. Cardinality(Unreported(d)') =
           Cardinality(Unreported(d)) - (IF d = sender[s].delivery THEN 1 ELSE 0)
    BY <1>1, <1>2, UnreportedRemoved DEF IInv
  <1>4. instruction[d].attempt_count + Cardinality(Unreported(d)) = results[d]
    BY DEF IInv, AttemptsCountedOnce
  <1>5. instruction[d].attempt_count \in Nat /\ Cardinality(Unreported(d)) \in Nat
    BY UnreportedFinite DEF IInv, TypeOK
  <1>6. QED
    BY <1>3, <1>4, <1>5

LEMMA RecordResultPreserves ==
    ASSUME IInv, NEW s \in Senders, RecordResult(s)
    PROVE  IInv'
  <1> DEFINE e == sender[s].delivery
             attempt == instruction[e].attempt_count + 1
  <1>1. sender[s].phase \in Concluded /\ NewKey(s) /\ recorded' = recorded \cup {s}
    BY DEF RecordResult, Concluded
  <1>2. UNCHANGED <<sender, results, mailed, faults>>
    BY DEF RecordResult
  <1>3. e \in Deliveries
    BY <1>1 DEF IInv, SendersBusy
  <1>4. attempt \in Nat \ {0}
    BY <1>3 DEF IInv, TypeOK
  <1>5. SendersBusy' /\ SuccessWasMailed'
    BY <1>1, <1>2 DEF IInv, SendersBusy, SuccessWasMailed, Concluded
  <1>6. \/ /\ sender[s].phase = "SENT"
           /\ instruction' = [instruction EXCEPT ![e] = [status |-> "SENT", attempt_count |-> attempt]]
           /\ UNCHANGED <<wait, held>>
        \/ /\ instruction' = [instruction EXCEPT ![e] = [status |-> "FAILED", attempt_count |-> attempt]]
           /\ wait' = [wait EXCEPT ![e] = Backoff(attempt)]
           /\ held' = [held EXCEPT ![e] = MinOf(@, Backoff(attempt))]
        \/ /\ instruction' = [instruction EXCEPT ![e].attempt_count = attempt]
           /\ UNCHANGED <<wait, held>>
    BY DEF RecordResult, Reported
  <1>7. /\ instruction' \in [Deliveries -> InstructionRow]
        /\ \A d \in Deliveries : d # e => instruction'[d] = instruction[d]
        /\ instruction'[e].attempt_count = attempt
        /\ instruction'[e].status = "SENT" => sender[s].phase = "SENT" \/ instruction[e].status = "SENT"
    <2>1. instruction \in [Deliveries -> InstructionRow]
      BY DEF IInv, TypeOK, InstructionRow
    <2>2. PICK row \in InstructionRow :
             /\ instruction' = [instruction EXCEPT ![e] = row]
             /\ row.attempt_count = attempt
             /\ row.status = "SENT" => sender[s].phase = "SENT" \/ instruction[e].status = "SENT"
      <3>1. CASE /\ sender[s].phase = "SENT"
                 /\ instruction' = [instruction EXCEPT ![e] = [status |-> "SENT", attempt_count |-> attempt]]
        <4>1. [status |-> "SENT", attempt_count |-> attempt] \in InstructionRow
          BY <1>4 DEF InstructionRow, Statuses
        <4>2. QED
          BY <3>1, <4>1
      <3>2. CASE instruction' = [instruction EXCEPT ![e] = [status |-> "FAILED", attempt_count |-> attempt]]
        <4>1. [status |-> "FAILED", attempt_count |-> attempt] \in InstructionRow
          BY <1>4 DEF InstructionRow, Statuses
        <4>2. QED
          BY <3>2, <4>1
      <3>3. CASE instruction' = [instruction EXCEPT ![e].attempt_count = attempt]
        <4>1. instruction' = [instruction EXCEPT ![e] = [@ EXCEPT !.attempt_count = attempt]]
          BY <3>3
        <4>2. [instruction[e] EXCEPT !.attempt_count = attempt] \in InstructionRow
          BY <2>1, <1>3, <1>4 DEF InstructionRow
        <4>3. [instruction[e] EXCEPT !.attempt_count = attempt].attempt_count = attempt
          BY <2>1, <1>3 DEF InstructionRow
        <4>4. [instruction[e] EXCEPT !.attempt_count = attempt].status = instruction[e].status
          BY <2>1, <1>3 DEF InstructionRow
        <4>5. QED
          BY <4>1, <4>2, <4>3, <4>4
      <3>4. QED
        BY <1>6, <3>1, <3>2, <3>3
    <2> HIDE DEF e, attempt
    <2>3. QED
      BY <2>1, <2>2, <1>3
  <1>8. AttemptsCountedOnce'
    BY <1>1, <1>2, <1>7, RecordResultCounts DEF IInv, TypeOK
  <1>9. SentWasMailed'
    <2> SUFFICES ASSUME NEW d \in Deliveries, instruction'[d].status = "SENT"
                 PROVE  mailed[d] > 0
      BY <1>2 DEF SentWasMailed
    <2>1. CASE d = e
      BY <2>1, <1>7 DEF IInv, SentWasMailed, SuccessWasMailed
    <2>2. CASE d # e
      BY <2>2, <1>7 DEF IInv, SentWasMailed
    <2>3. QED
      BY <2>1, <2>2
  <1>10. /\ wait' \in [Deliveries -> LongestWait]
         /\ held' \in [Deliveries -> LongestWait]
         /\ HeldWithinWait'
    <2>1. Backoff(attempt) \in LongestWait
      BY <1>4, BackoffInRange
    <2>2. wait \in [Deliveries -> LongestWait] /\ held \in [Deliveries -> LongestWait]
      BY DEF IInv, TypeOK
    <2>3. MinOf(held[e], Backoff(attempt)) \in LongestWait
          /\ MinOf(held[e], Backoff(attempt)) <= Backoff(attempt)
      BY <2>1, <2>2, <1>3, MinOfRange
    <2> HIDE DEF e, attempt
    <2>4. QED
      BY <1>3, <1>6, <2>1, <2>2, <2>3 DEF IInv, HeldWithinWait
  <1>11. TypeOK'
    <2>1. recorded' \subseteq Senders
      BY <1>1 DEF IInv, TypeOK
    <2>2. QED
      BY <1>2, <1>7, <1>10, <2>1 DEF IInv, TypeOK, InstructionRow
  <1>12. QED
    BY <1>5, <1>8, <1>9, <1>10, <1>11 DEF IInv

\* What both endings of a sender's work have in common.
LEMMA RestKnowsLess ==
    ASSUME IInv, NEW s \in Senders, Rest(s),
           \A u \in recorded' : u # s /\ u \in recorded,
           \A d \in Deliveries : mailed[d] > 0 => mailed'[d] > 0
    PROVE  /\ sender' \in [Senders -> SenderRow]
           /\ sender'[s].phase \notin Concluded
           /\ \A u \in Senders : u # s => sender'[u] = sender[u]
           /\ SendersBusy'
           /\ SuccessWasMailed'
  <1>1. /\ sender' \in [Senders -> SenderRow]
        /\ sender'[s].phase \in {"idle", "ended"}
        /\ \A u \in Senders : u # s => sender'[u] = sender[u]
    BY RestTyped DEF IInv
  <1>2. SendersBusy'
    BY <1>1 DEF IInv, TypeOK, SendersBusy, Concluded
  <1>3. SuccessWasMailed'
    BY <1>1 DEF IInv, SuccessWasMailed, SendersBusy, Concluded
  <1>4. QED
    BY <1>1, <1>2, <1>3 DEF Concluded

LEMMA AcknowledgePreserves ==
    ASSUME IInv, NEW s \in Senders, Acknowledge(s)
    PROVE  IInv'
  <1>1. s \in recorded /\ recorded' = recorded \ {s} /\ Rest(s)
    BY DEF Acknowledge
  <1>2. UNCHANGED <<instruction, wait, held, results, mailed, faults>>
    BY DEF Acknowledge
  <1>3. /\ sender' \in [Senders -> SenderRow]
        /\ sender'[s].phase \notin Concluded
        /\ \A u \in Senders : u # s => sender'[u] = sender[u]
        /\ SendersBusy' /\ SuccessWasMailed'
    BY <1>1, <1>2, RestKnowsLess
  <1>4. AttemptsCountedOnce'
    <2>1. \A d \in Deliveries : Unreported(d)' = Unreported(d)
      BY <1>1, <1>3, UnreportedSame
    <2>2. QED
      BY <2>1, <1>2 DEF IInv, AttemptsCountedOnce
  <1>5. TypeOK'
    BY <1>1, <1>2, <1>3 DEF IInv, TypeOK, SenderRow
  <1>6. SentWasMailed' /\ HeldWithinWait'
    BY <1>2 DEF IInv, SentWasMailed, HeldWithinWait
  <1>7. QED
    BY <1>3, <1>4, <1>5, <1>6 DEF IInv

LEMMA CrashPreserves ==
    ASSUME IInv, NEW s \in Senders, Crash(s)
    PROVE  IInv'
  <1> DEFINE e == sender[s].delivery
  <1>1. s \notin recorded /\ Rest(s) /\ UNCHANGED <<instruction, wait, recorded, held>>
    BY DEF Crash, herald
  <1>2. e \in Deliveries
    BY DEF IInv, SendersBusy, Crash, Concluded
  <1>3. faults' \in 0..MaxFaults
    BY FaultCounted DEF IInv, Crash
  <1>4. /\ mailed' \in [Deliveries -> Nat]
        /\ \A d \in Deliveries : mailed[d] > 0 => mailed'[d] > 0
    <2>1. \/ mailed' = [mailed EXCEPT ![e] = @ + 1]
          \/ UNCHANGED mailed
      BY DEF Crash
    <2> HIDE DEF e
    <2>2. QED
      BY <2>1, <1>2, MailedGrows DEF IInv
  <1>5. /\ sender' \in [Senders -> SenderRow]
        /\ sender'[s].phase \notin Concluded
        /\ \A u \in Senders : u # s => sender'[u] = sender[u]
        /\ SendersBusy' /\ SuccessWasMailed'
    BY <1>1, <1>4, RestKnowsLess
  <1>6. results' \in [Deliveries -> Nat] /\ AttemptsCountedOnce'
    <2>1. CASE sender[s].phase = "sending" /\ UNCHANGED results
      <3>1. \A d \in Deliveries : Unreported(d)' = Unreported(d)
        BY <1>1, <1>5, <2>1, UnreportedSame DEF Concluded
      <3>2. QED
        BY <3>1, <1>1, <2>1 DEF IInv, TypeOK, AttemptsCountedOnce
    <2>2. CASE sender[s].phase \in Concluded /\ results' = [results EXCEPT ![e] = @ - 1]
      <3>1. \A d \in Deliveries :
               /\ Cardinality(Unreported(d)') = Cardinality(Unreported(d)) - (IF d = e THEN 1 ELSE 0)
               /\ d = e => Cardinality(Unreported(d)) > 0
        BY <1>1, <1>5, <2>2, UnreportedRemoved DEF IInv
      <3>2. \A d \in Deliveries :
               /\ instruction[d].attempt_count \in Nat /\ Cardinality(Unreported(d)) \in Nat
               /\ instruction[d].attempt_count + Cardinality(Unreported(d)) = results[d]
        BY UnreportedFinite DEF IInv, TypeOK, AttemptsCountedOnce
      <3>3. results \in [Deliveries -> Nat]
        BY DEF IInv, TypeOK
      <3>4. results[e] > 0
        BY <1>2, <3>1, <3>2
      <3>5. results[e] - 1 \in Nat
        BY <1>2, <3>3, <3>4
      <3> HIDE DEF e
      <3>6. results' \in [Deliveries -> Nat]
        BY <2>2, <1>2, <3>3, <3>5
      <3>7. \A d \in Deliveries : results'[d] = results[d] - (IF d = e THEN 1 ELSE 0)
        BY <2>2, <1>2, <3>3
      <3>8. AttemptsCountedOnce'
        BY <1>1, <3>1, <3>2, <3>7 DEF AttemptsCountedOnce
      <3>9. QED
        BY <3>6, <3>8
    <2>3. QED
      BY <2>1, <2>2 DEF Crash, Concluded
  <1>7. TypeOK'
    BY <1>1, <1>3, <1>4, <1>5, <1>6 DEF IInv, TypeOK, SenderRow
  <1>8. SentWasMailed' /\ HeldWithinWait'
    BY <1>1, <1>4 DEF IInv, SentWasMailed, HeldWithinWait
  <1>9. QED
    BY <1>5, <1>6, <1>7, <1>8 DEF IInv

LEMMA TickPreserves ==
    ASSUME IInv, Tick
    PROVE  IInv'
  <1>1. UNCHANGED <<instruction, sender, recorded, results, mailed, faults>>
    BY DEF Tick
  <1>2. \A n \in LongestWait : (IF n > 0 THEN n - 1 ELSE 0) \in LongestWait
    BY TimeAssumption DEF LongestWait
  <1>3. wait' \in [Deliveries -> LongestWait] /\ held' \in [Deliveries -> LongestWait]
    BY <1>2 DEF IInv, TypeOK, Tick
  <1>4. HeldWithinWait'
    <2> SUFFICES ASSUME NEW d \in Deliveries PROVE (held[d] <= wait[d])'
      BY DEF HeldWithinWait
    <2>1. held[d] \in Nat /\ wait[d] \in Nat /\ held[d] <= wait[d]
      BY DelaysAreNat DEF IInv, TypeOK, HeldWithinWait
    <2>2. /\ wait'[d] = IF wait[d] > 0 THEN wait[d] - 1 ELSE 0
          /\ held'[d] = IF held[d] > 0 THEN held[d] - 1 ELSE 0
      BY DEF Tick
    <2>3. QED
      BY <2>1, <2>2
  <1>5. TypeOK'
    BY <1>1, <1>3 DEF IInv, TypeOK
  <1>6. AttemptsCountedOnce'
    <2>1. \A d \in Deliveries : Unreported(d)' = Unreported(d)
      BY <1>1, UnreportedUnchanged
    <2>2. QED
      BY <2>1, <1>1 DEF IInv, AttemptsCountedOnce
  <1>7. SendersBusy' /\ SuccessWasMailed' /\ SentWasMailed'
    BY <1>1 DEF IInv, SendersBusy, SuccessWasMailed, SentWasMailed
  <1>8. QED
    BY <1>4, <1>5, <1>6, <1>7 DEF IInv

LEMMA StutteringPreserves ==
    ASSUME IInv, UNCHANGED vars
    PROVE  IInv'
  <1> USE DEF vars
  <1>1. TypeOK' /\ SendersBusy' /\ SuccessWasMailed' /\ SentWasMailed' /\ HeldWithinWait'
    BY DEF IInv, TypeOK, SendersBusy, SuccessWasMailed, SentWasMailed, HeldWithinWait
  <1>2. \A d \in Deliveries : Unreported(d)' = Unreported(d)
    BY UnreportedUnchanged
  <1>3. AttemptsCountedOnce'
    BY <1>2 DEF IInv, AttemptsCountedOnce
  <1>4. QED
    BY <1>1, <1>3 DEF IInv

LEMMA NextPreserves ==
    ASSUME IInv, [Next]_vars
    PROVE  IInv'
  <1>1. CASE \E d \in Deliveries : Enqueue(d)
    BY <1>1, EnqueuePreserves
  <1>2. CASE \E w \in Workflows, d \in Deliveries : Instruct(w, d)
    BY <1>2, InstructPreserves
  <1>3. CASE \E p \in Pollers, d \in Deliveries : Claim(p, d)
    BY <1>3, ClaimPreserves
  <1>4. CASE \E s \in Senders :
                Send(s) \/ FailToSend(s) \/ RecordResult(s) \/ Acknowledge(s) \/ Crash(s)
    BY <1>4, SendPreserves, FailToSendPreserves, RecordResultPreserves, AcknowledgePreserves,
       CrashPreserves
  <1>5. CASE Tick
    BY <1>5, TickPreserves
  <1>6. CASE UNCHANGED vars
    BY <1>6, StutteringPreserves
  <1>7. QED
    BY <1>1, <1>2, <1>3, <1>4, <1>5, <1>6 DEF Next

-----------------------------------------------------------------------------

\* The inductive invariant holds in every state the outbox and its senders reach.
THEOREM Invariance == Spec => []IInv
  <1>1. Init => IInv
    BY InitEstablishes
  <1>2. IInv /\ [Next]_vars => IInv'
    BY NextPreserves
  <1>3. QED
    BY <1>1, <1>2, PTL DEF Spec

\* Every row, timer and counter keeps its type: no backoff and no claim ever puts an
\* instruction off beyond the longest delay the code knows.
THEOREM TypeCorrect == Spec => []TypeOK
  <1>1. IInv => TypeOK
    BY DEF IInv
  <1>2. QED
    BY <1>1, Invariance, PTL

\* record_result counts the result of every attempt that reaches Herald exactly once,
\* for any number of senders, repeated reports and crashes.
THEOREM CountedOnce == Spec => []AttemptsCountedOnce
  <1>1. IInv => AttemptsCountedOnce
    BY DEF IInv
  <1>2. QED
    BY <1>1, Invariance, PTL

\* An instruction is only shown as sent if an email left the mailbox for it.
THEOREM SentMailed == Spec => []SentWasMailed
  <1>1. IInv => SentWasMailed
    BY DEF IInv
  <1>2. QED
    BY <1>1, Invariance, PTL

\* pending gives a claimed instruction to nobody else before its claim ran out.
THEOREM ClaimsRespected == Spec => []ClaimRespected
  <1>1. ASSUME IInv PROVE ClaimRespected
    <2> SUFFICES ASSUME NEW d \in Deliveries, Due(d) PROVE held[d] = 0
      BY DEF ClaimRespected
    <2>1. held[d] \in Nat /\ held[d] <= wait[d]
      BY <1>1, DelaysAreNat DEF IInv, TypeOK, HeldWithinWait
    <2>2. QED
      BY <2>1 DEF Due
  <1>2. QED
    BY <1>1, Invariance, PTL

\* A report that arrives after a success was recorded does not undo it.
THEOREM SentStaysSent == Spec => SentIsFinal
  <1> DEFINE Kept == \A d \in Deliveries :
                        instruction[d].status = "SENT" => instruction'[d].status = "SENT"
  <1>1. IInv /\ [Next]_vars => [Kept]_vars
    <2> SUFFICES ASSUME IInv, Next, NEW d \in Deliveries, instruction[d].status = "SENT"
                 PROVE  instruction'[d].status = "SENT"
      OBVIOUS
    <2>1. CASE \E e \in Deliveries : Enqueue(e)
      BY <2>1 DEF Enqueue, IInv, TypeOK
    <2>2. CASE \E s \in Senders : RecordResult(s)
      BY <2>2 DEF RecordResult, FailureCounts, IInv, TypeOK
    <2>3. CASE UNCHANGED instruction
      BY <2>3
    <2>4. QED
      BY <2>1, <2>2, <2>3 DEF Next, Instruct, Claim, Send, FailToSend, Conclude, Acknowledge,
         Crash, Tick, herald
  <1>2. QED
    BY <1>1, Invariance, PTL DEF Spec, SentIsFinal

\* pending hands no poller an instruction that a success was recorded for.
THEOREM SentNotOffered == Spec => SentNotHandedOut
  <1> DEFINE Refused == \A p \in Pollers, d \in Deliveries :
                           /\ sender[p] = Idle
                           /\ sender'[p].delivery = d
                           => instruction[d].status # "SENT"
  <1>1. IInv /\ [Next]_vars => [Refused]_vars
    <2> SUFFICES ASSUME IInv, Next, NEW p \in Pollers, NEW d \in Deliveries,
                        sender[p] = Idle, sender'[p].delivery = d
                 PROVE  instruction[d].status # "SENT"
      OBVIOUS
    <2>1. p \in Senders /\ d # NoDelivery /\ sender[p].delivery = NoDelivery
          /\ sender[p].phase = "idle"
      BY NoDeliveryAssumption DEF Idle, Senders
    <2>2. CASE UNCHANGED sender
      BY <2>1, <2>2
    <2>3. CASE \E w \in Workflows, e \in Deliveries : Instruct(w, e)
      BY <2>1, <2>3, SendersAssumption DEF Instruct, Begin, IInv, TypeOK
    <2>4. CASE \E q \in Pollers, e \in Deliveries : Claim(q, e)
      BY <2>1, <2>4 DEF Claim, Begin, Due, Selected, IInv, TypeOK, Senders
    <2>5. CASE \E s \in Senders : Send(s) \/ FailToSend(s)
      BY <2>1, <2>5 DEF Send, FailToSend, Conclude, IInv, TypeOK
    <2>6. CASE \E s \in Senders : Acknowledge(s) \/ Crash(s)
      <3>1. PICK s \in Senders : Acknowledge(s) \/ Crash(s)
        BY <2>6
      <3>2. Rest(s) /\ s # p
        BY <3>1, <2>1 DEF Acknowledge, Crash, IInv, SendersBusy, Concluded
      <3>3. sender'[p] = sender[p]
        BY <3>2, <2>1, RestTyped DEF IInv
      <3>4. QED
        BY <3>3, <2>1
    <2>7. QED
      BY <2>2, <2>3, <2>4, <2>5, <2>6 DEF Next, Enqueue, RecordResult, Tick
  <1>2. QED
    BY <1>1, Invariance, PTL DEF Spec, SentNotHandedOut

=============================================================================
