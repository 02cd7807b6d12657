----------------------------- MODULE ReviewQueue -----------------------------
(***************************************************************************)
(* What Scout promises to the people who review its findings, with no      *)
(* database under it: whatever an approved source says enters the queue    *)
(* once, however often and however concurrently it is discovered; a person *)
(* promotes it, which makes exactly one initiative, or dismisses it; and   *)
(* neither decision is ever taken back, by a person or by a rediscovery.   *)
(* Module Scout is shown to implement it.                                  *)
(***************************************************************************)
EXTENDS Naturals

CONSTANT Sources

VARIABLES
    queue,      \* what the queue says of each source
    made        \* the number of initiatives made for each source

queueVars == <<queue, made>>

QueueInit ==
    /\ queue = [s \in Sources |-> "UNKNOWN"]
    /\ made = [s \in Sources |-> 0]

\* A batch is found and enters the queue as a whole.
Find(batch) ==
    /\ \A s \in batch : queue[s] = "UNKNOWN"
    /\ queue' = [s \in Sources |-> IF s \in batch THEN "DISCOVERED" ELSE queue[s]]
    /\ UNCHANGED made

MakeInitiative(s) ==
    /\ queue[s] = "DISCOVERED"
    /\ queue' = [queue EXCEPT ![s] = "PROMOTED"]
    /\ made' = [made EXCEPT ![s] = @ + 1]

TurnDown(s) ==
    /\ queue[s] = "DISCOVERED"
    /\ queue' = [queue EXCEPT ![s] = "DISMISSED"]
    /\ UNCHANGED made

QueueNext ==
    \/ \E batch \in SUBSET Sources : Find(batch)
    \/ \E s \in Sources : MakeInitiative(s) \/ TurnDown(s)

QueueSpec == QueueInit /\ [][QueueNext]_queueVars
=============================================================================
