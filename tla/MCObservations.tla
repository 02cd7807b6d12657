---------------------------- MODULE MCObservations ----------------------------
(* Small instances of Observations for TLC. *)
EXTENDS Observations, TLC

CONSTANTS i1, t1, t2, t3, a1, p1, p2, b1, b2, k1, k2

Latency == <<i1, "latency">>

\* The same measure, governed or only recorded.
LatencyDefinitions ==
    {[metric_type |-> type, direction |-> "AT_MOST", threshold |-> 2, source_system |-> "monitor"]
        : type \in {"SLO", "VALUE"}}

\* A breach, and one that was measured earlier; each can be reported twice.
Reported ==
    {[idempotency_key |-> k1, metric |-> Latency, value |-> 3, observed_at |-> 2, source_system |-> "monitor"],
     [idempotency_key |-> k2, metric |-> Latency, value |-> 3, observed_at |-> 1, source_system |-> "monitor"]}

Symmetry ==
    Permutations(Transitions) \cup Permutations(Evaluations) \cup Permutations(Reports)
=============================================================================
