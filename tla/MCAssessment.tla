---------------------------- MODULE MCAssessment ----------------------------
(* Small instances of Assessment for TLC: policies, texts and answers of the model. *)
EXTENDS Assessment, TLC

CONSTANTS entry, block, expect

\* The weights of DI1 in weight-set 3.1.0.
DI1Weights ==
    [ideaCompleteness |-> 10, ideaQuality |-> 40, strategicValue |-> 20,
     technicalFeasibility |-> 20, executionReadiness |-> 10]

\* A policy with the criteria of DI1 to DI2, one of each kind.
Exit(conditional, always) ==
    [role |-> (entry :> "ENTRY_CRITERION") @@ (block :> "BLOCKING_CONDITION")
                 @@ (expect :> "NEXT_STAGE_EXPECTATION"),
     conditional_if_unresolved |-> conditional, human_review_always |-> always]

\* Two entry criteria, as the reviewed exit of DI4 has.
Reviewed ==
    [role |-> (entry :> "ENTRY_CRITERION") @@ (expect :> "ENTRY_CRITERION")
                 @@ (block :> "BLOCKING_CONDITION"),
     conditional_if_unresolved |-> {}, human_review_always |-> TRUE]

\* The policy of DI5.
Monitoring ==
    [role |-> [c \in {entry, block} |-> "TERMINAL_MONITORING"],
     conditional_if_unresolved |-> {}, human_review_always |-> FALSE]

\* A document without an entry criterion.
Entryless ==
    [role |-> [c \in {block} |-> "BLOCKING_CONDITION"],
     conditional_if_unresolved |-> {}, human_review_always |-> FALSE]

Documents == {NoPolicy, Exit({expect}, FALSE), Reviewed, Monitoring, Entryless}

\* Texts by their length and by what they contain: a quantity, a baseline, an approach, and a data
\* source with people (a sponsor and signs of execution).
Contains(length, bits) ==
    [length |-> length, quantity |-> bits[1], baseline |-> bits[2], approach |-> bits[3],
     data |-> bits[4], sponsor |-> bits[4], execution |-> bits[4], clauses |-> bits[1]]

Bits == [1..4 -> BOOLEAN]
Lacking == [i \in 1..4 |-> FALSE]
Complete == [i \in 1..4 |-> i # 2]

ShortText == Contains(5, Lacking)
FullText == Contains(300, Complete)
MCTexts ==
    {Contains(20, b) : b \in {Lacking, [Lacking EXCEPT ![1] = TRUE]}}
        \cup {Contains(100, b) : b \in {x \in Bits : x[2] => x[1]}}
        \cup {ShortText, FullText, Contains(1300, Complete)}

\* The rubric treats all criteria alike: for policies with criteria a full text is enough.
MCSituations ==
    [mode : {"rubric"}, policy : {NoPolicy}, written : {ShortText}]
        \cup [mode : {"rubric"}, policy : {Exit({expect}, FALSE), Entryless}, written : {FullText}]
        \cup [mode : {"llm"}, policy : Documents, written : {FullText}]

\* Dimension values: one unknown if a criterion is, otherwise apart or alike.
MCValues(findings) ==
    [d \in Dimensions |->
        IF d = "ideaQuality" /\ \E c \in DOMAIN findings : findings[c].state = "UNKNOWN" THEN Unscored
        ELSE IF d = "strategicValue" /\ \E c \in DOMAIN findings : findings[c].state = "CONCERN" THEN 15
        ELSE 81]

\* Answers about all criteria, about too few and about none.
MCOutputs ==
    {[findings |-> f, values |-> MCValues(f)] :
        f \in UNION {[ids -> Finding] : ids \in {{}, {block}, {entry, block}, {entry, block, expect}}}}

MCDurations == {290, 300, 700}

=============================================================================
