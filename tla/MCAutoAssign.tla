---------------------------- MODULE MCAutoAssign ----------------------------
(* Instances of AutoAssign for TLC.                                        *)
EXTENDS AutoAssign, TLC

CONSTANTS c1, c2, c3, a1, a2

\* One agent everybody may be routed to, one conversation at a time.
OneAgentLimit == [a \in {a1} |-> 1]
OneAgentTiers == [c \in Conv |-> <<{a1}>>]
OneAgentQualified == [c \in Conv |-> {a1}]

\* c1 asks for a skill in a department: first a1, then the department's a2,
\* then anyone; c2 requires a skill only a2 has.
TwoAgentLimit == [a \in {a1, a2} |-> 1]
TwoAgentTiers == [c \in Conv |-> IF c = c1 THEN <<{a1}, {a2}, {a1, a2}>> ELSE <<{a2}>>]
TwoAgentQualified == [c \in Conv |-> IF c = c1 THEN {a1} ELSE {a2}]

Executions == Permutations(Worker)

\* The conversations of the one-agent instance differ in nothing either.
ExecutionsAndRows == Executions \cup Permutations(Conv)
=============================================================================
