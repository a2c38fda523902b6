--------------------------- MODULE MCConversation ---------------------------
(* Instances of Conversation for TLC.                                      *)
EXTENDS Conversation, TLC

CONSTANTS m1, m2, bye

\* Messages of the same kind differ in nothing.
Interchangeable == Permutations(Msg \ Goodbye)
=============================================================================
