--------------------------- MODULE MCReasoningChat ---------------------------
(***************************************************************************)
(* An instance of ReasoningChat for TLC: messages that fit the context and *)
(* one that fills it, over connections that break.                         *)
(***************************************************************************)
EXTENDS ReasoningChat

\* One message of which the edge may think more than it has, and one that fills
\* the window however it is counted.
MCTokens == [p \in Prompts |-> IF p = 7 THEN 2 ELSE 5]
=============================================================================
