---------------------------- MODULE MCTurnSync ----------------------------
(* TurnSync on one turn of RisuAI's and one inserted in the panel.         *)
EXTENDS TurnSync

CONSTANTS
  Padded,      \* a text with blank lines around it
  Trimmed      \* the same text without them

ToMarkdown == [b \in Bodies |-> IF b = Padded THEN Trimmed ELSE b]
=============================================================================
