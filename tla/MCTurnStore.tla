---------------------------- MODULE MCTurnStore ----------------------------
(* TurnStore with one turn of RisuAI's, one inserted here and three texts: *)
(* enough for a baseline, a working copy and an upload that all differ.    *)
EXTENDS TurnStore

CONSTANTS
  Padded,      \* a text with blank lines around it
  Trimmed      \* the same text without them

ToMarkdown == [b \in Bodies |-> IF b = Padded THEN Trimmed ELSE b]
=============================================================================
