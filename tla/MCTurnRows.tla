----------------------------- MODULE MCTurnRows -----------------------------
(* TurnRows with two turns of RisuAI's and one inserted here: the inserted *)
(* row can stand before, between or behind them.                           *)
EXTENDS TurnRows

CONSTANTS
  Padded,      \* a text with blank lines around it
  Trimmed      \* the same text without them

RisuSymmetry == Permutations(RisuIds)
ToMarkdown == [b \in Bodies |-> IF b = Padded THEN Trimmed ELSE b]
=============================================================================
