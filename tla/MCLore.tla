------------------------------- MODULE MCLore -------------------------------
(* Lore with two names and three texts: one entry renamed, one rewritten,  *)
(* texts that look alike and one that does not.                            *)
EXTENDS Lore

E(n, t) == [name |-> n, text |-> t]
SomeEntries == {E("a", 1), E("a", 2), E("b", 2)}
SomeAlike == ({1, 2} \X {1, 2}) \cup {<<3, 3>>}
=============================================================================
