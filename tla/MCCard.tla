------------------------------- MODULE MCCard -------------------------------
(* Card with one field and three texts, of which RisuAI starts with two    *)
(* greetings; another bot's checkpoint holds two, one of them new.         *)
EXTENDS Card

CONSTANT Desc

AllTexts == 1 .. 3
OneField == {Desc}
C(d, list) == [field |-> [f \in OneField |-> d], greet |-> list]
SomeCards == {C(1, <<1, 2>>)}
SomeMates == {C(2, <<3, 1>>)}
=============================================================================
