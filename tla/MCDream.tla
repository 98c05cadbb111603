------------------------------- MODULE MCDream -------------------------------
(* Instances of Dream for TLC: entries that are their own bodies, or not.   *)
EXTENDS Dream

MCBody == [e \in Entry |-> e]

(* Entries <<header, body>>: a text under two headers, another, and none.    *)
MCStamped == {<<1, "x">>, <<2, "x">>, <<1, "y">>, <<1, "">>}
MCBodyOfStamped == [e \in Entry |-> e[2]]
===============================================================================
