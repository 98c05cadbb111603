------------------------------ MODULE MCUserMind ------------------------------
(* Instances of UserMind for TLC: a turn with three preferences, one with    *)
(* the first of them in other words, and one with that after a statement     *)
(* that is none; a note that says the second one.                            *)
EXTENDS UserMind

MCKey  == [s \in Statement |->
    CASE s \in {"a", "A"} -> 1 [] s \in {"b", "n"} -> 2 [] OTHER -> 3]
MCIsPreference == [s \in Statement |-> s # "m"]
MCSays == [t \in Turn |->
    CASE t = "t1" -> <<"a", "b", "c">> [] t = "t2" -> <<"A">> [] OTHER -> <<"m", "A">>]
===============================================================================
