------------------------------ MODULE MCBackfill ------------------------------
(* Instances of Backfill for TLC: a history with a blank row and, at the    *)
(* end, a text that was there before.                                        *)
EXTENDS Backfill, TLC

MCSymmetry == Permutations(Proc)

MCContent ==
    [r \in 1..MaxRows |-> CASE r = 1 -> "blank" [] r = 3 -> "d2" [] OTHER -> "d1"]
===============================================================================
