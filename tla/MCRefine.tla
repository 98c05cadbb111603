------------------------------- MODULE MCRefine -------------------------------
(* Instances of Refine for TLC.  The bodies: "long" has two paragraphs,      *)
(* "short" is shorter than any pointer, "huge" and "giant" are core entries  *)
(* that are promoted at any fill of MEMORY.md, one at a time and under the   *)
(* code that "long" uses, "mid" one that is promoted beside "long", where    *)
(* MEMORY.md is near its limit.                                              *)
EXTENDS Refine

MCParas == [b \in Body |-> IF b = "long" THEN <<"l1", "l2">> ELSE <<b>>]
MCChars == [b \in Body |-> CASE b = "short" -> 30 [] b = "long" -> 600 [] b = "huge" -> 320
                              [] b = "giant" -> 310 [] b = "mid" -> 150]
MCLine  == [b \in Body |-> CASE b = "short" -> 30 [] b = "long" -> 90 [] b = "huge" -> 320
                              [] b = "giant" -> 80 [] b = "mid" -> 60]
MCBase  == [b \in Body |-> "x"]
MCCode  == {"x"} \X (1..2 * MaxEntries)
X       == <<"x", 1>>
MCCores == {"huge", "giant", "mid"}
MCLearned == {Coded(X, b) : b \in Body \ MCCores} \cup {Core(b) : b \in Body \cap MCCores}
===============================================================================
