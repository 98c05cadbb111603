------------------------------ MODULE MCPrefetch ------------------------------
(* An instance of Prefetch for TLC.  The microfile "a" has two versions, m1  *)
(* and m2, and shares terms with the log and a turn.  Hot zone h1 makes an   *)
(* echo of m1 and the log, but not of m2, and is as long as h0.  The long    *)
(* query is matched by one term in four, enough for a microfile only.        *)
EXTENDS Prefetch

MCSays == [r \in Ref |-> CASE r[1] = "microfile" -> {"m1", "m2"}
                           [] r[1] = "mirror" -> {"r1"}
                           [] OTHER -> {"t1"}]
MCSize == [h \in HotText |-> IF h = "h2" THEN 6 ELSE 5]
MCTerms == [x \in Text \cup HotText \cup Query |->
              CASE x = "m1" -> {1, 2}    [] x = "m2" -> {1, 3, 5}
                [] x = "r1" -> {1, 6}    [] x = "t1" -> {1, 7, 8}
                [] x = "h0" -> {9}       [] x = "h1" -> {1, 2}    [] x = "h2" -> {3}
                [] x = "q1" -> {1}       [] OTHER -> {1, 2, 3, 4}]
MCHeadTerms == [t \in Text |-> IF t = "t1" THEN {7} ELSE MCTerms[t]]
MCFinds == [q \in Query |-> {t \in Text : MCTerms[q] \cap MCTerms[t] # {}}]
===============================================================================
