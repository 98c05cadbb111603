------------------------------- MODULE MCSession ------------------------------
(* Session for TLC: of the two limits only the order matters, and it is the *)
(* code's (7 and 14 days).                                                  *)
EXTENDS Session
===============================================================================
