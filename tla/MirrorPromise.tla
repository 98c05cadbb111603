----------------------------- MODULE MirrorPromise -----------------------------
(* What the mirror log and its archive promise together (README.md:132,     *)
(* dream.py:283-284): they are a set of texts to which a memory write adds  *)
(* and from which nothing, a consolidation least of all, ever takes away.   *)
(* The promise is off once a second writer has met a compaction.            *)
CONSTANT Body
VARIABLES
    known,   \* the texts found in the mirror or in the archive
    kept     \* no second writer so far

Init == known = {} /\ kept = TRUE

Learn == (\E bs \in SUBSET Body : known' = known \cup bs) /\ UNCHANGED kept

(* Whatever becomes of the texts then. *)
Break == kept' = FALSE

Spec == Init /\ [][Learn \/ Break]_<<known, kept>>
===============================================================================
