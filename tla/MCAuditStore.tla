----------------------------- MODULE MCAuditStore -----------------------------
(* Legacy files for the audit store.                                       *)
EXTENDS AuditStore

(* A blank line, or one that was cut short, between two measurements.      *)
MCLegacy == <<"good", "noise", "good">>

===============================================================================
