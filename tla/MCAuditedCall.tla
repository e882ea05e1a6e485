---------------------------- MODULE MCAuditedCall -----------------------------
(* Instances of AuditedCall for TLC. *)
EXTENDS AuditedCall

CONSTANTS host, other

MCKind  == [p \in Proc |-> "sdk"]
MCOwner == [c \in Calls |-> host]
===============================================================================
