---------------------------- MODULE MCAuditReaders ----------------------------
(* Instances of AuditReaders for TLC. *)
EXTENDS AuditReaders

CONSTANTS ingest

MCKind == [p \in Proc |-> "ingest"]
===============================================================================
