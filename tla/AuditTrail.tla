------------------------------ MODULE AuditTrail ------------------------------
(***************************************************************************)
(* What a psy-core store promises its readers, with no database in it: a   *)
(* log that only ever grows at its end, and a witness (the sealed head)    *)
(* that names some entry the log really holds.                             *)
(*                                                                         *)
(* AuditChain implements this specification: the log is read off the       *)
(* archives and the active table together, the witness off head.json.      *)
(***************************************************************************)
EXTENDS Naturals, Sequences

CONSTANTS Draft,        \* what a caller asks to have recorded
          Monotone      \* TRUE: the witness only moves forward

VARIABLES log,          \* every entry ever committed, in order
          sealed        \* position of the witness, 0 while there is none

vars == <<log, sealed>>

TrailTypeOK == log \in Seq(Draft) /\ sealed \in 0 .. Len(log)

Init == log = <<>> /\ sealed = 0

(* One entry is committed at the end; nothing before it changes. *)
Commit(d) == log' = Append(log, d) /\ UNCHANGED sealed

(* The witness is moved to an entry that is already in the log. *)
Seal(n) == /\ Monotone => n > sealed
           /\ sealed' = n
           /\ UNCHANGED log

Next == (\E d \in Draft : Commit(d)) \/ (\E n \in 1 .. Len(log) : Seal(n))

Spec == Init /\ [][Next]_vars
===============================================================================
