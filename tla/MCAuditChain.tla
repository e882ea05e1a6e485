---------------------------- MODULE MCAuditChain ----------------------------
(* Instances of AuditChain for TLC. *)
EXTENDS ChainVerify

CONSTANTS sdk, ingest, openclaw, unsealed, cli

KindOf == sdk      :> "sdk"      @@ ingest   :> "ingest" @@
          openclaw :> "openclaw" @@ unsealed :> "unsealed" @@ cli :> "cli"

MCKind == [p \in Proc |-> KindOf[p]]

\* A store written by psy-core v0.1, which had no sealed head: one row.
LegacyRow == [seq |-> 1, draft |-> [call |-> CHOOSE c \in Calls : TRUE, phase |-> "intent"],
              prev |-> Genesis]
LegacyInit ==
    /\ events = {LegacyRow} /\ segments = <<>> /\ archives = [f \in {} |-> {}]
    /\ meta = [last_seq |-> 1, chain_head_hash |-> Hash(LegacyRow)]
    /\ head = Genesis
    /\ lock = Free
    /\ pc = [p \in Proc |-> "idle"]
    /\ draft = [p \in Proc |-> NoDraft]
    /\ seen = [p \in Proc |-> Genesis]
    /\ path = [p \in Proc |-> <<0, 0>>]
    /\ target = [p \in Proc |-> Genesis]
    /\ sealer = [p \in Proc |-> InitialSealer(p)]
    /\ result = [p \in Proc |-> "none"]
    /\ faults = 0
LegacySpec == LegacyInit /\ [][Next]_vars
=============================================================================
