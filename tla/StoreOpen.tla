------------------------------ MODULE StoreOpen ------------------------------
(***************************************************************************)
(* How processes get at the store before AuditChain begins: the config     *)
(* file (config.ts), the meta table that every opener completes            *)
(* (ensureSchema of store.ts, and the plugin's own in ingest-client.js),   *)
(* and the seal key (seal.ts). None of it is under a lock, and each        *)
(* statement on the meta table is a transaction of its own.                *)
(*                                                                         *)
(* A process is a run of                                                   *)
(*   "init"    psy init: makes the config, opens, marks the seal required  *)
(*   "ingest"  psy ingest: needs the config                                *)
(*   "sdk"     an Auditor without configPath: a nonce of its own           *)
(*   "plugin"  the OpenClaw plugin: a nonce of its own, its own opening    *)
(*                                                                         *)
(* A nonce is the process that drew it, the hash of a row is the row. Rows *)
(* are never rotated here, and heads are left to AuditChain.               *)
(***************************************************************************)
EXTENDS Naturals, Sequences, FiniteSets

CONSTANTS Proc, Kind,
          After,     \* processes that have opened (init: ended) before one begins
          NoConfig, NoKey,
          MaxRows    \* bound

ASSUME OpenerAssumption ==
    /\ Kind \in [Proc -> {"init", "ingest", "sdk", "plugin"}]
    /\ After \in [Proc -> SUBSET Proc]
    /\ NoKey \notin Proc /\ MaxRows \in Nat

VARIABLES config,   \* .psy.json: the nonce and the seal marker
          meta,     \* the meta table, as far as it is filled
          events,   \* the rows
          keyFile,  \* .psy/seal-key
          pc,
          mine,     \* the config each process works with
          next,     \* the meta key it is at
          read,     \* the meta table the plugin has read
          key,      \* the seal key it works with
          made,     \* it made the config or the key
          stale     \* those another psy init's write to the config has passed by

vars == <<config, meta, events, keyFile, pc, mine, next, read, key, made, stale>>

MetaKeys == <<"genesis_nonce", "genesis_hash", "chain_head_hash", "last_seq">>

GenesisHash(nonce) == [nonce |-> nonce]

Init == /\ config = NoConfig /\ keyFile = NoKey
        /\ meta = [k \in {} |-> 0] /\ events = {}
        /\ pc = [p \in Proc |-> "start"]
        /\ mine = [p \in Proc |-> [nonce |-> p, seal |-> "optional"]]
        /\ next = [p \in Proc |-> 1] /\ read = [p \in Proc |-> meta]
        /\ key = [p \in Proc |-> NoKey] /\ made = [p \in Proc |-> FALSE]
        /\ stale = {}

Goto(p, l) == pc' = [pc EXCEPT ![p] = l]

Open(p) == Goto(p, IF Kind[p] = "plugin" THEN "readMeta" ELSE "check")

Through(p) == \/ pc[p] \in {"ready", "failed"}
              \/ pc[p] \in {"key", "publish"} /\ Kind[p] # "init"

MetaComplete == DOMAIN meta = {MetaKeys[i] : i \in DOMAIN MetaKeys}

MayStart(p) == pc[p] = "start" /\ \A q \in After[p] : Through(q)

\* Whoever makes the store does it before others open it.
MayOpen(p) == \/ MetaComplete
              \/ \A q \in Proc \ {p} : pc[q] \in {"start", "write", "load", "failed"}

(* -------------------------------- config -------------------------------- *)

\* An Auditor or a plugin looks at no config.
StartWithout(p) ==
    /\ MayStart(p) /\ MayOpen(p) /\ Kind[p] \in {"sdk", "plugin"}
    /\ Open(p)
    /\ UNCHANGED <<config, stale, meta, events, keyFile, mine, next, read, key, made>>

\* psy ingest, and psy init once it has written it: loadConfig.
LoadConfig(p) ==
    /\ \/ MayStart(p) /\ Kind[p] = "ingest"
       \/ pc[p] = "load"
    /\ MayOpen(p)
    /\ stale' = stale \ {p}
    /\ IF config = NoConfig THEN Goto(p, "failed") /\ UNCHANGED mine
                            ELSE Open(p) /\ mine' = [mine EXCEPT ![p] = config]
    /\ UNCHANGED <<config, meta, events, keyFile, next, read, key, made>>

\* Mutant: the marker of the file is dropped.
NormalizedNonce(p) == [nonce |-> config.nonce, seal |-> "optional"]
\* normalizeConfig of a file that is there
Normalized(p) == config

\* psy init: initConfig up to its first await
ReadConfig(p) ==
    /\ MayStart(p) /\ Kind[p] = "init"
    /\ Goto(p, "write")
    /\ stale' = stale \ {p}
    /\ IF config = NoConfig
       THEN made' = [made EXCEPT ![p] = TRUE] /\ UNCHANGED mine
       ELSE mine' = [mine EXCEPT ![p] = Normalized(p)] /\ UNCHANGED made
    /\ UNCHANGED <<config, meta, events, keyFile, next, read, key>>

WriteConfig(p) ==
    /\ pc[p] = "write"
    /\ config' = mine[p] /\ stale' = stale \cup (Proc \ {p})
    /\ Goto(p, "load")
    /\ UNCHANGED <<meta, events, keyFile, mine, next, read, key, made>>

(* --------------------------------- meta --------------------------------- *)

Put(k, v) == meta' = [j \in DOMAIN meta \cup {k} |-> IF j = k THEN v ELSE meta[j]]

Fresh(k, nonce) == CASE k = "genesis_nonce" -> nonce
                     [] k = "last_seq"      -> 0
                     [] OTHER               -> GenesisHash(nonce)

NextKey(p) == /\ next' = [next EXCEPT ![p] = @ + 1]
              /\ IF next[p] = Len(MetaKeys) THEN Goto(p, "key") ELSE Open(p)

\* Mutant: the key is set whether it is there or not.
CheckNothing(p) ==
    /\ pc[p] = "check" /\ Goto(p, "set")
    /\ UNCHANGED <<config, stale, meta, events, keyFile, mine, next, read, key, made>>
\* PsyStore.ensureSchema: each key is looked up, and set when missing.
CheckMeta(p) ==
    /\ pc[p] = "check"
    /\ IF MetaKeys[next[p]] \in DOMAIN meta THEN NextKey(p) ELSE Goto(p, "set") /\ UNCHANGED next
    /\ UNCHANGED <<config, stale, meta, events, keyFile, mine, read, key, made>>

SetMeta(p) ==
    /\ pc[p] = "set"
    /\ LET k == MetaKeys[next[p]] IN Put(k, Fresh(k, mine[p].nonce))
    /\ NextKey(p)
    /\ UNCHANGED <<config, stale, events, keyFile, mine, read, key, made>>

\* PsyIngestStore.ensureSchema: the table is read once, each key written back.
ReadMeta(p) ==
    /\ pc[p] = "readMeta"
    /\ read' = [read EXCEPT ![p] = meta]
    /\ mine' = [mine EXCEPT ![p].nonce = IF "genesis_nonce" \in DOMAIN meta
                                         THEN meta.genesis_nonce ELSE @]
    /\ Goto(p, "writeMeta")
    /\ UNCHANGED <<config, stale, meta, events, keyFile, next, key, made>>

WriteMeta(p) ==
    /\ pc[p] = "writeMeta"
    /\ LET k == MetaKeys[next[p]]
       IN  Put(k, IF k \in DOMAIN read[p] THEN read[p][k] ELSE Fresh(k, mine[p].nonce))
    /\ next' = [next EXCEPT ![p] = @ + 1]
    /\ IF next[p] = Len(MetaKeys) THEN Goto(p, "key") ELSE UNCHANGED pc
    /\ UNCHANGED <<config, stale, events, keyFile, mine, read, key, made>>

(* --------------------------------- key ---------------------------------- *)

HasKey(p, k) == /\ key' = [key EXCEPT ![p] = k]
                /\ Goto(p, IF Kind[p] = "init" THEN "mark" ELSE "ready")

\* Sealer.bootstrap (an Auditor's is in its first record), bootstrapSealKey
FindKey(p) ==
    /\ pc[p] = "key"
    /\ IF keyFile = NoKey THEN Goto(p, "publish") /\ UNCHANGED key ELSE HasKey(p, keyFile)
    /\ UNCHANGED <<config, stale, meta, events, keyFile, mine, next, read, made>>

\* Mutant: the temporary file is renamed over the key.
RenameKey(p) ==
    /\ pc[p] = "publish"
    /\ keyFile' = p /\ HasKey(p, p) /\ made' = [made EXCEPT ![p] = TRUE]
    /\ UNCHANGED <<config, stale, meta, events, mine, next, read>>
\* writeKeyFile: a hard link, which fails when there is a key by now.
PublishKey(p) ==
    /\ pc[p] = "publish"
    /\ IF keyFile = NoKey
       THEN keyFile' = p /\ HasKey(p, p) /\ made' = [made EXCEPT ![p] = TRUE]
       ELSE HasKey(p, keyFile) /\ UNCHANGED <<keyFile, made>>
    /\ UNCHANGED <<config, stale, meta, events, mine, next, read>>

\* The end of psy init
MarkRequired(p) ==
    /\ pc[p] = "mark"
    /\ IF made[p] THEN /\ config' = [mine[p] EXCEPT !.seal = "required"]
                       /\ stale' = stale \cup (Proc \ {p})
                  ELSE UNCHANGED <<config, stale>>
    /\ Goto(p, "ready")
    /\ UNCHANGED <<meta, events, keyFile, mine, next, read, key, made>>

(* --------------------------------- rows --------------------------------- *)

\* appendOnce, appendDraft: the sequence number is the primary key.
AppendOnce(p) ==
    /\ pc[p] = "ready" /\ Kind[p] # "init" /\ Cardinality(events) < MaxRows
    /\ LET row == [seq |-> meta.last_seq + 1, prev |-> meta.chain_head_hash, by |-> p]
       IN  IF \E r \in events : r.seq = row.seq
           THEN UNCHANGED <<events, meta>>
           ELSE /\ events' = events \cup {row}
                /\ meta' = [meta EXCEPT !.last_seq = row.seq, !.chain_head_hash = row]
    /\ UNCHANGED <<config, stale, keyFile, pc, mine, next, read, key, made>>

Next == \E p \in Proc :
            \/ StartWithout(p) \/ LoadConfig(p) \/ ReadConfig(p) \/ WriteConfig(p)
            \/ CheckMeta(p) \/ SetMeta(p) \/ ReadMeta(p) \/ WriteMeta(p)
            \/ FindKey(p) \/ PublishKey(p) \/ MarkRequired(p) \/ AppendOnce(p)

Spec == Init /\ [][Next]_vars

(* ------------------------------- properties ----------------------------- *)

ConfigSet == [nonce : Proc, seal : {"optional", "required"}]

TypeOK ==
    /\ config \in ConfigSet \cup {NoConfig} /\ mine \in [Proc -> ConfigSet]
    /\ keyFile \in Proc \cup {NoKey} /\ key \in [Proc -> Proc \cup {NoKey}]
    /\ \A r \in events : r.seq \in 1 .. MaxRows /\ r.by \in Proc
    /\ \A M \in {meta} \cup {read[p] : p \in Proc} : \A k \in DOMAIN M :
          CASE k = "genesis_nonce"   -> M[k] \in Proc
            [] k = "genesis_hash"    -> M[k] \in {GenesisHash(p) : p \in Proc}
            [] k = "chain_head_hash" -> M[k] \in {GenesisHash(p) : p \in Proc} \cup events
            [] k = "last_seq"        -> M[k] \in 0 .. MaxRows
    /\ next \in [Proc -> 1 .. Len(MetaKeys) + 1] /\ made \in [Proc -> BOOLEAN]
    /\ stale \subseteq Proc

(* However many processes look for the seal key and make one, all work with   *)
(* the one on disk ("concurrent initializers converge on the key that reaches *)
(* disk first and losers reload it", SECURITY.md:49).                         *)
OneSealKey == \A p \in Proc : key[p] \in {NoKey, keyFile}

Opened == \E p \in Proc : pc[p] \in {"key", "publish", "mark", "ready"}

Row(n) == CHOOSE r \in events : r.seq = n

(* Once the store has been opened, its meta table describes it: the genesis   *)
(* hash is that of the nonce, the rows are numbered and linked from it, and   *)
(* the head is the last row. So no later opener, whatever its own nonce, may  *)
(* put anything back that appends have moved on (ensureSchema).               *)
StoreIsSound ==
    Opened =>
        LET n == Cardinality(events)
            HashAt(k) == IF k = 0 THEN meta.genesis_hash ELSE Row(k)
        IN  /\ meta.genesis_hash = GenesisHash(meta.genesis_nonce)
            /\ {r.seq : r \in events} = 1 .. n /\ meta.last_seq = n
            /\ meta.chain_head_hash = HashAt(n)
            /\ \A k \in 1 .. n : Row(k).prev = HashAt(k - 1)

(* Running psy init again, with hosts and other inits at work, keeps the      *)
(* nonce and never takes the required marker away (the test "creates          *)
(* .psy.json and preserves nonce on re-init"). Only an init that another's    *)
(* write has passed by can do that, since initConfig and the marking at the   *)
(* end read the file and write it back later, without a lock.                 *)
ConfigOnlyHardens ==
    [][config # NoConfig =>
          \/ /\ config'.nonce = config.nonce
             /\ config.seal = "required" => config'.seal = "required"
          \/ \E p \in stale : pc[p] \in {"write", "mark"} /\ pc'[p] # pc[p]]_config

(* After psy init, psy verify walks the rows from the genesis it expects: it  *)
(* takes the nonce of .psy.json (verifyStore).                                *)
VerifyStartsAtGenesis ==
    \A p \in Proc : Kind[p] = "init" /\ pc[p] = "ready" /\ events # {}
                      => Row(1).prev = GenesisHash(config.nonce)
=============================================================================
