------------------------------ MODULE AuditChain ------------------------------
(***************************************************************************)
(* The audit store of psy-core under several operating-system processes:   *)
(* the SQLite file (PsyStore, src/store.ts), its rotated archives, and the *)
(* sealed head pointer (Sealer, src/seal.ts), with the write paths that    *)
(* join them:                                                              *)
(*   "sdk"       Auditor.record, src/auditor.ts                            *)
(*   "ingest"    psy ingest, src/ingest.ts                                 *)
(*   "unsealed"  psy ingest --no-seal                                      *)
(*   "openclaw"  the plugin's own writer, ingest-client.js                 *)
(*   "cli"       psy init and psy init --migrate, src/cli.ts               *)
(*                                                                         *)
(* Node runs a write path without an await between its steps, so a process *)
(* is one thread here; the steps of two processes interleave. A step is    *)
(* what is atomic for the others: one SQLite statement or transaction, one *)
(* read or rename of head.json, one archive file.                          *)
(*                                                                         *)
(* Abstractions. A row's content is its draft. A hash is the row it is the *)
(* hash of: computeEventHash covers the sequence number and the draft, so  *)
(* distinct rows have distinct hashes. A head pointer, which is (seq,      *)
(* event_hash) under an HMAC, is therefore such a reference too. When a    *)
(* rotation is due (file size, age of the oldest row) is left open.        *)
(* The schema exists already: StoreOpen has how a store is opened.         *)
(***************************************************************************)
EXTENDS Integers, Sequences, FiniteSets

CONSTANTS Proc,              \* operating-system processes
          Kind,              \* the write path each one runs
          Calls,             \* audited calls
          Phases,            \* the phases of a row that are of interest
          NoDraft,           \* no row: the draft of the genesis reference
          Free,              \* nobody holds the SQLite write lock
          SealRequired,      \* .psy.json says seal: "required"
          ExplicitRotation,  \* hosts call PsyStore.rotateActiveSegment
          MaxSeq,            \* bound: rows written before callers stop
          MaxFaults          \* bound: crashes and I/O errors

Kinds == {"sdk", "ingest", "unsealed", "openclaw", "cli"}

Draft == [call : Calls, phase : Phases]

ASSUME KindAssumption  == Kind \in [Proc -> Kinds]
ASSUME FreeAssumption  == Free \notin Proc
\* A result row whose outcome is "unattributed" claims no intent.
ASSUME PhaseAssumption == Phases \subseteq {"intent", "result", "unattributed"}
ASSUME DraftAssumption == NoDraft \notin Draft
ASSUME FlagAssumption  == /\ SealRequired \in BOOLEAN
                          /\ ExplicitRotation \in BOOLEAN
ASSUME BoundAssumption == MaxSeq \in Nat /\ MaxFaults \in Nat

Ref     == [seq : Nat, draft : Draft \cup {NoDraft}]
Row     == [seq : Nat \ {0}, draft : Draft, prev : Ref]
Path    == Nat \X Nat
Segment == [path : Path, start_seq : Nat, end_seq : Nat,
            start_hash : Ref, end_hash : Ref]

\* genesisHash; also "no event yet", "no head pointer yet".
Genesis == [seq |-> 0, draft |-> NoDraft]

\* computeEventHash
Hash(r) == [seq |-> r.seq, draft |-> r.draft]

VARIABLES events,      \* the active events table: a set of rows keyed by seq
          meta,        \* the meta table: last_seq and chain_head_hash
          segments,    \* the rotation_segments table, by id
          archives,    \* files in the archives directory: path -> rows
          head,        \* .psy/head.json, Genesis while there is none
          lock,        \* holder of an open BEGIN IMMEDIATE, or Free
          pc,          \* where each process is in its write path
          draft,       \* the row it was asked to record
          seen,        \* the head pointer it read for its check
          path,        \* the archive path it is about to write
          target,      \* the row it is about to seal
          sealer,      \* Auditor.sealer: "unset", "null" or "ready"
          result,      \* how its last write path ended
          faults       \* crashes and I/O errors so far

shared == <<events, meta, segments, archives, head, lock>>
locals == <<draft, seen, path, target, sealer, result>>
vars   == <<events, meta, segments, archives, head, lock,
            pc, draft, seen, path, target, sealer, result, faults>>

Pcs == {"idle", "ensure", "readHead", "migrate", "compare", "adoptRead",
        "adoptRename", "lookup", "rotate", "archive", "commit", "append",
        "sealRead", "sealRename"}

Results == {"none", "ok", "broken", "failed"}

(* ------------------------------- the store ------------------------------ *)

MaxRow(R) == CHOOSE r \in R : \A s \in R : s.seq <= r.seq
MinRow(R) == CHOOSE r \in R : \A s \in R : r.seq <= s.seq

\* PsyStore.lastEvent: the newest row of the active table, whatever meta says.
LastEvent == IF events = {} THEN Genesis ELSE Hash(MaxRow(events))

\* PsyStore.findIntentSeq looks in the active table only.
IntentIsActive(c) == \E r \in events : r.draft = [call |-> c, phase |-> "intent"]

ArchivedRows == UNION {archives[segments[i].path] : i \in DOMAIN segments}
AllRows      == events \cup ArchivedRows

(* ----------------------------- control flow ----------------------------- *)

InitialSealer(p) ==
    CASE Kind[p] = "sdk"      -> "unset"
      [] Kind[p] = "unsealed" -> "null"
      [] OTHER                -> "ready"

Goto(p, l) == pc' = [pc EXCEPT ![p] = l]

\* The write path is over: it returned, or threw PsyChainBroken ("broken")
\* or another error ("failed").
End(p, how) == /\ Goto(p, "idle")
               /\ result' = [result EXCEPT ![p] = how]
               /\ draft' = [draft EXCEPT ![p] = NoDraft]

Fault == faults < MaxFaults /\ faults' = faults + 1

\* Past the seal check. Only the ingest writers go through appendResult, which
\* looks the intent up.
Unchecked(p, d) == IF Kind[p] # "sdk" /\ d.phase = "result" THEN "lookup" ELSE "rotate"
Checked(p)      == Unchecked(p, draft[p])

FirstStep(p, d) ==
    CASE sealer[p] = "unset" -> "ensure"
      [] sealer[p] = "ready" -> "readHead"
      [] sealer[p] = "null"  -> Unchecked(p, d)

\* Rows found without a head were adopted, or there are none: the Auditor still
\* runs its check, the ingest writers are past theirs.
Adopted(p) == IF Kind[p] = "sdk" THEN "readHead" ELSE Checked(p)

Init == /\ events = {} /\ segments = <<>> /\ archives = [f \in {} |-> {}]
        /\ meta = [last_seq |-> 0, chain_head_hash |-> Genesis]
        /\ head = Genesis
        /\ lock = Free
        /\ pc = [p \in Proc |-> "idle"]
        /\ draft = [p \in Proc |-> NoDraft]
        /\ seen = [p \in Proc |-> Genesis]
        /\ path = [p \in Proc |-> <<0, 0>>]
        /\ target = [p \in Proc |-> Genesis]
        /\ sealer = [p \in Proc |-> InitialSealer(p)]
        /\ result = [p \in Proc |-> "none"]
        /\ faults = 0

(* --------------------- the check before every append -------------------- *)

\* A host asks for a row: Auditor.record, appendFromEnvelope, appendEnvelope.
Begin(p, d) ==
    /\ pc[p] = "idle" /\ Kind[p] # "cli" /\ meta.last_seq < MaxSeq
    /\ Goto(p, FirstStep(p, d))
    /\ draft' = [draft EXCEPT ![p] = d]
    /\ result' = [result EXCEPT ![p] = "none"]
    /\ UNCHANGED <<shared, seen, path, target, sealer, faults>>

\* Auditor.ensureSealer up to its read of the head. sealerInitialized is set
\* first, so a bootstrap that throws leaves the sealer null for good.
EnsureSealer(p) ==
    /\ pc[p] = "ensure"
    /\ sealer' = [sealer EXCEPT ![p] = "ready"]
    /\ Goto(p, IF head = Genesis THEN "migrate" ELSE "readHead")
    /\ UNCHANGED <<shared, draft, seen, path, target, result, faults>>

BootstrapFails(p) ==
    /\ pc[p] = "ensure"
    /\ Fault
    /\ sealer' = [sealer EXCEPT ![p] = "null"]
    /\ End(p, "failed")
    /\ UNCHANGED <<shared, seen, path, target>>

\* readHead in assertSealMatchesTail. Without a head the Auditor returns at
\* once; the ingest writers look at the tail.
ReadHead(p) ==
    /\ pc[p] = "readHead"
    /\ seen' = [seen EXCEPT ![p] = head]
    /\ Goto(p, IF head # Genesis THEN "compare"
               ELSE IF Kind[p] = "sdk" THEN Checked(p) ELSE "migrate")
    /\ UNCHANGED <<shared, draft, path, target, sealer, result, faults>>

\* The plugin's writer never asks whether the seal is required.
Refuses(p) == SealRequired /\ Kind[p] # "openclaw"

\* No head: rows that were never sealed are refused or adopted.
Migrate(p) ==
    /\ pc[p] = "migrate"
    /\ \/ /\ LastEvent = Genesis
          /\ Goto(p, Adopted(p))
          /\ UNCHANGED <<draft, target, result>>
       \/ /\ LastEvent # Genesis /\ Refuses(p)
          /\ End(p, "broken")
          /\ UNCHANGED target
       \/ /\ LastEvent # Genesis /\ ~Refuses(p)
          /\ target' = [target EXCEPT ![p] = LastEvent]
          /\ Goto(p, "adoptRead")
          /\ UNCHANGED <<draft, result>>
    /\ UNCHANGED <<shared, seen, path, sealer, faults>>

\* Mutant: the tail is not compared.
SkipCompare(p) ==
    /\ pc[p] = "compare"
    /\ Goto(p, Checked(p))
    /\ seen' = [seen EXCEPT ![p] = Genesis]
    /\ UNCHANGED <<shared, draft, path, target, sealer, result, faults>>

\* The rest of assertSealMatchesTail: the head read above against the tail now.
Compare(p) ==
    /\ pc[p] = "compare"
    /\ \/ /\ seen[p] = LastEvent
          /\ Goto(p, Checked(p))
          /\ UNCHANGED <<draft, result>>
       \/ /\ seen[p] # LastEvent
          /\ End(p, "broken")
    /\ seen' = [seen EXCEPT ![p] = Genesis]
    /\ UNCHANGED <<shared, path, target, sealer, faults>>

\* PsyStore.appendResult throws when findIntentSeq finds nothing.
Lookup(p) ==
    /\ pc[p] = "lookup"
    /\ \/ /\ IntentIsActive(draft[p].call)
          /\ Goto(p, "rotate")
          /\ UNCHANGED <<draft, result>>
       \/ /\ ~IntentIsActive(draft[p].call)
          /\ End(p, "failed")
    /\ UNCHANGED <<shared, seen, path, target, sealer, faults>>

(* ------------------------------- rotation ------------------------------- *)

ArchiveName == <<MinRow(events).seq, MaxRow(events).seq>>

\* PsyStore.rotateIfNeeded: reads the rows outside any transaction and names
\* the archive after them.
RotateIfNeeded(p) ==
    /\ pc[p] = "rotate"
    /\ \/ /\ Goto(p, "append")
          /\ UNCHANGED path
       \/ /\ events # {}
          /\ path' = [path EXCEPT ![p] = ArchiveName]
          /\ Goto(p, "archive")
    /\ UNCHANGED <<shared, draft, seen, target, sealer, result, faults>>

\* PsyStore.rotateActiveSegment, for hosts that rotate by hand.
RotateActiveSegment(p) ==
    /\ ExplicitRotation
    /\ pc[p] = "idle" /\ Kind[p] = "sdk" /\ events # {}
    /\ path' = [path EXCEPT ![p] = ArchiveName]
    /\ Goto(p, "archive")
    /\ UNCHANGED <<shared, draft, seen, target, sealer, result, faults>>

\* Both callers of rotateRows continue here.
Rotated(p) == IF draft[p] = NoDraft THEN End(p, "ok")
              ELSE Goto(p, "append") /\ UNCHANGED <<draft, result>>

\* Mutant: an archive of that name is replaced.
OverwriteArchive(p) == FALSE
\* writeFileSync(..., {flag: 'wx'}) refuses a file that exists.
ArchiveExists(p) == path[p] \in DOMAIN archives

\* rotateRows under BEGIN IMMEDIATE: the rows are read again, and written to a
\* new file.
WriteArchive(p) ==
    /\ pc[p] = "archive" /\ lock = Free
    /\ \/ /\ events = {}
          /\ Rotated(p)
          /\ path' = [path EXCEPT ![p] = <<0, 0>>]
          /\ UNCHANGED <<archives, lock>>
       \/ /\ events # {} /\ ArchiveExists(p)
          /\ End(p, "failed")
          /\ path' = [path EXCEPT ![p] = <<0, 0>>]
          /\ UNCHANGED <<archives, lock>>
       \/ /\ events # {} /\ ~ArchiveExists(p)
          /\ archives' = [f \in DOMAIN archives \cup {path[p]} |->
                            IF f = path[p] THEN events ELSE archives[f]]
          /\ lock' = p
          /\ Goto(p, "commit")
          /\ UNCHANGED <<draft, result, path>>
    /\ UNCHANGED <<events, meta, segments, head, seen, target, sealer, faults>>

\* Mutant: numbering and linking start over with every segment.
FreshMeta == [last_seq |-> 0, chain_head_hash |-> Genesis]
MetaAfterRotation == [last_seq        |-> MaxRow(events).seq,
                      chain_head_hash |-> Hash(MaxRow(events))]

\* The segment is recorded, the table emptied, and the transaction committed.
CommitRotation(p) ==
    /\ pc[p] = "commit"
    /\ segments' = Append(segments,
                     [path       |-> path[p],
                      start_seq  |-> MinRow(events).seq,
                      end_seq    |-> MaxRow(events).seq,
                      start_hash |-> MinRow(events).prev,
                      end_hash   |-> Hash(MaxRow(events))])
    /\ meta' = MetaAfterRotation
    /\ events' = {}
    /\ lock' = Free
    /\ path' = [path EXCEPT ![p] = <<0, 0>>]
    /\ Rotated(p)
    /\ UNCHANGED <<archives, head, seen, target, sealer, faults>>

\* Mutant: the transaction is left open.
RotationFailsInTransaction(p) ==
    /\ pc[p] = "commit"
    /\ Fault
    /\ path' = [path EXCEPT ![p] = <<0, 0>>]
    /\ End(p, "failed")
    /\ UNCHANGED <<shared, seen, target, sealer>>

\* rotateRows of store.ts unlinks the file it created; the plugin's does not.
UnlinksArchive(p) == Kind[p] # "openclaw"

\* rotateRows fails after the file is written, and rolls back.
RotationFails(p) ==
    /\ pc[p] = "commit"
    /\ Fault
    /\ archives' = IF UnlinksArchive(p)
                   THEN [f \in DOMAIN archives \ {path[p]} |-> archives[f]]
                   ELSE archives
    /\ lock' = Free
    /\ path' = [path EXCEPT ![p] = <<0, 0>>]
    /\ End(p, "failed")
    /\ UNCHANGED <<events, meta, segments, head, seen, target, sealer>>

(* -------------------------------- append -------------------------------- *)

\* PsyStore.appendOnce: one transaction, head and sequence read inside it.
\* Mutant: the sequence is taken from the newest active row.
NewRowFromTable(p) == [seq   |-> LastEvent.seq + 1,
                       draft |-> draft[p],
                       prev  |-> LastEvent]
NewRow(p) == [seq   |-> meta.last_seq + 1,
              draft |-> draft[p],
              prev  |-> meta.chain_head_hash]

\* Mutant: an append that rolled back is sealed all the same.
AppendRowUncommitted(p) ==
    /\ pc[p] = "append" /\ lock = Free
    /\ target' = [target EXCEPT ![p] = Hash(NewRow(p))]
    /\ Goto(p, "sealRead")
    /\ UNCHANGED <<shared, draft, seen, path, sealer, result, faults>>

\* Mutants: only the rows of one phase are sealed.
SealsIntents(p) == sealer[p] = "ready" /\ draft[p].phase = "intent"
SealsResults(p) == sealer[p] = "ready" /\ draft[p].phase # "intent"
\* Every writer that has a sealer seals each row it commits.
SealsRow(p) == sealer[p] = "ready"

AppendRow(p) ==
    /\ pc[p] = "append" /\ lock = Free
    /\ events' = events \cup {NewRow(p)}
    /\ meta' = [last_seq        |-> NewRow(p).seq,
                chain_head_hash |-> Hash(NewRow(p))]
    /\ IF SealsRow(p)
       THEN /\ target' = [target EXCEPT ![p] = Hash(NewRow(p))]
            /\ Goto(p, "sealRead")
            /\ UNCHANGED <<draft, result>>
       ELSE End(p, "ok") /\ UNCHANGED target
    /\ UNCHANGED <<segments, archives, head, lock, seen, path, sealer, faults>>

\* BEGIN IMMEDIATE outwaits busy_timeout, and for an append every retry.
Busy(p) ==
    /\ pc[p] \in {"archive", "append"} /\ lock \notin {Free, p}
    /\ End(p, "failed")
    /\ path' = [path EXCEPT ![p] = <<0, 0>>]
    /\ UNCHANGED <<shared, seen, target, sealer, faults>>

(* ----------------------------- the head file ---------------------------- *)

\* Back from writeHead: the write path is over, or goes on after the adoption.
HeadWritten(p) == IF pc[p] \in {"sealRead", "sealRename"} THEN End(p, "ok")
                  ELSE Goto(p, Adopted(p)) /\ UNCHANGED <<draft, result>>

\* Sealer.writeHead as far as its read of the head on disk.
WriteHeadRead(p) ==
    /\ pc[p] \in {"adoptRead", "sealRead"}
    /\ \/ /\ head.seq < target[p].seq
          /\ Goto(p, IF pc[p] = "sealRead" THEN "sealRename" ELSE "adoptRename")
          /\ UNCHANGED <<draft, target, result>>
       \/ /\ head.seq = target[p].seq /\ head # target[p]
          /\ End(p, "broken")
          /\ target' = [target EXCEPT ![p] = Genesis]
       \/ /\ head.seq > target[p].seq \/ head = target[p]
          /\ HeadWritten(p)
          /\ target' = [target EXCEPT ![p] = Genesis]
    /\ UNCHANGED <<shared, seen, path, sealer, faults>>

\* ... and its rename, which does not look at the head again.
WriteHeadRename(p) ==
    /\ pc[p] \in {"adoptRename", "sealRename"}
    /\ head' = target[p]
    /\ target' = [target EXCEPT ![p] = Genesis]
    /\ HeadWritten(p)
    /\ UNCHANGED <<events, meta, segments, archives, lock,
                   seen, path, sealer, faults>>

\* psy init seals what meta says is the tail when there is no head; with
\* --migrate, in any case.
InitMigrate(p) ==
    /\ pc[p] = "idle" /\ Kind[p] = "cli" /\ meta.last_seq > 0
    /\ target' = [target EXCEPT ![p] = meta.chain_head_hash]
    /\ result' = [result EXCEPT ![p] = "none"]
    /\ Goto(p, "sealRead")
    /\ UNCHANGED <<shared, draft, seen, path, sealer, faults>>

(* -------------------------------- faults -------------------------------- *)

\* An I/O error where nothing has been changed yet: the transaction rolls
\* back, the archive file is not created, the temporary head file is removed.
IoError(p) ==
    /\ pc[p] \in {"archive", "append", "adoptRename", "sealRename"}
    /\ Fault
    /\ End(p, "failed")
    /\ path' = [path EXCEPT ![p] = <<0, 0>>]
    /\ target' = [target EXCEPT ![p] = Genesis]
    /\ UNCHANGED <<shared, seen, sealer>>

\* The process dies and is started again. SQLite rolls an open transaction
\* back; a file already written stays.
Crash(p) ==
    /\ Fault
    /\ lock' = IF lock = p THEN Free ELSE lock
    /\ Goto(p, "idle")
    /\ draft' = [draft EXCEPT ![p] = NoDraft]
    /\ seen' = [seen EXCEPT ![p] = Genesis]
    /\ path' = [path EXCEPT ![p] = <<0, 0>>]
    /\ target' = [target EXCEPT ![p] = Genesis]
    /\ sealer' = [sealer EXCEPT ![p] = InitialSealer(p)]
    /\ result' = [result EXCEPT ![p] = "none"]
    /\ UNCHANGED <<events, meta, segments, archives, head>>

Step(p) == \/ EnsureSealer(p) \/ ReadHead(p) \/ Migrate(p) \/ Compare(p)
           \/ Lookup(p) \/ RotateIfNeeded(p) \/ WriteArchive(p)
           \/ CommitRotation(p) \/ AppendRow(p) \/ WriteHeadRead(p)
           \/ WriteHeadRename(p)

Next == \E p \in Proc :
           \/ \E d \in Draft : Begin(p, d)
           \/ Step(p)
           \/ RotateActiveSegment(p) \/ InitMigrate(p)
           \/ BootstrapFails(p) \/ RotationFails(p) \/ Busy(p)
           \/ IoError(p) \/ Crash(p)

Spec == Init /\ [][Next]_vars

-------------------------------------------------------------------------------

TypeOK ==
    /\ events \in SUBSET Row
    /\ meta \in [last_seq : Nat, chain_head_hash : Ref]
    /\ segments \in Seq(Segment)
    /\ DOMAIN archives \subseteq Path
    /\ \A f \in DOMAIN archives : archives[f] \in SUBSET Row
    /\ head \in Ref
    /\ lock \in Proc \cup {Free}
    /\ pc \in [Proc -> Pcs]
    /\ draft \in [Proc -> Draft \cup {NoDraft}]
    /\ seen \in [Proc -> Ref]
    /\ path \in [Proc -> Path]
    /\ target \in [Proc -> Ref]
    /\ sealer \in [Proc -> {"unset", "null", "ready"}]
    /\ result \in [Proc -> Results]
    /\ faults \in Nat

(* The rows of the archives and of the active table together are one chain: *)
(* numbered 1 .. last_seq without gap or repetition, each linked to the one *)
(* before it, and meta describes the last one. No interleaving of appends,  *)
(* rotations, crashes and failures by any mix of writers may break this     *)
(* (appendOnce, rotateRows).                                                *)
ChainIntact ==
    /\ \A i \in 1 .. meta.last_seq : \E r \in AllRows : r.seq = i
    /\ \A r \in AllRows : r.seq <= meta.last_seq
    /\ \A r, s \in AllRows : r.seq = s.seq => r = s
    /\ \A r \in AllRows : r.seq = 1 => r.prev = Genesis
    /\ \A r, s \in AllRows : s.seq = r.seq + 1 => s.prev = Hash(r)
    /\ meta.last_seq = 0 => meta.chain_head_hash = Genesis
    /\ \A r \in AllRows : r.seq = meta.last_seq => meta.chain_head_hash = Hash(r)

(* A row once committed stays: a rotation moves it to an archive that a     *)
(* recorded segment points at, and no failure, clean-up or later rotation   *)
(* takes that archive away (rotateRows and its unlink).                     *)
HistoryKept == [][AllRows \subseteq AllRows']_vars

(* The sealed head never vouches for a row that is not in the chain: not    *)
(* after a rolled-back append, nor from a stale target (writeHead).         *)
HeadIsCommitted == head # Genesis => \E r \in AllRows : Hash(r) = head

(* The store implements the append-only trail: every step either commits    *)
(* one entry at the end, moves the seal to an entry already there, or       *)
(* changes nothing a reader of the whole history could see.                 *)
TrailLog == [i \in 1 .. meta.last_seq |-> (CHOOSE r \in AllRows : r.seq = i).draft]
Trail == INSTANCE AuditTrail
           WITH Monotone <- FALSE, log <- TrailLog, sealed <- head.seq
ImplementsTrail == Trail!Spec

(* ------------------------------- one writer ----------------------------- *)

FairSpec == Spec /\ \A p \in Proc : WF_vars(Step(p))

(* assertSealMatchesTail throws when the head and the tail differ. With one *)
(* sealed writer and no fault that never happens, rotations included.       *)
NoFalseAlarm == faults = 0 => \A p \in Proc : result[p] # "broken"

(* A crash or an I/O error, wherever it strikes, leaves at most one         *)
(* committed row that the head does not cover yet, because the check stops  *)
(* the next write: unsealed rows never pile up behind a sealed writer.      *)
SealLagsByOne == meta.last_seq - head.seq \in {0, 1}

(* Seen with a single writer, the trail's witness only moves forward.       *)
OneWayTrail == INSTANCE AuditTrail
                 WITH Monotone <- TRUE, log <- TrailLog, sealed <- head.seq
ImplementsOneWayTrail == OneWayTrail!Spec

(* Every committed row is sealed in the end, unless a fault struck.         *)
SealCatchesUp == (meta.last_seq > head.seq) ~> (meta.last_seq = head.seq \/ faults > 0)

(* Under seal: "required" rows that were written without a seal are never   *)
(* adopted by a later write: the first head ever sealed is that of the      *)
(* first row, and the write that appended this row seals it; when it died   *)
(* before it could, the store stays refused (assertSealMatchesTail and      *)
(* ensureSealer throw).                                                     *)
FirstSealIsOfTheFirstRow ==
    [][SealRequired /\ head = Genesis
         => head'.seq = 1 /\ \E p \in Proc : pc[p] = "sealRename"]_head

(* ---------------------------- several writers --------------------------- *)

(* The SQLite write lock is never kept: whoever rotates commits, rolls back *)
(* or dies (rotateRows), so no writer waits for ever.                       *)
LockIsReleased == (lock # Free) ~> (lock = Free)

===============================================================================
