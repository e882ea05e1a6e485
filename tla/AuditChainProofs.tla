--------------------------- MODULE AuditChainProofs ---------------------------
(***************************************************************************)
(* Proofs about AuditChain and ChainVerify, for any number of processes of *)
(* any kinds, any bounds, and any number of crashes and I/O errors.        *)
(*                                                                         *)
(* ChainIntact is not inductive: that a rotation keeps the chain depends   *)
(* on how the rows are split between table and archives, and on what the   *)
(* holder of the write lock has already written. IInv adds exactly that.   *)
(***************************************************************************)
EXTENDS ChainVerify, SequenceTheorems, FiniteSetTheorems, WellFoundedInduction, TLAPS

\* The last row that has been rotated away.
ArchivedUpTo == IF segments = <<>> THEN 0 ELSE segments[Len(segments)].end_seq

(* The archives hold the older rows, the active table the newer ones. *)
Split == /\ ArchivedUpTo \in 0 .. meta.last_seq
         /\ \A r \in ArchivedRows : r.seq <= ArchivedUpTo
         /\ \A r \in events : r.seq > ArchivedUpTo

(* Whoever holds the write lock between two steps is in the middle of a   *)
(* rotation: its archive is a copy of the table that no segment names yet. *)
Locked == /\ \A p \in Proc : pc[p] = "commit" <=> lock = p
          /\ \A p \in Proc : lock = p =>
                /\ events # {}
                /\ path[p] \in DOMAIN archives
                /\ archives[path[p]] = events
                /\ \A i \in DOMAIN segments : segments[i].path # path[p]
          /\ \A i \in DOMAIN segments : segments[i].path \in DOMAIN archives

Committed(h) == h = Genesis \/ \E r \in AllRows : Hash(r) = h

(* What is sealed, and what is about to be, is in the chain. *)
Sealable == Committed(head) /\ \A p \in Proc : Committed(target[p])

(* A process on its way to an append has a row to append, one about to     *)
(* rename a new head has a row to seal.                                    *)
Working == \A p \in Proc :
    /\ pc[p] \in {"ensure", "readHead", "migrate", "compare", "adoptRead", "adoptRename",
                 "lookup", "rotate", "append"} => draft[p] # NoDraft
    /\ pc[p] \in {"adoptRename", "sealRename"} => target[p].seq > 0

IInv == TypeOK /\ ChainIntact /\ Split /\ Locked /\ Sealable /\ Working
-------------------------------------------------------------------------------
(* The newest row of a non-empty active table is the one meta describes,   *)
(* the oldest the one after the last archived row: rotateRows and lastEvent *)
(* read off the rows what appendOnce reads off meta.                       *)
LEMMA Extremes ==
  ASSUME TypeOK, ChainIntact, Split, events # {}
  PROVE  /\ MaxRow(events) \in events
         /\ MaxRow(events).seq = meta.last_seq
         /\ Hash(MaxRow(events)) = meta.chain_head_hash
         /\ MinRow(events) \in events
         /\ MinRow(events).seq = ArchivedUpTo + 1
<1>1. /\ events \subseteq Row
      /\ meta.last_seq \in Nat
      /\ ArchivedUpTo \in 0 .. meta.last_seq
      /\ \A r \in events : r.seq \in Nat
  BY DEF TypeOK, Split, Row
<1>2. \A r \in events : r.seq <= meta.last_seq /\ r.seq > ArchivedUpTo
  BY DEF ChainIntact, Split, AllRows
<1>3. ASSUME NEW i \in ArchivedUpTo + 1 .. meta.last_seq
      PROVE  \E r \in events : r.seq = i
  <2>1. PICK r \in AllRows : r.seq = i
    BY <1>1 DEF ChainIntact
  <2>2. r \notin ArchivedRows
    BY <1>1, <2>1 DEF Split
  <2> QED  BY <2>1, <2>2 DEF AllRows
<1>4. ArchivedUpTo + 1 \in ArchivedUpTo + 1 .. meta.last_seq
      /\ meta.last_seq \in ArchivedUpTo + 1 .. meta.last_seq
  BY <1>1, <1>2
<1>5. MaxRow(events) \in events /\ MaxRow(events).seq = meta.last_seq
  <2>1. PICK m \in events : m.seq = meta.last_seq
    BY <1>3, <1>4
  <2>2. \E r \in events : \A s \in events : s.seq <= r.seq
    BY <1>2, <2>1
  <2>3. MaxRow(events) \in events /\ \A s \in events : s.seq <= MaxRow(events).seq
    BY <2>2 DEF MaxRow
  <2> QED  BY <1>1, <1>2, <2>1, <2>3
<1>6. MinRow(events) \in events /\ MinRow(events).seq = ArchivedUpTo + 1
  <2>1. PICK m \in events : m.seq = ArchivedUpTo + 1
    BY <1>3, <1>4
  <2>2. \E r \in events : \A s \in events : r.seq <= s.seq
    BY <1>1, <1>2, <2>1
  <2>3. MinRow(events) \in events /\ \A s \in events : MinRow(events).seq <= s.seq
    BY <2>2 DEF MinRow
  <2> QED  BY <1>1, <1>2, <2>1, <2>3
<1>7. Hash(MaxRow(events)) = meta.chain_head_hash
  BY <1>5 DEF ChainIntact, AllRows
<1> QED  BY <1>5, <1>6, <1>7

LEMMA GenesisType == Genesis \in Ref
BY DEF Genesis, Ref

LEMMA HashType == ASSUME NEW r \in Row PROVE Hash(r) \in Ref
BY DEF Row, Ref, Hash

LEMMA LastEventIsCommitted ==
  ASSUME TypeOK, ChainIntact, Split
  PROVE  LastEvent \in Ref /\ Committed(LastEvent)
<1>1. CASE events = {}
  BY <1>1, GenesisType DEF LastEvent, Committed
<1>2. CASE events # {}
  BY <1>2, Extremes, HashType DEF LastEvent, Committed, AllRows, TypeOK
<1> QED  BY <1>1, <1>2

LEMMA ArchiveNameType ==
  ASSUME TypeOK, ChainIntact, Split, events # {}
  PROVE  ArchiveName \in Path
BY Extremes DEF ArchiveName, Path, TypeOK, Row

(* Every step keeps the types. *)
LEMMA TypeStep ==
  ASSUME TypeOK, ChainIntact, Split, Locked, Working, Next
  PROVE  TypeOK'
<1> USE GenesisType, DraftAssumption
<1> USE DEF shared, Goto, End, Fault, Rotated, Pcs, Results
<1>0. <<0, 0>> \in Path /\ NoDraft \in Draft \cup {NoDraft}
  BY DEF Path
<1>1. ASSUME NEW p \in Proc, NEW d \in Draft, Begin(p, d)  PROVE TypeOK'
  BY <1>1 DEF Begin, TypeOK, FirstStep, Unchecked
<1>2. ASSUME NEW p \in Proc, EnsureSealer(p)  PROVE TypeOK'
  BY <1>2 DEF EnsureSealer, TypeOK
<1>3. ASSUME NEW p \in Proc, ReadHead(p)  PROVE TypeOK'
  BY <1>3 DEF ReadHead, TypeOK, Checked, Unchecked
<1>4. ASSUME NEW p \in Proc, Migrate(p)  PROVE TypeOK'
  <2>1. \E l \in Pcs : pc' = [pc EXCEPT ![p] = l]
    BY <1>4 DEF Migrate, Checked, Unchecked, Adopted
  <2>2. target' = target \/ target' = [target EXCEPT ![p] = LastEvent]
    BY <1>4 DEF Migrate
  <2>3. pc' \in [Proc -> Pcs] /\ target' \in [Proc -> Ref]
    BY <2>1, <2>2, LastEventIsCommitted DEF TypeOK
  <2>4. draft' \in [Proc -> Draft \cup {NoDraft}] /\ result' \in [Proc -> Results]
    BY <1>4, <1>0 DEF Migrate, TypeOK
  <2> QED  BY <1>4, <2>3, <2>4 DEF Migrate, TypeOK
<1>5. ASSUME NEW p \in Proc, Compare(p)  PROVE TypeOK'
  BY <1>5 DEF Compare, TypeOK, Checked, Unchecked
<1>6. ASSUME NEW p \in Proc, Lookup(p)  PROVE TypeOK'
  BY <1>6 DEF Lookup, TypeOK
<1>7. ASSUME NEW p \in Proc, RotateIfNeeded(p)  PROVE TypeOK'
  BY <1>7, ArchiveNameType DEF RotateIfNeeded, TypeOK
<1>8. ASSUME NEW p \in Proc, RotateActiveSegment(p)  PROVE TypeOK'
  BY <1>8, ArchiveNameType DEF RotateActiveSegment, TypeOK
<1>9. ASSUME NEW p \in Proc, WriteArchive(p)  PROVE TypeOK'
  <2>0. pc \in [Proc -> Pcs] /\ path \in [Proc -> Path]
    BY DEF TypeOK
  <2>1. path' \in [Proc -> Path] /\ pc' \in [Proc -> Pcs]
    <3>1. path' = path \/ path' = [path EXCEPT ![p] = <<0, 0>>]
      BY <1>9 DEF WriteArchive
    <3>2. \E l \in Pcs : pc' = [pc EXCEPT ![p] = l]
      BY <1>9 DEF WriteArchive
    <3> HIDE DEF Pcs
    <3> QED  BY <2>0, <3>1, <3>2, <1>0
  <2>2. draft' \in [Proc -> Draft \cup {NoDraft}] /\ result' \in [Proc -> Results]
    BY <1>9, <1>0 DEF WriteArchive, TypeOK
  <2>3. lock' \in Proc \cup {Free}
    BY <1>9 DEF WriteArchive, TypeOK
  <2>4. DOMAIN archives' \subseteq Path
        /\ \A f \in DOMAIN archives' : archives'[f] \in SUBSET Row
    <3>1. CASE UNCHANGED archives
      BY <3>1 DEF TypeOK
    <3>2. CASE archives' = [f \in DOMAIN archives \cup {path[p]} |->
                              IF f = path[p] THEN events ELSE archives[f]]
      BY <3>2 DEF TypeOK
    <3> QED  BY <1>9, <3>1, <3>2 DEF WriteArchive
  <2> QED  BY <1>9, <2>1, <2>2, <2>3, <2>4 DEF WriteArchive, TypeOK
<1>10. ASSUME NEW p \in Proc, CommitRotation(p), events # {}  PROVE TypeOK'
  <2>1. MaxRow(events) \in Row /\ MinRow(events) \in Row
    BY <1>10, Extremes DEF TypeOK
  <2>2. events' \in SUBSET Row /\ lock' \in Proc \cup {Free}
    BY <1>10 DEF CommitRotation
  <2>3. meta' \in [last_seq : Nat, chain_head_hash : Ref]
    BY <1>10, <2>1, HashType DEF CommitRotation, MetaAfterRotation, Row
  <2>4. segments' \in Seq(Segment)
    <3>1. [path |-> path[p], start_seq |-> MinRow(events).seq, end_seq |-> MaxRow(events).seq,
           start_hash |-> MinRow(events).prev, end_hash |-> Hash(MaxRow(events))] \in Segment
      BY <2>1, HashType DEF Segment, Row, TypeOK
    <3> QED  BY <1>10, <3>1 DEF CommitRotation, TypeOK
  <2>5. path' \in [Proc -> Path] /\ pc' \in [Proc -> Pcs]
    BY <1>10, <1>0 DEF CommitRotation, TypeOK
  <2>6. draft' \in [Proc -> Draft \cup {NoDraft}] /\ result' \in [Proc -> Results]
    BY <1>10, <1>0 DEF CommitRotation, TypeOK
  <2> QED  BY <1>10, <2>2, <2>3, <2>4, <2>5, <2>6 DEF CommitRotation, TypeOK
<1>11. ASSUME NEW p \in Proc, RotationFails(p)  PROVE TypeOK'
  BY <1>11, <1>0 DEF RotationFails, TypeOK
<1>12. ASSUME NEW p \in Proc, AppendRow(p)  PROVE TypeOK'
  <2>1. NewRow(p) \in Row
    <3>1. draft[p] \in Draft
      BY <1>12 DEF TypeOK, AppendRow, SealsRow, Working
    <3> QED  BY <3>1 DEF NewRow, Row, TypeOK
  <2>2. Hash(NewRow(p)) \in Ref /\ NewRow(p).seq \in Nat
    BY <2>1, HashType DEF Row
  <2>3. pc' \in [Proc -> Pcs] /\ target' \in [Proc -> Ref]
    BY <1>12, <2>2 DEF AppendRow, SealsRow, TypeOK
  <2>4. draft' \in [Proc -> Draft \cup {NoDraft}] /\ result' \in [Proc -> Results]
    BY <1>12, <1>0 DEF AppendRow, SealsRow, TypeOK
  <2> QED  BY <1>12, <2>1, <2>2, <2>3, <2>4 DEF AppendRow, SealsRow, TypeOK
<1>13. ASSUME NEW p \in Proc, Busy(p)  PROVE TypeOK'
  BY <1>13, <1>0 DEF Busy, TypeOK
<1>14. ASSUME NEW p \in Proc, WriteHeadRead(p)  PROVE TypeOK'
  <2>1. pc' \in [Proc -> Pcs] /\ target' \in [Proc -> Ref]
    BY <1>14 DEF WriteHeadRead, TypeOK, Checked, Unchecked, Adopted, HeadWritten
  <2>2. draft' \in [Proc -> Draft \cup {NoDraft}] /\ result' \in [Proc -> Results]
    BY <1>14, <1>0 DEF WriteHeadRead, TypeOK, HeadWritten
  <2> QED  BY <1>14, <2>1, <2>2 DEF WriteHeadRead, TypeOK
<1>15. ASSUME NEW p \in Proc, WriteHeadRename(p)  PROVE TypeOK'
  BY <1>15 DEF WriteHeadRename, TypeOK, Checked, Unchecked, Adopted, HeadWritten
<1>16. ASSUME NEW p \in Proc, InitMigrate(p)  PROVE TypeOK'
  BY <1>16 DEF InitMigrate, TypeOK
<1>17. ASSUME NEW p \in Proc, IoError(p)  PROVE TypeOK'
  BY <1>17, <1>0 DEF IoError, TypeOK
<1>18. ASSUME NEW p \in Proc, Crash(p)  PROVE TypeOK'
  BY <1>18, <1>0 DEF Crash, TypeOK, InitialSealer
<1>19. ASSUME NEW p \in Proc, BootstrapFails(p)  PROVE TypeOK'
  BY <1>19 DEF BootstrapFails, TypeOK
<1>20. ASSUME NEW p \in Proc, CommitRotation(p)  PROVE events # {}
  BY <1>20 DEF CommitRotation, Locked
<1> QED
  BY <1>1, <1>2, <1>3, <1>4, <1>5, <1>6, <1>7, <1>8, <1>9, <1>10, <1>11, <1>12,
     <1>13, <1>14, <1>15, <1>16, <1>17, <1>18, <1>19, <1>20 DEF Next, Step

(* A process on its way to an append keeps its row. *)
LEMMA WorkingStep ==
  ASSUME TypeOK, Working, Next
  PROVE  Working'
<1> USE DraftAssumption DEF Goto, End, Rotated, Checked, Unchecked, TypeOK, Working
<1>1. ASSUME NEW p \in Proc, NEW d \in Draft, Begin(p, d)  PROVE Working'
  BY <1>1 DEF Begin, FirstStep
<1>2. ASSUME NEW p \in Proc, EnsureSealer(p) \/ ReadHead(p) \/ Compare(p) \/ Lookup(p)
      PROVE  Working'
  BY <1>2 DEF EnsureSealer, ReadHead, Compare, Lookup
<1>3. ASSUME NEW p \in Proc, Migrate(p)  PROVE Working'
  BY <1>3 DEF Migrate, Adopted
<1>4. ASSUME NEW p \in Proc, RotateIfNeeded(p) \/ RotateActiveSegment(p)  PROVE Working'
  BY <1>4 DEF RotateIfNeeded, RotateActiveSegment
<1>5. ASSUME NEW p \in Proc, WriteArchive(p) \/ CommitRotation(p)  PROVE Working'
  BY <1>5 DEF WriteArchive, CommitRotation
<1>6. ASSUME NEW p \in Proc, AppendRow(p) \/ InitMigrate(p)  PROVE Working'
  BY <1>6 DEF AppendRow, SealsRow, InitMigrate
<1>7. ASSUME NEW p \in Proc, WriteHeadRead(p)  PROVE Working'
  <2>1. /\ head.seq \in Nat /\ target[p].seq \in Nat
        /\ draft' = draft \/ (draft' = [draft EXCEPT ![p] = NoDraft] /\ pc' = [pc EXCEPT ![p] = "idle"])
    BY <1>7 DEF WriteHeadRead, HeadWritten, Ref
  <2> QED  BY <1>7, <2>1 DEF WriteHeadRead, HeadWritten, Adopted, Ref
<1>8. ASSUME NEW p \in Proc, WriteHeadRename(p)  PROVE Working'
  BY <1>8 DEF WriteHeadRename, HeadWritten, Adopted
<1>9. ASSUME NEW p \in Proc,
             BootstrapFails(p) \/ RotationFails(p) \/ Busy(p) \/ IoError(p) \/ Crash(p)
      PROVE  Working'
  BY <1>9 DEF BootstrapFails, RotationFails, Busy, IoError, Crash
<1> QED
  BY <1>1, <1>2, <1>3, <1>4, <1>5, <1>6, <1>7, <1>8, <1>9 DEF Next, Step

(* What a step leaves out of the chain stays out of the proof: as long as  *)
(* no row is added, the chain and what is committed are as they were.      *)
LEMMA SameChain ==
  ASSUME ChainIntact, AllRows' = AllRows, meta' = meta
  PROVE  ChainIntact' /\ \A h : Committed(h) => Committed(h)'
BY DEF ChainIntact, Committed, Hash

(* A step of one process that touches nothing shared and is not part of a  *)
(* rotation under the lock.                                                *)
LEMMA PrivateStep ==
  ASSUME IInv, NEW p \in Proc, UNCHANGED shared,
         pc[p] # "commit", pc'[p] # "commit",
         \A q \in Proc \ {p} : pc'[q] = pc[q] /\ path'[q] = path[q],
         \A q \in Proc : target'[q] = target[q] \/ Committed(target'[q])
  PROVE  ChainIntact' /\ Split' /\ Locked' /\ Sealable'
<1>1. AllRows' = AllRows
  BY DEF shared, AllRows, ArchivedRows
<1>2. ChainIntact' /\ \A h : Committed(h) => Committed(h)'
  BY <1>1, SameChain DEF IInv, shared
<1>3. Split'
  BY DEF IInv, Split, ArchivedUpTo, ArchivedRows, shared
<1>4. Locked'
  BY DEF IInv, Locked, shared
<1>5. Sealable'
  BY <1>1 DEF IInv, Sealable, Committed, shared, Hash
<1> QED  BY <1>2, <1>3, <1>4, <1>5

(* The steps of the seal check, of the head and of the callers.            *)
LEMMA PrivateSteps ==
  ASSUME IInv, NEW p \in Proc,
         \/ \E d \in Draft : Begin(p, d)
         \/ EnsureSealer(p) \/ BootstrapFails(p) \/ ReadHead(p) \/ Migrate(p) \/ Compare(p)
         \/ Lookup(p) \/ RotateIfNeeded(p) \/ RotateActiveSegment(p) \/ Busy(p)
         \/ WriteHeadRead(p) \/ InitMigrate(p) \/ IoError(p)
  PROVE  ChainIntact' /\ Split' /\ Locked' /\ Sealable'
<1> USE DEF Goto, End, HeadWritten
<1>1. TypeOK /\ ChainIntact /\ Split /\ Sealable
  BY DEF IInv
<1>2. Committed(Genesis) /\ Committed(LastEvent) /\ \A q \in Proc : Committed(target[q])
  BY <1>1, LastEventIsCommitted DEF Committed, Sealable
<1>3. UNCHANGED shared /\ pc[p] # "commit" /\ pc'[p] # "commit"
  BY <1>1 DEF TypeOK, Begin, EnsureSealer, BootstrapFails, ReadHead, Migrate, Compare,
     Lookup, RotateIfNeeded, RotateActiveSegment, Busy, WriteHeadRead, InitMigrate, IoError,
     Checked, Unchecked, Adopted, FirstStep
<1>4. \A q \in Proc \ {p} : pc'[q] = pc[q] /\ path'[q] = path[q]
  BY <1>1 DEF TypeOK, Begin, EnsureSealer, BootstrapFails, ReadHead, Migrate, Compare,
     Lookup, RotateIfNeeded, RotateActiveSegment, Busy, WriteHeadRead, InitMigrate, IoError
<1>5. \A q \in Proc : target'[q] = target[q] \/ Committed(target'[q])
  <2>1. CASE UNCHANGED target
    BY <2>1
  <2>2. CASE target' = [target EXCEPT ![p] = Genesis]
    BY <1>1, <1>2, <2>2 DEF TypeOK
  <2>3. CASE target' = [target EXCEPT ![p] = LastEvent]
    BY <1>1, <1>2, <2>3 DEF TypeOK
  <2>4. CASE InitMigrate(p)
    <3>1. Committed(meta.chain_head_hash)
      BY <1>1, <2>4 DEF InitMigrate, ChainIntact, Committed, TypeOK
    <3> QED  BY <1>1, <1>2, <2>4, <3>1 DEF InitMigrate, TypeOK
  <2> QED
    BY <2>1, <2>2, <2>3, <2>4 DEF Begin, EnsureSealer, BootstrapFails, ReadHead, Migrate,
       Compare, Lookup, RotateIfNeeded, RotateActiveSegment, Busy, WriteHeadRead, IoError
<1> QED  BY <1>3, <1>4, <1>5, PrivateStep

(* The new archive is not yet part of the history. *)
LEMMA WriteArchiveStep ==
  ASSUME IInv, NEW p \in Proc, WriteArchive(p)
  PROVE  ChainIntact' /\ Split' /\ Locked' /\ Sealable' /\ AllRows' = AllRows
<1> USE DEF Goto, End, Rotated
<1>1. TypeOK /\ Locked /\ Split /\ ChainIntact /\ Sealable
  BY DEF IInv
<1>2. /\ UNCHANGED <<events, meta, segments, head, target>>
      /\ \A i \in DOMAIN segments : archives'[segments[i].path] = archives[segments[i].path]
      /\ DOMAIN archives \subseteq DOMAIN archives'
  BY <1>1 DEF WriteArchive, ArchiveExists, Locked, TypeOK
<1>3. ArchivedRows' = ArchivedRows /\ AllRows' = AllRows
  BY <1>2 DEF ArchivedRows, AllRows
<1>4. Locked'
  <2>1. CASE UNCHANGED <<archives, lock>>
    BY <1>1, <1>2, <2>1, FreeAssumption DEF WriteArchive, Locked, TypeOK
  <2>2. CASE /\ events # {} /\ ~ArchiveExists(p) /\ lock' = p
             /\ archives' = [f \in DOMAIN archives \cup {path[p]} |->
                               IF f = path[p] THEN events ELSE archives[f]]
             /\ Goto(p, "commit") /\ UNCHANGED path
    <3>1. \A q \in Proc : pc[q] # "commit"
      BY <1>1, FreeAssumption DEF WriteArchive, Locked
    <3>2. \A q \in Proc : pc'[q] = "commit" <=> lock' = q
      BY <1>1, <2>2, <3>1 DEF TypeOK
    <3> QED  BY <1>1, <1>2, <2>2, <3>2 DEF Locked, ArchiveExists, TypeOK
  <2> QED  BY <2>1, <2>2 DEF WriteArchive
<1>5. ChainIntact' /\ Sealable'
  BY <1>1, <1>2, <1>3, SameChain DEF Sealable, Committed
<1>6. Split'
  BY <1>1, <1>2, <1>3 DEF Split, ArchivedUpTo
<1> QED  BY <1>3, <1>4, <1>5, <1>6

(* Committing a rotation moves the rows of the table, all of them, to the  *)
(* archive written under the same lock, and leaves meta as it was.         *)
LEMMA CommitRotationStep ==
  ASSUME IInv, NEW p \in Proc, CommitRotation(p)
  PROVE  ChainIntact' /\ Split' /\ Locked' /\ Sealable' /\ AllRows' = AllRows /\ meta' = meta
<1> USE DEF Goto, End, Rotated
<1>1. TypeOK /\ Locked /\ Split /\ ChainIntact /\ Sealable
  BY DEF IInv
<1>2. /\ lock = p /\ events # {} /\ archives[path[p]] = events /\ path[p] \in DOMAIN archives
      /\ \A i \in DOMAIN segments : segments[i].path # path[p]
  BY <1>1 DEF CommitRotation, Locked
<1>3. meta' = meta
  BY <1>1, <1>2, Extremes DEF CommitRotation, MetaAfterRotation, TypeOK
<1> DEFINE n == Len(segments)
           new == [path |-> path[p], start_seq |-> MinRow(events).seq, end_seq |-> MaxRow(events).seq,
                   start_hash |-> MinRow(events).prev, end_hash |-> Hash(MaxRow(events))]
<1>4. /\ n \in Nat /\ DOMAIN segments = 1 .. n /\ DOMAIN segments' = 1 .. n + 1
      /\ Len(segments') = n + 1 /\ segments' # <<>>
      /\ \A i \in 1 .. n : segments'[i] = segments[i]
      /\ segments'[n + 1] = new
  <2>1. segments' = Append(segments, new)
    BY DEF CommitRotation
  <2>2. segments \in Seq(Segment)
    BY <1>1 DEF TypeOK
  <2> HIDE DEF new
  <2>3. n \in Nat /\ DOMAIN segments = 1 .. n
    BY <2>2
  <2>4. Len(segments') = n + 1 /\ DOMAIN segments' = 1 .. n + 1
    BY <2>1, <2>2
  <2>5. /\ \A i \in 1 .. n : segments'[i] = segments[i]
        /\ segments'[n + 1] = new
    BY <2>1, <2>2
  <2>6. segments' # <<>>
    BY <2>3, <2>4
  <2> QED  BY <2>3, <2>4, <2>5, <2>6
<1> HIDE DEF n, new
<1>5. new.path = path[p] /\ new.end_seq = meta.last_seq
  BY <1>1, <1>2, Extremes DEF new
<1>6. ArchivedRows' = ArchivedRows \cup events
  <2>1. archives' = archives
    BY DEF CommitRotation
  <2>2. ArchivedRows' = UNION {archives[segments'[i].path] : i \in 1 .. n + 1}
    BY <1>4, <2>1 DEF ArchivedRows
  <2>3. ArchivedRows = UNION {archives[segments[i].path] : i \in 1 .. n}
    BY <1>4 DEF ArchivedRows
  <2>4. ASSUME NEW r  PROVE r \in ArchivedRows' <=> r \in ArchivedRows \/ r \in events
    <3>1. r \in ArchivedRows' <=> \E i \in 1 .. n + 1 : r \in archives[segments'[i].path]
      BY <2>2
    <3>2. r \in ArchivedRows <=> \E i \in 1 .. n : r \in archives[segments[i].path]
      BY <2>3
    <3>3. 1 .. n + 1 = (1 .. n) \cup {n + 1}
      BY <1>4
    <3> QED  BY <1>2, <1>4, <1>5, <3>1, <3>2, <3>3
  <2> QED  BY <2>4
<1>7. AllRows' = AllRows
  BY <1>6 DEF AllRows, CommitRotation
<1>8. ChainIntact' /\ \A h : Committed(h) => Committed(h)'
  BY <1>1, <1>3, <1>7, SameChain
<1>9. Sealable'
  BY <1>1, <1>8 DEF Sealable, CommitRotation, Committed
<1>10. Split'
  <2>1. ArchivedUpTo' = meta.last_seq /\ meta.last_seq \in Nat
    BY <1>1, <1>4, <1>5 DEF ArchivedUpTo, TypeOK
  <2>2. events' = {} /\ \A r \in ArchivedRows' : r.seq <= meta.last_seq
    BY <1>1, <1>6 DEF CommitRotation, ChainIntact, AllRows
  <2> QED  BY <1>3, <2>1, <2>2 DEF Split
<1>11. Locked'
  <2>1. \A q \in Proc : pc'[q] # "commit" /\ lock' # q
    BY <1>1, <1>2, FreeAssumption DEF CommitRotation, Locked, TypeOK
  <2>2. \A i \in DOMAIN segments' : segments'[i].path \in DOMAIN archives'
    BY <1>1, <1>2, <1>4, <1>5 DEF CommitRotation, Locked
  <2> QED  BY <2>1, <2>2 DEF Locked
<1> QED  BY <1>3, <1>7, <1>8, <1>9, <1>10, <1>11

(* Undoing a rotation removes only the file it wrote itself.               *)
LEMMA RotationFailsStep ==
  ASSUME IInv, NEW p \in Proc, RotationFails(p)
  PROVE  ChainIntact' /\ Split' /\ Locked' /\ Sealable' /\ AllRows' = AllRows
<1> USE DEF Goto, End
<1>1. TypeOK /\ Locked /\ Split /\ ChainIntact /\ Sealable
  BY DEF IInv
<1>2. lock = p /\ \A i \in DOMAIN segments : segments[i].path # path[p]
  BY <1>1 DEF RotationFails, Locked
<1>3. UNCHANGED <<events, meta, segments, head, target>>
  BY DEF RotationFails
<1>4. \A i \in DOMAIN segments : /\ segments[i].path \in DOMAIN archives'
                               /\ archives'[segments[i].path] = archives[segments[i].path]
  BY <1>1, <1>2 DEF RotationFails, Locked
<1>5. ArchivedRows' = ArchivedRows /\ AllRows' = AllRows
  BY <1>3, <1>4 DEF ArchivedRows, AllRows
<1>6. Locked'
  <2>1. \A q \in Proc : pc'[q] # "commit" /\ lock' # q
    BY <1>1, <1>2, FreeAssumption DEF RotationFails, Locked, TypeOK
  <2> QED  BY <1>3, <1>4, <2>1 DEF Locked
<1>7. ChainIntact' /\ Sealable'
  BY <1>1, <1>3, <1>5, SameChain DEF Sealable, Committed
<1>8. Split'
  BY <1>1, <1>3, <1>5 DEF Split, ArchivedUpTo
<1> QED  BY <1>5, <1>6, <1>7, <1>8

(* A new row is linked to the one meta describes, whatever is in the table. *)
LEMMA AppendRowStep ==
  ASSUME IInv, NEW p \in Proc, AppendRow(p)
  PROVE  /\ ChainIntact' /\ Split' /\ Locked' /\ Sealable'
         /\ AllRows' = AllRows \cup {NewRow(p)}
<1> USE DEF Goto, End
<1>1. TypeOK /\ Locked /\ Split /\ ChainIntact /\ Sealable
  BY DEF IInv
<1>2. /\ events' = events \cup {NewRow(p)}
      /\ meta' = [last_seq |-> meta.last_seq + 1, chain_head_hash |-> Hash(NewRow(p))]
      /\ UNCHANGED <<segments, archives, head, lock, path>>
      /\ NewRow(p).seq = meta.last_seq + 1 /\ NewRow(p).prev = meta.chain_head_hash
      /\ meta.last_seq \in Nat
  BY <1>1 DEF AppendRow, SealsRow, NewRow, TypeOK
<1>3. ArchivedRows' = ArchivedRows /\ AllRows' = AllRows \cup {NewRow(p)}
  BY <1>2 DEF ArchivedRows, AllRows
<1>4. \A r \in AllRows : r.seq \in Nat /\ r.seq > 0
  <2>1. \A f \in DOMAIN archives : archives[f] \subseteq Row
    BY <1>1 DEF TypeOK
  <2>2. AllRows \subseteq Row
    BY <1>1, <2>1 DEF AllRows, ArchivedRows, Locked, TypeOK
  <2> QED  BY <2>2 DEF Row
<1>5. ChainIntact'
  <2> DEFINE new == NewRow(p)
  <2>1. \A r \in AllRows : r.seq <= meta.last_seq
    BY <1>1 DEF ChainIntact
  <2>2. \A i \in 1 .. meta'.last_seq : \E r \in AllRows' : r.seq = i
    <3>1. ASSUME NEW i \in 1 .. meta'.last_seq, i # meta.last_seq + 1
          PROVE  \E r \in AllRows : r.seq = i
      BY <1>1, <1>2, <3>1 DEF ChainIntact
    <3> QED  BY <1>2, <1>3, <3>1
  <2>3. \A r \in AllRows' : r.seq <= meta'.last_seq
    BY <1>2, <1>3, <1>4, <2>1
  <2>4. \A r, s \in AllRows' : r.seq = s.seq => r = s
    BY <1>1, <1>2, <1>3, <1>4, <2>1 DEF ChainIntact
  <2>5. \A r \in AllRows' : r.seq = 1 => r.prev = Genesis
    BY <1>1, <1>2, <1>3, <1>4, <2>1 DEF ChainIntact
  <2>6. \A r, s \in AllRows' : s.seq = r.seq + 1 => s.prev = Hash(r)
    BY <1>1, <1>2, <1>3, <1>4, <2>1 DEF ChainIntact
  <2>7. \A r \in AllRows' : r.seq = meta'.last_seq => meta'.chain_head_hash = Hash(r)
    BY <1>2, <1>3, <1>4, <2>1
  <2>8. meta'.last_seq # 0
    BY <1>2
  <2> QED  BY <2>2, <2>3, <2>4, <2>5, <2>6, <2>7, <2>8 DEF ChainIntact, Hash
<1>6. Split'
  BY <1>1, <1>2, <1>3 DEF Split, ArchivedUpTo
<1>7. Locked'
  BY <1>1, <1>2, FreeAssumption DEF Locked, AppendRow, SealsRow, TypeOK
<1>8. Sealable'
  <2>1. \A h : Committed(h) => h = Genesis \/ \E r \in AllRows' : Hash(r) = h
    BY <1>3 DEF Committed
  <2>2. \E r \in AllRows' : Hash(r) = Hash(NewRow(p))
    BY <1>3
  <2>3. \A q \in Proc : target'[q] = target[q] \/ target'[q] = Hash(NewRow(p))
    BY <1>1 DEF AppendRow, SealsRow, TypeOK
  <2>4. head' = head
    BY <1>2
  <2> QED  BY <1>1, <2>1, <2>2, <2>3, <2>4 DEF Sealable, Committed, Hash
<1> QED  BY <1>3, <1>5, <1>6, <1>7, <1>8

(* The head takes over a target, which is committed already. *)
LEMMA WriteHeadRenameStep ==
  ASSUME IInv, NEW p \in Proc, WriteHeadRename(p)
  PROVE  ChainIntact' /\ Split' /\ Locked' /\ Sealable' /\ AllRows' = AllRows
<1> USE DEF Goto, End, HeadWritten
<1>1. TypeOK /\ Locked /\ Split /\ ChainIntact /\ Sealable
  BY DEF IInv
<1>2. UNCHANGED <<events, meta, segments, archives, lock, path>>
  BY DEF WriteHeadRename
<1>3. ArchivedRows' = ArchivedRows /\ AllRows' = AllRows
  BY <1>2 DEF ArchivedRows, AllRows
<1>4. ChainIntact' /\ \A h : Committed(h) => h = Genesis \/ \E r \in AllRows' : Hash(r) = h
  BY <1>1, <1>2, <1>3, SameChain DEF Committed
<1>5. Split'
  BY <1>1, <1>2, <1>3 DEF Split, ArchivedUpTo
<1>6. Locked'
  BY <1>1, <1>2 DEF Locked, WriteHeadRename, TypeOK, Adopted, Checked, Unchecked
<1>7. head' = target[p] /\ \A q \in Proc : target'[q] = target[q] \/ target'[q] = Genesis
  BY <1>1 DEF WriteHeadRename, TypeOK
<1>8. Sealable'
  BY <1>1, <1>4, <1>7 DEF Sealable, Committed, Hash
<1> QED  BY <1>3, <1>4, <1>5, <1>6, <1>8

(* A crash releases the lock; what it leaves behind no segment names.      *)
LEMMA CrashStep ==
  ASSUME IInv, NEW p \in Proc, Crash(p)
  PROVE  ChainIntact' /\ Split' /\ Locked' /\ Sealable' /\ AllRows' = AllRows
<1> USE DEF Goto
<1>1. TypeOK /\ Locked /\ Split /\ ChainIntact /\ Sealable
  BY DEF IInv
<1>2. UNCHANGED <<events, meta, segments, archives, head>>
  BY DEF Crash
<1>3. ArchivedRows' = ArchivedRows /\ AllRows' = AllRows
  BY <1>2 DEF ArchivedRows, AllRows
<1>4. ChainIntact' /\ \A h : Committed(h) => h = Genesis \/ \E r \in AllRows' : Hash(r) = h
  BY <1>1, <1>2, <1>3, SameChain DEF Committed
<1>5. Split'
  BY <1>1, <1>2, <1>3 DEF Split, ArchivedUpTo
<1>6. Locked'
  <2>1. \A q \in Proc : lock' = q => lock = q /\ q # p
    BY <1>1, FreeAssumption DEF Crash
  <2>2. \A q \in Proc \ {p} : pc'[q] = pc[q] /\ path'[q] = path[q] /\ (lock = q => lock' = q)
    BY <1>1 DEF Crash, TypeOK
  <2>3. pc'[p] # "commit"
    BY <1>1 DEF Crash, TypeOK
  <2> QED  BY <1>1, <1>2, <2>1, <2>2, <2>3 DEF Locked
<1>7. \A q \in Proc : target'[q] = target[q] \/ target'[q] = Genesis
  BY <1>1 DEF Crash, TypeOK
<1>8. Sealable'
  BY <1>1, <1>2, <1>4, <1>7 DEF Sealable, Committed, Hash
<1> QED  BY <1>3, <1>4, <1>5, <1>6, <1>8

-------------------------------------------------------------------------------
LEMMA InitEstablishes == Init => IInv
<1> SUFFICES ASSUME Init  PROVE IInv
  OBVIOUS
<1> USE DEF Init
<1>1. TypeOK
  BY GenesisType, DraftAssumption, KindAssumption
     DEF TypeOK, Pcs, Results, Path, InitialSealer, Kinds
<1>2. AllRows = {}
  BY DEF AllRows, ArchivedRows
<1>3. ChainIntact /\ Split /\ Sealable
  BY <1>2 DEF ChainIntact, Split, Sealable, Committed, AllRows, ArchivedUpTo
<1>4. Locked /\ Working
  BY FreeAssumption DEF Locked, Working
<1> QED  BY <1>1, <1>3, <1>4 DEF IInv

LEMMA NextPreserves == IInv /\ [Next]_vars => IInv'
<1> SUFFICES ASSUME IInv, [Next]_vars  PROVE IInv'
  OBVIOUS
<1>1. CASE Next
  <2>1. TypeOK' /\ Working'
    BY <1>1, TypeStep, WorkingStep DEF IInv
  <2>2. ChainIntact' /\ Split' /\ Locked' /\ Sealable'
    BY <1>1, PrivateSteps, WriteArchiveStep, CommitRotationStep, RotationFailsStep,
       AppendRowStep, WriteHeadRenameStep, CrashStep DEF Next, Step
  <2> QED  BY <2>1, <2>2 DEF IInv
<1>2. CASE UNCHANGED vars
  <2> USE <1>2 DEF vars
  <2>1. ArchivedRows' = ArchivedRows /\ AllRows' = AllRows
    BY DEF ArchivedRows, AllRows
  <2>2. TypeOK' /\ Working'
    BY DEF IInv, TypeOK, Working
  <2>3. ChainIntact' /\ Sealable'
    BY <2>1, SameChain DEF IInv, Sealable, Committed
  <2>4. Split' /\ Locked'
    BY <2>1 DEF IInv, Split, ArchivedUpTo, Locked
  <2> QED  BY <2>2, <2>3, <2>4 DEF IInv
<1> QED  BY <1>1, <1>2

THEOREM Invariance == Spec => []IInv
BY InitEstablishes, NextPreserves, PTL DEF Spec

(* Every variable keeps its type, whatever writers, rotations and faults do. *)
THEOREM TypeCorrect == Spec => []TypeOK
<1>1. IInv => TypeOK
  BY DEF IInv
<1> QED  BY <1>1, Invariance, PTL

(* appendOnce and rotateRows keep archives and table one unbroken chain that *)
(* meta describes, for any number of concurrent writers of any kind.         *)
THEOREM ChainStaysIntact == Spec => []ChainIntact
<1>1. IInv => ChainIntact
  BY DEF IInv
<1> QED  BY <1>1, Invariance, PTL

(* writeHead never seals a row that is not committed, although it is called *)
(* after the transaction and reads the head before it replaces it.          *)
THEOREM HeadStaysCommitted == Spec => []HeadIsCommitted
<1>1. IInv => HeadIsCommitted
  BY DEF IInv, Sealable, Committed, HeadIsCommitted
<1> QED  BY <1>1, Invariance, PTL

(* No step of any process takes a committed row out of the history: not a   *)
(* rotation, not the undoing of one, not a crash in the middle of one.      *)
LEMMA RowsStay == IInv /\ [Next]_vars => AllRows \subseteq AllRows'
<1> SUFFICES ASSUME IInv, [Next]_vars  PROVE AllRows \subseteq AllRows'
  OBVIOUS
<1>1. CASE UNCHANGED shared
  BY <1>1 DEF shared, AllRows, ArchivedRows
<1>2. CASE ~UNCHANGED shared
  <2>1. PICK p \in Proc : \/ WriteArchive(p) \/ CommitRotation(p) \/ RotationFails(p)
                          \/ AppendRow(p) \/ WriteHeadRename(p) \/ Crash(p)
    BY <1>2 DEF Next, Step, vars, shared, Begin, EnsureSealer, BootstrapFails, ReadHead, Migrate,
       Compare, Lookup, RotateIfNeeded, RotateActiveSegment, Busy, WriteHeadRead, InitMigrate, IoError
  <2> QED
    BY <2>1, WriteArchiveStep, CommitRotationStep, RotationFailsStep, AppendRowStep,
       WriteHeadRenameStep, CrashStep
<1> QED  BY <1>1, <1>2

(* And a row that is new in the history is the one its process appended.    *)
LEMMA RowsComeFromAppends ==
  ASSUME IInv, [Next]_vars, NEW r \in AllRows', r \notin AllRows
  PROVE  \E p \in Proc : AppendRow(p) /\ r = NewRow(p)
<1>1. CASE UNCHANGED shared
  BY <1>1 DEF shared, AllRows, ArchivedRows
<1>2. CASE ~UNCHANGED shared
  <2>1. PICK p \in Proc : \/ WriteArchive(p) \/ CommitRotation(p) \/ RotationFails(p)
                          \/ AppendRow(p) \/ WriteHeadRename(p) \/ Crash(p)
    BY <1>2 DEF Next, Step, vars, shared, Begin, EnsureSealer, BootstrapFails, ReadHead, Migrate,
       Compare, Lookup, RotateIfNeeded, RotateActiveSegment, Busy, WriteHeadRead, InitMigrate, IoError
  <2> QED
    BY <2>1, WriteArchiveStep, CommitRotationStep, RotationFailsStep, AppendRowStep,
       WriteHeadRenameStep, CrashStep
<1> QED  BY <1>1, <1>2

THEOREM HistoryIsKept == Spec => HistoryKept
<1>1. IInv /\ [Next]_vars => [AllRows \subseteq AllRows']_vars
  BY RowsStay
<1> QED  BY <1>1, Invariance, PTL DEF Spec, HistoryKept

-------------------------------------------------------------------------------
(* The refinement: each step of the store is a step of the abstract trail. *)
RowIn(R, i) == CHOOSE r \in R : r.seq = i

LEMMA AppendCommits ==
  ASSUME IInv, NEW p \in Proc, AppendRow(p)
  PROVE  Trail!Commit(draft[p]) /\ draft[p] \in Draft
<1>1. TypeOK /\ ChainIntact /\ Working
  BY DEF IInv
<1>2. draft[p] \in Draft
  BY <1>1 DEF AppendRow, SealsRow, Working, TypeOK
<1>3. ChainIntact' /\ AllRows' = AllRows \cup {NewRow(p)}
  BY AppendRowStep
<1> DEFINE n == meta.last_seq
           new == NewRow(p)
<1>4. n \in Nat /\ meta'.last_seq = n + 1 /\ head' = head /\ new.seq = n + 1 /\ new.draft = draft[p]
  BY <1>1 DEF AppendRow, SealsRow, NewRow, TypeOK
<1>5. \A r, s \in AllRows \cup {new} : r.seq = s.seq => r = s
  BY <1>3 DEF ChainIntact
<1>6. \A i \in 1 .. n : RowIn(AllRows', i) = RowIn(AllRows, i)
  <2> SUFFICES ASSUME NEW i \in 1 .. n  PROVE RowIn(AllRows', i) = RowIn(AllRows, i)
    OBVIOUS
  <2>1. PICK r \in AllRows : r.seq = i
    BY <1>1 DEF ChainIntact
  <2>2. RowIn(AllRows, i) = r /\ RowIn(AllRows', i) = r
    BY <1>3, <1>5, <2>1 DEF RowIn
  <2> QED  BY <2>2
<1>7. RowIn(AllRows', n + 1) = new
  BY <1>3, <1>4, <1>5 DEF RowIn
<1>8. TrailLog = [i \in 1 .. n |-> RowIn(AllRows, i).draft]
  BY DEF TrailLog, RowIn
<1>9. TrailLog' = [i \in 1 .. n + 1 |-> RowIn(AllRows', i).draft]
  BY <1>4 DEF TrailLog, RowIn
<1>10. TrailLog' = Append(TrailLog, draft[p])
  <2> HIDE DEF n, new
  <2>1. Len(TrailLog) = n
    BY <1>4, <1>8
  <2>2. Append(TrailLog, draft[p]) = [i \in 1 .. n + 1 |-> IF i \in 1 .. n THEN TrailLog[i] ELSE draft[p]]
    BY <1>4, <1>8, <2>1
  <2> QED  BY <1>4, <1>6, <1>7, <1>8, <1>9, <2>2
<1> QED  BY <1>2, <1>4, <1>10 DEF Trail!Commit

LEMMA RenameSeals ==
  ASSUME IInv, NEW p \in Proc, WriteHeadRename(p)
  PROVE  \E n \in 1 .. Len(TrailLog) : Trail!Seal(n)
<1>1. TypeOK /\ ChainIntact /\ Working /\ Sealable
  BY DEF IInv
<1>2. AllRows' = AllRows /\ meta' = meta /\ head' = target[p]
  BY WriteHeadRenameStep DEF WriteHeadRename
<1>3. target[p].seq > 0
  BY <1>1 DEF Working, WriteHeadRename
<1>4. PICK r \in AllRows : Hash(r) = target[p]
  BY <1>1, <1>3 DEF Sealable, Committed, Genesis
<1>5. target[p].seq \in Nat /\ meta.last_seq \in Nat /\ target[p].seq <= meta.last_seq
  BY <1>1, <1>4 DEF Hash, ChainIntact, TypeOK, Ref
<1>6. TrailLog' = TrailLog /\ Len(TrailLog) = meta.last_seq
  BY <1>2, <1>5 DEF TrailLog
<1>7. target[p].seq \in 1 .. Len(TrailLog)
  BY <1>3, <1>5, <1>6
<1> QED
  BY <1>2, <1>6, <1>7 DEF Trail!Seal

(* The store implements the append-only trail, for any writers and faults. *)
THEOREM Implements == Spec => ImplementsTrail
<1>1. Init => Trail!Init
  BY DEF Init, Trail!Init, TrailLog, Genesis
<1>2. IInv /\ [Next]_vars => [Trail!Next]_(Trail!vars)
  <2> SUFFICES ASSUME IInv, [Next]_vars  PROVE [Trail!Next]_(Trail!vars)
    OBVIOUS
  <2>1. ASSUME AllRows' = AllRows, meta' = meta, head' = head  PROVE UNCHANGED Trail!vars
    BY <2>1 DEF Trail!vars, TrailLog
  <2>2. CASE UNCHANGED shared
    <3>1. AllRows' = AllRows
      BY <2>2 DEF shared, AllRows, ArchivedRows
    <3> QED  BY <2>1, <2>2, <3>1 DEF shared
  <2>3. CASE ~UNCHANGED shared
    <3>1. PICK p \in Proc : \/ WriteArchive(p) \/ CommitRotation(p) \/ RotationFails(p)
                            \/ AppendRow(p) \/ WriteHeadRename(p) \/ Crash(p)
      BY <2>3 DEF Next, Step, vars, shared, Begin, EnsureSealer, BootstrapFails, ReadHead, Migrate,
         Compare, Lookup, RotateIfNeeded, RotateActiveSegment, Busy, WriteHeadRead, InitMigrate, IoError
    <3>2. CASE WriteArchive(p) \/ CommitRotation(p) \/ RotationFails(p) \/ Crash(p)
      <4>1. AllRows' = AllRows /\ meta' = meta /\ head' = head
        BY <3>2, WriteArchiveStep, CommitRotationStep, RotationFailsStep, CrashStep
           DEF WriteArchive, CommitRotation, RotationFails, Crash
      <4> QED  BY <2>1, <4>1
    <3>3. CASE AppendRow(p)
      BY <3>3, AppendCommits DEF Trail!Next
    <3>4. CASE WriteHeadRename(p)
      BY <3>4, RenameSeals DEF Trail!Next
    <3> QED  BY <3>1, <3>2, <3>3, <3>4
  <2> QED  BY <2>2, <2>3
<1> QED
  BY <1>1, <1>2, Invariance, PTL DEF Spec, ImplementsTrail, Trail!Spec

-------------------------------------------------------------------------------
(***************************************************************************)
(* One sealed writer, a `psy ingest` or a plugin, which is what the README *)
(* of the plugins asks for: of however many rows, with rotations by size   *)
(* and age, crashes and I/O errors.                                        *)
(*                                                                         *)
(* The writer's own seal check makes this work: it lets an append begin    *)
(* only when the head covers every row, so that a rotation moves covered   *)
(* rows only, and a row that was not covered in time stays in the table,   *)
(* where the next check finds it.                                          *)
(***************************************************************************)

OneWriter == /\ Proc # {} /\ \A p, q \in Proc : p = q
             /\ \A p \in Proc : Kind[p] \in {"ingest", "openclaw"}

Appending == {"lookup", "rotate", "archive", "commit", "append"}
Adopting  == {"adoptRead", "adoptRename"}
Sealing   == {"sealRead", "sealRename"}

(* The head covers every row, or all but the newest, which is then active. *)
Covered == /\ \/ meta.last_seq = head.seq
              \/ meta.last_seq = head.seq + 1 /\ events # {}
           /\ meta.last_seq = head.seq => head = meta.chain_head_hash

(* What the writer knows of it, where it is. *)
Knows == \A p \in Proc :
           /\ sealer[p] = "ready" /\ pc[p] # "ensure"
           /\ pc[p] \in Appending => meta.last_seq = head.seq
           /\ pc[p] \in {"archive", "commit"} => draft[p] # NoDraft
           /\ pc[p] = "compare" => seen[p] = head
           /\ pc[p] \in {"migrate"} \cup Adopting => head = Genesis
           /\ pc[p] \in Adopting \cup Sealing => /\ events # {} /\ target[p] = LastEvent
                                                 /\ head.seq < meta.last_seq

(* Without a fault the head is the tail between two write paths, and until  *)
(* one rotates or appends.                                                  *)
Calm == faults = 0 => \A p \in Proc :
           /\ result[p] # "broken" /\ pc[p] \notin Adopting
           /\ pc[p] \notin {"append"} \cup Sealing => head = LastEvent

LagInv == IInv /\ OneWriter /\ Covered /\ Knows /\ Calm
-------------------------------------------------------------------------------
(* The tail of the table and meta agree, unless the table is empty. *)
LEMMA TailOfTable ==
  ASSUME IInv
  PROVE  /\ events # {} => /\ LastEvent = meta.chain_head_hash
                           /\ LastEvent.seq = meta.last_seq /\ LastEvent # Genesis
         /\ LastEvent = Genesis <=> events = {}
<1>1. TypeOK /\ ChainIntact /\ Split
  BY DEF IInv
<1>2. ASSUME events # {}
      PROVE  /\ LastEvent = meta.chain_head_hash
             /\ LastEvent.seq = meta.last_seq /\ LastEvent # Genesis
  <2>1. MaxRow(events) \in events /\ MaxRow(events).seq = meta.last_seq
        /\ Hash(MaxRow(events)) = meta.chain_head_hash
    BY <1>1, <1>2, Extremes
  <2>2. MaxRow(events).seq # 0
    BY <1>1, <2>1 DEF TypeOK, Row
  <2> QED  BY <1>2, <2>1, <2>2 DEF LastEvent, Hash, Genesis
<1> QED  BY <1>2 DEF LastEvent

LEMMA LagInit == OneWriter /\ Init => LagInv
<1> SUFFICES ASSUME OneWriter, Init  PROVE LagInv
  OBVIOUS
<1>1. IInv
  BY InitEstablishes
<1>2. Covered /\ Knows /\ Calm
  BY DEF Init, OneWriter, Covered, Knows, Calm, Appending, Adopting, Sealing, InitialSealer,
     Genesis, LastEvent
<1> QED  BY <1>1, <1>2 DEF LagInv

(* A step that leaves rows and head alone. *)
LEMMA QuietSteps ==
  ASSUME LagInv, IInv', NEW p \in Proc, UNCHANGED <<events, meta, head>>,
         \/ \E d \in Draft : Begin(p, d)
         \/ ReadHead(p) \/ Migrate(p) \/ Compare(p) \/ Lookup(p) \/ RotateIfNeeded(p)
         \/ WriteArchive(p) \/ WriteHeadRead(p) \/ RotationFails(p) \/ Busy(p)
         \/ IoError(p) \/ Crash(p)
  PROVE  Covered' /\ Knows' /\ Calm'
<1> USE DEF LagInv, Goto, End, Appending, Adopting, Sealing
<1>1. /\ LastEvent' = LastEvent /\ \A q \in Proc : q = p
      /\ Kind[p] \in {"ingest", "openclaw"} /\ sealer[p] = "ready" /\ TypeOK
      /\ faults \in Nat
  BY DEF LastEvent, OneWriter, Knows, IInv, TypeOK
<1>2. Covered'
  BY DEF Covered
<1>3. CASE \E d \in Draft : Begin(p, d)
  BY <1>1, <1>2, <1>3 DEF Begin, FirstStep, Knows, Calm, TypeOK
<1>4. CASE ReadHead(p)
  BY <1>1, <1>2, <1>4 DEF ReadHead, Knows, Calm, TypeOK
<1>5. CASE Migrate(p)
  <2>1. LastEvent = Genesis <=> meta.last_seq = head.seq
    BY <1>1, <1>5, TailOfTable DEF Migrate, Covered, Knows, TypeOK, Genesis
  <2>2. LastEvent # Genesis => events # {} /\ head.seq < meta.last_seq
    BY <1>5, <2>1, TailOfTable DEF Migrate, Covered, Knows, TypeOK, Genesis
  <2> QED
    BY <1>1, <1>2, <1>5, <2>1, <2>2 DEF Migrate, Adopted, Checked, Unchecked, Knows, Calm, TypeOK
<1>6. CASE Compare(p)
  <2>1. seen[p] = LastEvent => meta.last_seq = head.seq
    BY <1>1, <1>6, TailOfTable DEF Compare, Covered, Knows, Genesis
  <2> QED  BY <1>1, <1>2, <1>6, <2>1 DEF Compare, Checked, Unchecked, Knows, Calm, TypeOK
<1>7. CASE Lookup(p)
  BY <1>1, <1>2, <1>7 DEF Lookup, Knows, Calm, TypeOK
<1>8. CASE RotateIfNeeded(p)
  <2>1. draft[p] # NoDraft
    BY <1>8 DEF RotateIfNeeded, IInv, Working
  <2> QED  BY <1>1, <1>2, <1>8, <2>1 DEF RotateIfNeeded, Knows, Calm, TypeOK
<1>9. CASE WriteArchive(p)
  BY <1>1, <1>2, <1>9 DEF WriteArchive, Rotated, Knows, Calm, TypeOK
<1>10. CASE WriteHeadRead(p)
  <2>1. head.seq < target[p].seq
    BY <1>10, TailOfTable DEF WriteHeadRead, Knows
  <2>2. head.seq \in Nat /\ target[p].seq \in Nat
    BY <1>1 DEF TypeOK, Ref
  <2>3. head # target[p] /\ ~(head.seq > target[p].seq) /\ head.seq # target[p].seq
    BY <2>1, <2>2
  <2>4. /\ pc' = [pc EXCEPT ![p] = IF pc[p] = "sealRead" THEN "sealRename" ELSE "adoptRename"]
        /\ UNCHANGED <<draft, seen, target, sealer, result, faults>>
    BY <1>10, <2>3 DEF WriteHeadRead
  <2> QED  BY <1>1, <1>2, <1>10, <2>4 DEF WriteHeadRead, Knows, Calm, TypeOK
<1>11. CASE RotationFails(p) \/ IoError(p) \/ Crash(p)
  <2>1. faults' # 0
    BY <1>1, <1>11 DEF RotationFails, IoError, Crash, Fault
  <2> QED  BY <1>1, <1>2, <1>11, <2>1 DEF RotationFails, IoError, Crash, InitialSealer, Knows, Calm, TypeOK
<1>12. CASE Busy(p)
  <2>1. lock = Free \/ pc[p] = "commit"
    BY <1>1 DEF IInv, Locked, TypeOK
  <2> QED  BY <1>1, <1>12, <2>1, FreeAssumption DEF Busy, IInv, Locked, TypeOK
<1> QED
  BY <1>3, <1>4, <1>5, <1>6, <1>7, <1>8, <1>9, <1>10, <1>11, <1>12

(* Every row was covered before the rows are rotated. *)
LEMMA RotationKeeps ==
  ASSUME LagInv, NEW p \in Proc, CommitRotation(p)
  PROVE  Covered' /\ Knows' /\ Calm'
<1> USE DEF LagInv, Goto, Appending, Adopting, Sealing
<1>1. /\ \A q \in Proc : q = p
      /\ TypeOK /\ meta' = meta /\ head' = head
      /\ meta.last_seq = head.seq /\ draft[p] # NoDraft
  BY CommitRotationStep DEF OneWriter, CommitRotation, IInv, Knows
<1>2. pc' = [pc EXCEPT ![p] = "append"] /\ UNCHANGED <<draft, seen, target, sealer, result, faults>>
  BY <1>1 DEF CommitRotation, Rotated
<1>3. Covered'
  BY <1>1 DEF Covered
<1> QED  BY <1>1, <1>2, <1>3 DEF Knows, Calm, TypeOK

(* The appended row is the one the head does not cover. *)
LEMMA AppendLags ==
  ASSUME LagInv, IInv', NEW p \in Proc, AppendRow(p)
  PROVE  Covered' /\ Knows' /\ Calm'
<1> USE DEF LagInv, Goto, Appending, Adopting, Sealing
<1>1. /\ \A q \in Proc : q = p
      /\ TypeOK /\ sealer[p] = "ready" /\ meta.last_seq = head.seq /\ head.seq \in Nat
  BY DEF OneWriter, AppendRow, IInv, Knows, TypeOK, Ref
<1>2. /\ pc' = [pc EXCEPT ![p] = "sealRead"]
      /\ target' = [target EXCEPT ![p] = Hash(NewRow(p))]
      /\ meta'.last_seq = head.seq + 1 /\ meta'.chain_head_hash = Hash(NewRow(p))
      /\ events' # {}
      /\ UNCHANGED <<head, draft, seen, sealer, result, faults>>
  BY <1>1 DEF AppendRow, SealsRow, NewRow
<1>3. LastEvent' = Hash(NewRow(p))
  <2>1. events' = events \cup {NewRow(p)} /\ NewRow(p).seq = meta.last_seq + 1
    BY DEF AppendRow, NewRow
  <2>2. \A r \in events : r.seq \in Nat /\ r.seq <= meta.last_seq
    BY <1>1 DEF IInv, ChainIntact, AllRows, TypeOK, Row
  <2>3. meta.last_seq \in Nat
    BY <1>1
  <2>4. MaxRow(events') = NewRow(p)
    BY <2>1, <2>2, <2>3 DEF MaxRow
  <2> QED  BY <1>2, <2>4 DEF LastEvent
<1>4. Covered'
  BY <1>1, <1>2 DEF Covered
<1> QED  BY <1>1, <1>2, <1>3, <1>4 DEF Knows, Calm, TypeOK

(* The rename covers it. *)
LEMMA RenameCovers ==
  ASSUME LagInv, NEW p \in Proc, WriteHeadRename(p)
  PROVE  /\ Covered' /\ Knows' /\ Calm'
         /\ head'.seq > head.seq
<1> USE DEF LagInv, Goto, End, Appending, Adopting, Sealing
<1>1. /\ \A q \in Proc : q = p
      /\ TypeOK /\ Kind[p] \in {"ingest", "openclaw"} /\ sealer[p] = "ready"
      /\ events # {} /\ target[p] = LastEvent /\ head.seq < meta.last_seq
      /\ head' = target[p] /\ UNCHANGED <<events, meta, faults>>
  BY DEF OneWriter, WriteHeadRename, IInv, Knows
<1>2. head' = meta'.chain_head_hash /\ head'.seq = meta'.last_seq /\ head' = LastEvent'
  BY <1>1, TailOfTable DEF LastEvent
<1>3. Covered'
  BY <1>2 DEF Covered
<1>4. Knows' /\ Calm'
  BY <1>1, <1>2
  DEF WriteHeadRename, HeadWritten, Adopted, Checked, Unchecked, Knows, Calm, TypeOK
<1> QED  BY <1>1, <1>2, <1>3, <1>4, TailOfTable

LEMMA LagNext == LagInv /\ [Next]_vars => LagInv'
<1> SUFFICES ASSUME LagInv, [Next]_vars  PROVE LagInv'
  OBVIOUS
<1>1. IInv' /\ OneWriter'
  BY NextPreserves DEF LagInv, OneWriter
<1>2. CASE UNCHANGED vars
  BY <1>1, <1>2 DEF vars, LagInv, Covered, Knows, Calm, LastEvent
<1>3. ASSUME NEW p \in Proc,
             \/ \E d \in Draft : Begin(p, d)
             \/ ReadHead(p) \/ Migrate(p) \/ Compare(p) \/ Lookup(p) \/ RotateIfNeeded(p)
             \/ WriteArchive(p) \/ WriteHeadRead(p) \/ RotationFails(p) \/ Busy(p)
             \/ IoError(p) \/ Crash(p)
      PROVE  LagInv'
  <2>1. UNCHANGED <<events, meta, head>>
    BY <1>3 DEF shared, Begin, ReadHead, Migrate, Compare, Lookup, RotateIfNeeded, WriteArchive,
       WriteHeadRead, RotationFails, Busy, IoError, Crash
  <2> QED  BY <1>1, <1>3, <2>1, QuietSteps DEF LagInv
<1>4. ASSUME NEW p \in Proc, CommitRotation(p) \/ AppendRow(p) \/ WriteHeadRename(p)
      PROVE  LagInv'
  BY <1>1, <1>4, RotationKeeps, AppendLags, RenameCovers DEF LagInv
<1>5. ASSUME NEW p \in Proc
      PROVE  ~EnsureSealer(p) /\ ~BootstrapFails(p) /\ ~RotateActiveSegment(p) /\ ~InitMigrate(p)
  BY DEF LagInv, OneWriter, Knows, EnsureSealer, BootstrapFails, RotateActiveSegment, InitMigrate
<1> QED  BY <1>2, <1>3, <1>4, <1>5 DEF Next, Step

THEOREM LagInvariance == OneWriter /\ Spec => []LagInv
BY LagInit, LagNext, PTL DEF Spec

(* The seal check never takes the writer's own rotations and appends for     *)
(* tampering (assertSealMatchesTail of seal.ts and ingest-client.js).        *)
THEOREM NeverAFalseAlarm == OneWriter /\ Spec => []NoFalseAlarm
<1>1. LagInv => NoFalseAlarm
  BY DEF LagInv, Calm, NoFalseAlarm
<1> QED  BY <1>1, LagInvariance, PTL

(* Wherever crashes and I/O errors strike, and however often, at most one    *)
(* committed row is not covered by the head.                                 *)
THEOREM SealFollows == OneWriter /\ Spec => []SealLagsByOne
<1>1. LagInv => SealLagsByOne
  BY DEF LagInv, Covered, SealLagsByOne, IInv, TypeOK, Ref
<1> QED  BY <1>1, LagInvariance, PTL

(* The store implements the trail whose witness only moves forward: the head *)
(* is never put back (writeHead).                                            *)
THEOREM ImplementsOneWay == OneWriter /\ Spec => ImplementsOneWayTrail
<1>1. Init => OneWayTrail!Init
  BY DEF Init, OneWayTrail!Init, TrailLog, Genesis
<1>2. LagInv /\ [Next]_vars => [OneWayTrail!Next]_(OneWayTrail!vars)
  <2> SUFFICES ASSUME LagInv, [Next]_vars  PROVE [OneWayTrail!Next]_(OneWayTrail!vars)
    OBVIOUS
  <2>1. ASSUME AllRows' = AllRows, meta' = meta, head' = head  PROVE UNCHANGED OneWayTrail!vars
    BY <2>1 DEF OneWayTrail!vars, TrailLog
  <2>2. CASE UNCHANGED shared
    <3>1. AllRows' = AllRows
      BY <2>2 DEF shared, AllRows, ArchivedRows
    <3> QED  BY <2>1, <2>2, <3>1 DEF shared
  <2>3. CASE ~UNCHANGED shared
    <3>1. PICK p \in Proc : \/ WriteArchive(p) \/ CommitRotation(p) \/ RotationFails(p)
                            \/ AppendRow(p) \/ WriteHeadRename(p) \/ Crash(p)
      BY <2>3 DEF Next, Step, vars, shared, Begin, EnsureSealer, BootstrapFails, ReadHead, Migrate,
         Compare, Lookup, RotateIfNeeded, RotateActiveSegment, Busy, WriteHeadRead, InitMigrate, IoError
    <3>2. CASE WriteArchive(p) \/ CommitRotation(p) \/ RotationFails(p) \/ Crash(p)
      <4>1. AllRows' = AllRows /\ meta' = meta /\ head' = head
        BY <3>2, WriteArchiveStep, CommitRotationStep, RotationFailsStep, CrashStep
           DEF LagInv, WriteArchive, CommitRotation, RotationFails, Crash
      <4> QED  BY <2>1, <4>1
    <3>3. CASE AppendRow(p)
      BY <3>3, AppendCommits DEF LagInv, OneWayTrail!Next, OneWayTrail!Commit, Trail!Commit
    <3>4. CASE WriteHeadRename(p)
      <4>1. PICK n \in 1 .. Len(TrailLog) : Trail!Seal(n)
        BY <3>4, RenameSeals DEF LagInv
      <4>2. n > head.seq
        BY <3>4, <4>1, RenameCovers DEF Trail!Seal
      <4> QED  BY <4>1, <4>2 DEF OneWayTrail!Next, OneWayTrail!Seal, Trail!Seal
    <3> QED  BY <3>1, <3>2, <3>3, <3>4
  <2> QED  BY <2>2, <2>3
<1> QED
  BY <1>1, <1>2, LagInvariance, PTL DEF Spec, ImplementsOneWayTrail, OneWayTrail!Spec
-------------------------------------------------------------------------------
(* What psy verify makes of a store that nobody tampered with. The first     *)
(* lemmas say of the operators of the walk what they return: rows numbered   *)
(* without a gap, sorted by that number, are the function from the number to *)
(* the row, and pieces of such a function laid end to end are the function.  *)
(* The chain then is Rows(0, last_seq), however it is split between archives *)
(* and table (Filed), and a walk over it finds every link in place.          *)

(* A set of naturals that has an element has a least one.                   *)
LEMMA NatMin ==
    ASSUME NEW T \in SUBSET Nat, T # {}
    PROVE  \E m \in T : \A n \in T : m <= n
<1> DEFINE R == OpToRel(<, Nat)
<1>1. PICK m \in T : \A n \in T : <<n, m>> \notin R
  <2>1. IsWellFoundedOn(R, Nat)
    BY NatLessThanWellFounded
  <2> HIDE DEF R
  <2> QED BY <2>1, WFMin
<1>2. \A n \in T : ~(n < m)
  BY <1>1 DEF OpToRel
<1> QED BY <1>2

(* The only strictly increasing function of 1 .. n into itself is identity. *)
LEMMA IncreasingIsIdentity ==
    ASSUME NEW n \in Nat, NEW h \in [1 .. n -> 1 .. n],
           \A i, j \in 1 .. n : i < j => h[i] < h[j]
    PROVE  \A i \in 1 .. n : h[i] = i
<1>1. ASSUME NEW i \in 1 .. n, h[i] < i PROVE FALSE
  <2> DEFINE T == {k \in 1 .. n : h[k] < k}
  <2>1. PICK m \in T : \A k \in T : m <= k
    <3>1. T \in SUBSET Nat /\ T # {}
      BY <1>1
    <3> HIDE DEF T
    <3> QED BY <3>1, NatMin
  <2>2. m \in 1 .. n /\ h[m] < m /\ h[m] \in 1 .. n
    BY <2>1
  <2>3. h[h[m]] < h[m]
    BY <2>2
  <2>4. h[m] \in T
    BY <2>2, <2>3
  <2>5. m <= h[m]
    <3> HIDE DEF T
    <3> QED  BY <2>1, <2>4
  <2> QED BY <2>2, <2>5
<1>2. ASSUME NEW i \in 1 .. n, h[i] > i PROVE FALSE
  <2> DEFINE T == {k \in 1 .. n : h[n + 1 - k] > n + 1 - k}
  <2>1. PICK m \in T : \A k \in T : m <= k
    <3>1. n + 1 - i \in 1 .. n /\ n + 1 - (n + 1 - i) = i
      OBVIOUS
    <3>2. T \in SUBSET Nat /\ n + 1 - i \in T
      BY <1>2, <3>1
    <3> HIDE DEF T
    <3> QED BY <3>2, NatMin
  <2> DEFINE j == n + 1 - m
  <2>2. m \in 1 .. n /\ j \in 1 .. n /\ h[j] > j /\ h[j] \in 1 .. n
    BY <2>1, SMTT(20)
  <2>3. h[h[j]] > h[j]
    <3> HIDE DEF j
    <3> QED  BY <2>2, ZenonT(20)
  <2> DEFINE k == n + 1 - h[j]
  <2>4. k \in 1 .. n /\ n + 1 - k = h[j] /\ k < m
    <3> DEFINE hj == h[j]
    <3>1. hj \in 1 .. n /\ hj > n + 1 - m
      BY <2>2
    <3> HIDE DEF hj
    <3>2. n + 1 - hj \in 1 .. n /\ n + 1 - (n + 1 - hj) = hj /\ n + 1 - hj < m
      BY <2>2, <3>1
    <3> QED  BY <3>2 DEF hj
  <2>5. k \in T
    <3>1. h[n + 1 - k] > n + 1 - k
      <4> HIDE DEF k
      <4> QED  BY <2>3, <2>4
    <3> HIDE DEF k
    <3> QED  BY <2>4, <3>1
  <2>6. m <= k
    <3> HIDE DEF T, j, k
    <3> QED  BY <2>1, <2>5
  <2>7. m \in Nat /\ k \in Nat
    BY <2>2, <2>4
  <2> QED BY <2>4, <2>6, <2>7
<1>3. \A i \in 1 .. n : h[i] \in 1 .. n
  OBVIOUS
<1> QED BY <1>1, <1>2, <1>3

-------------------------------------------------------------------------------
(* Rows numbered lo + 1 .. hi, each number once, in their order: what an    *)
(* ORDER BY seq returns is the row of each number in turn.                  *)
Numbered(R, lo, hi) == /\ \A r \in R : r.seq \in lo + 1 .. hi
                       /\ \A n \in lo + 1 .. hi : \E r \in R : r.seq = n
                       /\ \A r, s \in R : r.seq = s.seq => r = s

LEMMA RowInIs ==
    ASSUME NEW R, NEW r \in R, \A s \in R : s.seq = r.seq => s = r
    PROVE  RowIn(R, r.seq) = r
BY DEF RowIn

LEMMA NumberedRows ==
    ASSUME NEW R, NEW lo \in Nat, NEW hi \in Nat, Numbered(R, lo, hi), NEW n \in lo + 1 .. hi
    PROVE  RowIn(R, n) \in R /\ RowIn(R, n).seq = n
BY DEF Numbered, RowIn

LEMMA BySeqIs ==
    ASSUME NEW R, NEW lo \in Nat, NEW hi \in Nat, lo <= hi, Numbered(R, lo, hi)
    PROVE  /\ BySeq(R) = [i \in 1 .. hi - lo |-> RowIn(R, lo + i)]
           /\ Cardinality(R) = hi - lo
<1> DEFINE n == hi - lo
           w == [i \in 1 .. n |-> RowIn(R, lo + i)]
<1>1. n \in Nat /\ \A i \in 1 .. n : lo + i \in lo + 1 .. hi
  OBVIOUS
<1>2. \A i \in 1 .. n : w[i] \in R /\ w[i].seq = lo + i
  BY <1>1, NumberedRows
<1>3. w \in [1 .. n -> R]
  BY <1>2
<1> HIDE DEF w
<1>4. Cardinality(R) = n
  <2>1. \A i, j \in 1 .. n : w[i] = w[j] => i = j
    <3> SUFFICES ASSUME NEW i \in 1 .. n, NEW j \in 1 .. n, w[i] = w[j]  PROVE i = j
      OBVIOUS
    <3>1. lo + i = lo + j
      BY <1>2
    <3> QED  BY <3>1
  <2>2. \A r \in R : \E i \in 1 .. n : w[i] = r
    <3> SUFFICES ASSUME NEW r \in R  PROVE \E i \in 1 .. n : w[i] = r
      OBVIOUS
    <3>1. r.seq \in lo + 1 .. hi
      BY DEF Numbered
    <3>2. r.seq - lo \in 1 .. n /\ lo + (r.seq - lo) = r.seq
      BY <3>1
    <3>3. w[r.seq - lo].seq = r.seq /\ w[r.seq - lo] \in R
      BY <1>2, <3>2
    <3> QED  BY <3>2, <3>3 DEF Numbered
  <2>3. w \in Bijection(1 .. n, R)
    BY <1>3, <2>1, <2>2 DEF Bijection, Injection, Surjection, IsInjective
  <2>4. ExistsBijection(1 .. n, R)
    BY <2>3 DEF ExistsBijection
  <2> HIDE DEF n
  <2> QED  BY <1>1, <2>4, FS_CountingElements
<1> DEFINE s == BySeq(R)
<1>5. s \in [1 .. n -> R] /\ \A i, j \in 1 .. n : i < j => s[i].seq < s[j].seq
  <2>1. SetToSeqs(R) = {f \in [1 .. n -> R] : \A i, j \in 1 .. n : i # j => f[i] # f[j]}
    BY <1>4 DEF SetToSeqs
  <2>2. w \in SetToSeqs(R)
    <3>1. ASSUME NEW i \in 1 .. n, NEW j \in 1 .. n, i # j  PROVE w[i] # w[j]
      <4>1. w[i].seq = lo + i /\ w[j].seq = lo + j
        BY <1>2
      <4> QED  BY <3>1, <4>1
    <3> HIDE DEF n
    <3> QED  BY <1>3, <2>1, <3>1
  <2>3. \A i, j \in DOMAIN w : i < j => w[i].seq < w[j].seq
    <3> SUFFICES ASSUME NEW i \in 1 .. n, NEW j \in 1 .. n, i < j  PROVE w[i].seq < w[j].seq
      BY <1>3
    <3>1. w[i].seq = lo + i /\ w[j].seq = lo + j
      BY <1>2
    <3> QED  BY <3>1
  <2>4. s \in SetToSeqs(R) /\ \A i, j \in DOMAIN s : i < j => s[i].seq < s[j].seq
    BY <2>2, <2>3 DEF BySeq
  <2> HIDE DEF s, n
  <2> QED  BY <2>1, <2>4
<1> HIDE DEF s
<1> DEFINE h == [i \in 1 .. n |-> s[i].seq - lo]
<1>6. \A i \in 1 .. n : s[i] \in R /\ s[i].seq \in lo + 1 .. hi
  BY <1>5 DEF Numbered
<1>7. \A i \in 1 .. n : h[i] = s[i].seq - lo /\ h[i] \in 1 .. n
  BY <1>1, <1>6
<1>8. h \in [1 .. n -> 1 .. n]
  BY <1>7
<1> HIDE DEF h
<1>9. ASSUME NEW i \in 1 .. n, NEW j \in 1 .. n, i < j  PROVE h[i] < h[j]
  <2>1. s[i].seq < s[j].seq
    BY <1>5, <1>9
  <2> QED  BY <1>6, <1>7, <2>1
<1>10. \A i \in 1 .. n : h[i] = i
  <2> HIDE DEF n
  <2> QED  BY <1>1, <1>8, <1>9, IncreasingIsIdentity
<1>11. \A i \in 1 .. n : s[i] = w[i]
  <2> SUFFICES ASSUME NEW i \in 1 .. n  PROVE s[i] = w[i]
    OBVIOUS
  <2>1. s[i].seq = lo + i /\ w[i].seq = lo + i
    BY <1>2, <1>6, <1>7, <1>10
  <2> QED  BY <1>2, <1>6, <2>1 DEF Numbered
<1>12. s = w
  <2> HIDE DEF n
  <2>1. s = [i \in 1 .. n |-> s[i]]
    BY <1>5
  <2>2. w = [i \in 1 .. n |-> w[i]]
    BY <1>3
  <2> QED  BY <1>11, <2>1, <2>2
<1> QED  BY <1>4, <1>12 DEF s, w

(* Consecutive pieces of a sequence, put together again. *)
LEMMA ConcatPieces ==
    ASSUME NEW a \in Nat, NEW b \in Nat, a <= b, NEW g
    PROVE  [j \in 1 .. a |-> g[j]] \o [j \in 1 .. b - a |-> g[a + j]] = [j \in 1 .. b |-> g[j]]
<1> DEFINE x == [j \in 1 .. a |-> g[j]]
           y == [j \in 1 .. b - a |-> g[a + j]]
<1>1. Len(x) = a /\ Len(y) = b - a
  OBVIOUS
<1>2. x \o y = [j \in 1 .. b |-> IF j <= a THEN x[j] ELSE y[j - a]]
  BY <1>1
<1> QED  BY <1>2

LEMMA FlattenIs ==
    ASSUME NEW k \in Nat, NEW e \in [0 .. k -> Nat], NEW g, e[0] = 0,
           \A i \in 1 .. k : e[i - 1] <= e[i]
    PROVE  FlattenSeq([i \in 1 .. k |-> [j \in 1 .. e[i] - e[i - 1] |-> g[e[i - 1] + j]]])
             = [j \in 1 .. e[k] |-> g[j]]
<1> DEFINE piece(i) == [j \in 1 .. e[i] - e[i - 1] |-> g[e[i - 1] + j]]
           upTo(i)  == [j \in 1 .. e[i] |-> g[j]]
           s == [i \in 1 .. k |-> piece(i)]
<1>1. ASSUME NEW i \in 1 .. k  PROVE upTo(i - 1) \o piece(i) = upTo(i)
  <2>1. i \in 0 .. k /\ i - 1 \in 0 .. k
    OBVIOUS
  <2>2. e[i] \in Nat /\ e[i - 1] \in Nat /\ e[i - 1] <= e[i]
    BY <2>1
  <2> DEFINE a == e[i - 1]
             b == e[i]
  <2>3. [j \in 1 .. a |-> g[j]] \o [j \in 1 .. b - a |-> g[a + j]] = [j \in 1 .. b |-> g[j]]
    <3>1. a \in Nat /\ b \in Nat /\ a <= b
      BY <2>2
    <3> HIDE DEF a, b
    <3> QED  BY <3>1, ConcatPieces
  <2> QED  BY <2>3
<1>2. upTo(0) = <<>> /\ (k # 0 => piece(1) = upTo(1))
  <2>1. k # 0 => 1 \in 0 .. k /\ 1 - 1 = 0
    OBVIOUS
  <2>2. k # 0 => e[1] \in Nat /\ e[1] - e[1 - 1] = e[1] /\ \A j \in 1 .. e[1] : e[1 - 1] + j = j
    BY <2>1
  <2> QED  BY <2>2
<1>3. DOMAIN s = 1 .. k /\ \A i \in 1 .. k : s[i] = piece(i)
  OBVIOUS
<1>4. Len(s) = k
  BY <1>3
<1> HIDE DEF piece, upTo, s
<1>5. CASE k = 0
  BY <1>2, <1>3, <1>4, <1>5 DEF FlattenSeq, s, upTo
<1>6. CASE k # 0
  <2> DEFINE Fl(f) == f = [i \in 1 .. k |-> IF i = 1 THEN s[i] ELSE f[i - 1] \o s[i]]
             fl == CHOOSE f : Fl(f)
             u == [i \in 1 .. k |-> upTo(i)]
  <2>1. Fl(u)
    <3>1. ASSUME NEW i \in 1 .. k
          PROVE  upTo(i) = IF i = 1 THEN s[i] ELSE u[i - 1] \o s[i]
      <4>1. CASE i = 1
        BY <1>2, <1>3, <4>1
      <4>2. CASE i # 1
        <5>1. i - 1 \in 1 .. k
          BY <4>2
        <5>2. u[i - 1] = upTo(i - 1)
          BY <5>1
        <5> QED  BY <1>1, <1>3, <4>2, <5>2
      <4> QED  BY <4>1, <4>2
    <3> QED  BY <3>1
  <2>2. Fl(fl)
    <3> HIDE DEF u, Fl
    <3> QED  BY <2>1
  <2>3. FlattenSeq(s) = fl[k]
    BY <1>4, <1>6 DEF FlattenSeq
  <2> HIDE DEF fl, u
  <2>4. k \in 1 .. k
    BY <1>6
  <2>5. ASSUME NEW i \in 1 .. k
        PROVE  (i = 1 => fl[i] = s[i]) /\ (i # 1 => fl[i] = fl[i - 1] \o s[i])
    BY <2>2
  <2> HIDE DEF Fl
  <2>6. ASSUME NEW i \in 1 .. k, fl[i] # upTo(i)  PROVE FALSE
    <3> DEFINE T == {l \in 1 .. k : fl[l] # upTo(l)}
    <3>1. PICK m \in T : \A l \in T : m <= l
      <4>1. T \in SUBSET Nat /\ i \in T
        BY <2>6
      <4> HIDE DEF T
      <4> QED  BY <4>1, NatMin
    <3>2. m \in 1 .. k /\ fl[m] # upTo(m)
      BY <3>1
    <3>3. m # 1
      BY <1>2, <1>3, <1>6, <2>5, <3>2
    <3>4. m - 1 \in 1 .. k /\ m - 1 < m
      BY <3>2, <3>3
    <3>5. m - 1 \notin T
      <4> HIDE DEF T
      <4> QED  BY <3>1, <3>2, <3>4
    <3>6. fl[m - 1] = upTo(m - 1)
      BY <3>4, <3>5
    <3> QED  BY <1>1, <1>3, <2>5, <3>2, <3>3, <3>6
  <2> QED  BY <2>3, <2>4, <2>6 DEF s, piece, upTo
<1> QED  BY <1>5, <1>6 DEF s, piece, upTo

-------------------------------------------------------------------------------
Before(segs, i) == IF i = 1 THEN Genesis ELSE segs[i - 1].end_hash

(* A segment begins where the one before it ended and names the last row of *)
(* its archive, which holds the rows it says (rotateRows).                  *)
Filed ==
    \A i \in DOMAIN segments :
       LET seg == segments[i] IN
       /\ seg.start_hash = Before(segments, i)
       /\ seg.start_seq = Before(segments, i).seq + 1
       /\ seg.start_seq <= seg.end_seq
       /\ \A r \in archives[seg.path] : r.seq \in seg.start_seq .. seg.end_seq
       /\ \A n \in seg.start_seq .. seg.end_seq : \E r \in archives[seg.path] : r.seq = n
       /\ \E r \in archives[seg.path] : Hash(r) = seg.end_hash /\ r.seq = seg.end_seq

VerifyInv == IInv /\ Filed

(* The rows of the chain from a + 1 to b, and the reference to row n.       *)
Rows(a, b) == [j \in 1 .. b - a |-> RowIn(AllRows, a + j)]
RefTo(n)   == IF n = 0 THEN Genesis ELSE Hash(RowIn(AllRows, n))

LEMMA ChainRows ==
    ASSUME IInv, NEW n \in 1 .. meta.last_seq
    PROVE  /\ RowIn(AllRows, n) \in AllRows /\ RowIn(AllRows, n).seq = n
           /\ \A r \in AllRows : r.seq = n => r = RowIn(AllRows, n)
           /\ RowIn(AllRows, n).prev = RefTo(n - 1)
<1>1. ChainIntact /\ meta.last_seq \in Nat
  BY DEF IInv, TypeOK
<1>2. PICK r \in AllRows : r.seq = n
  BY <1>1 DEF ChainIntact
<1>3. /\ RowIn(AllRows, n) \in AllRows /\ RowIn(AllRows, n).seq = n
      /\ \A q \in AllRows : q.seq = n => q = RowIn(AllRows, n)
  BY <1>1, <1>2 DEF RowIn, ChainIntact
<1>4. RowIn(AllRows, n).prev = RefTo(n - 1)
  <2>1. CASE n = 1
    <3>1. n - 1 = 0
      BY <2>1
    <3> QED  BY <1>1, <1>3, <2>1, <3>1 DEF RefTo, ChainIntact
  <2>2. CASE n # 1
    <3>1. n - 1 \in 1 .. meta.last_seq /\ n - 1 # 0 /\ n = (n - 1) + 1
      BY <1>1, <2>2
    <3>2. PICK q \in AllRows : q.seq = n - 1
      BY <1>1, <3>1 DEF ChainIntact
    <3>3. RowIn(AllRows, n - 1) = q
      BY <1>1, <3>2 DEF RowIn, ChainIntact
    <3>4. RowIn(AllRows, n).prev = Hash(q)
      BY <1>1, <1>3, <3>1, <3>2 DEF ChainIntact
    <3> QED  BY <3>1, <3>3, <3>4 DEF RefTo
  <2> QED  BY <2>1, <2>2
<1> QED  BY <1>3, <1>4

LEMMA RefToHead ==
    ASSUME IInv
    PROVE  meta.chain_head_hash = RefTo(meta.last_seq)
<1>1. ChainIntact /\ meta.last_seq \in Nat
  BY DEF IInv, TypeOK
<1>2. CASE meta.last_seq = 0
  BY <1>1, <1>2 DEF ChainIntact, RefTo
<1>3. CASE meta.last_seq # 0
  <2>1. meta.last_seq \in 1 .. meta.last_seq
    BY <1>1, <1>3
  <2> QED  BY <1>1, <1>3, <2>1, ChainRows DEF ChainIntact, RefTo
<1> QED  BY <1>2, <1>3

LEMMA RefToSeq ==
    ASSUME IInv, NEW n \in 0 .. meta.last_seq
    PROVE  RefTo(n).seq = n
<1>1. n # 0 => n \in 1 .. meta.last_seq
  BY DEF IInv, TypeOK
<1> QED  BY <1>1, ChainRows DEF RefTo, Genesis, Hash

LEMMA ArchiveOfIsStored ==
    ASSUME IInv, NEW i \in DOMAIN segments
    PROVE  archives[segments[i].path] \subseteq AllRows
BY DEF AllRows, ArchivedRows

(* What a walk makes of consecutive rows of the chain: nothing but that the *)
(* chain may have moved on since.                                           *)
LEMMA WalkIssues ==
    ASSUME IInv, NEW a \in Nat, NEW b \in Nat, a <= b, b <= meta.last_seq, NEW m
    PROVE  /\ Expected(Rows(a, b), RefTo(a), Len(Rows(a, b)) + 1) = RefTo(b)
           /\ ChainIssues(Rows(a, b), RefTo(a), m) \subseteq
                 {"meta_head_mismatch", "meta_seq_mismatch"}
           /\ m.chain_head_hash = RefTo(b) =>
                 "meta_head_mismatch" \notin ChainIssues(Rows(a, b), RefTo(a), m)
           /\ m.last_seq = b =>
                 "meta_seq_mismatch" \notin ChainIssues(Rows(a, b), RefTo(a), m)
<1> DEFINE n == b - a
           w == Rows(a, b)
<1>1. meta.last_seq \in Nat /\ n \in Nat
  BY DEF IInv, TypeOK
<1>2. DOMAIN w = 1 .. n /\ Len(w) = n /\ \A j \in 1 .. n : w[j] = RowIn(AllRows, a + j)
  BY <1>1 DEF Rows
<1>3. \A j \in 1 .. n : /\ a + j \in 1 .. meta.last_seq /\ (a + j) - 1 = a + (j - 1)
                        /\ a + j # 0
  BY <1>1
<1> HIDE DEF w
<1>4. ASSUME NEW j \in 1 .. n + 1  PROVE Expected(w, RefTo(a), j) = RefTo(a + (j - 1))
  <2>1. CASE j = 1
    <3>1. a + (j - 1) = a
      BY <2>1
    <3> QED  BY <2>1, <3>1 DEF Expected
  <2>2. CASE j # 1
    <3>1. j - 1 \in 1 .. n
      BY <1>1, <2>2
    <3> QED  BY <1>2, <1>3, <2>2, <3>1 DEF Expected, RefTo
  <2> QED  BY <2>1, <2>2
<1>5. Expected(w, RefTo(a), Len(w) + 1) = RefTo(b)
  <2>1. n + 1 \in 1 .. n + 1 /\ a + ((n + 1) - 1) = b
    BY <1>1
  <2> QED  BY <1>2, <1>4, <2>1
<1>6. ASSUME NEW j \in DOMAIN w
      PROVE  /\ w[j].seq = Expected(w, RefTo(a), j).seq + 1
             /\ w[j].prev = Expected(w, RefTo(a), j)
  <2>1. j \in 1 .. n /\ j \in 1 .. n + 1 /\ a + (j - 1) \in 0 .. meta.last_seq
        /\ a + j = (a + (j - 1)) + 1
    BY <1>1, <1>2, <1>6
  <2>2. w[j].seq = a + j /\ w[j].prev = RefTo(a + (j - 1))
    <3>1. a + j \in 1 .. meta.last_seq /\ (a + j) - 1 = a + (j - 1) /\ w[j] = RowIn(AllRows, a + j)
      BY <1>2, <1>3, <2>1
    <3> QED  BY <3>1, ChainRows
  <2>3. RefTo(a + (j - 1)).seq = a + (j - 1)
    BY <2>1, RefToSeq
  <2> QED  BY <1>4, <2>1, <2>2, <2>3
<1>7. RefTo(b).seq = b
  <2>1. b \in 0 .. meta.last_seq
    BY <1>1
  <2> QED  BY <2>1, RefToSeq
<1>8. /\ ChainIssues(w, RefTo(a), m) \subseteq {"meta_head_mismatch", "meta_seq_mismatch"}
      /\ m.chain_head_hash = RefTo(b) => "meta_head_mismatch" \notin ChainIssues(w, RefTo(a), m)
      /\ m.last_seq = b => "meta_seq_mismatch" \notin ChainIssues(w, RefTo(a), m)
  <2> HIDE DEF n
  <2> QED  BY <1>5, <1>6, <1>7 DEF ChainIssues
<1> QED  BY <1>5, <1>8 DEF w

-------------------------------------------------------------------------------
(* Only the commit of a rotation touches what segments say and point at.    *)
LEMMA SegmentsStay ==
    ASSUME IInv, [Next]_vars, \A p \in Proc : ~CommitRotation(p)
    PROVE  /\ segments' = segments
           /\ \A i \in DOMAIN segments : archives'[segments[i].path] = archives[segments[i].path]
<1>1. TypeOK /\ Locked
  BY DEF IInv
<1>2. CASE UNCHANGED <<segments, archives>>
  BY <1>2
<1>3. CASE ~UNCHANGED <<segments, archives>>
  <2>1. PICK p \in Proc : WriteArchive(p) \/ RotationFails(p)
    BY <1>3 DEF Next, Step, vars, shared, Begin, EnsureSealer, BootstrapFails, ReadHead, Migrate,
       Compare, Lookup, RotateIfNeeded, RotateActiveSegment, AppendRow, SealsRow, WriteHeadRead,
       WriteHeadRename, InitMigrate, IoError, Busy, Crash
  <2>2. CASE WriteArchive(p)
    BY <1>1, <2>2 DEF WriteArchive, ArchiveExists, Locked
  <2>3. CASE RotationFails(p)
    <3>1. lock = p
      BY <1>1, <2>3 DEF RotationFails, Locked
    <3> QED  BY <1>1, <2>3, <3>1 DEF RotationFails, Locked
  <2> QED  BY <2>1, <2>2, <2>3
<1> QED  BY <1>2, <1>3

LEMMA ArchivesEnd ==
    ASSUME VerifyInv
    PROVE  /\ segments = <<>> => ArchivedUpTo = 0
           /\ segments # <<>> =>
                 /\ Len(segments) \in DOMAIN segments
                 /\ segments[Len(segments)].end_hash = RefTo(ArchivedUpTo)
                 /\ ArchivedUpTo # 0
                 /\ ArchivedUpTo = segments[Len(segments)].end_seq
<1>1. CASE segments = <<>>
  BY <1>1 DEF ArchivedUpTo
<1>2. CASE segments # <<>>
  <2>1. segments \in Seq(Segment) /\ meta.last_seq \in Nat
    BY DEF VerifyInv, IInv, TypeOK
  <2>2. Len(segments) \in DOMAIN segments
    BY <1>2, <2>1
  <2> DEFINE seg == segments[Len(segments)]
  <2>3. PICK r \in archives[seg.path] : Hash(r) = seg.end_hash /\ r.seq = seg.end_seq
    BY <2>2 DEF VerifyInv, Filed
  <2>4. ArchivedUpTo = seg.end_seq
    BY <1>2 DEF ArchivedUpTo
  <2>5. r \in AllRows /\ r \in Row
    <3>1. r \in AllRows
      BY <2>2, ArchiveOfIsStored DEF VerifyInv
    <3>2. archives[seg.path] \subseteq Row
      BY <2>2 DEF VerifyInv, IInv, TypeOK, Locked
    <3> QED  BY <3>1, <3>2
  <2>6. ArchivedUpTo \in 1 .. meta.last_seq
    BY <2>1, <2>3, <2>4, <2>5 DEF Row, VerifyInv, IInv, ChainIntact
  <2>7. r = RowIn(AllRows, ArchivedUpTo)
    BY <2>3, <2>4, <2>5, <2>6, ChainRows DEF VerifyInv
  <2> QED  BY <1>2, <2>2, <2>3, <2>4, <2>6, <2>7 DEF RefTo
<1> QED  BY <1>1, <1>2

LEMMA RotationRecords ==
    ASSUME VerifyInv, NEW p \in Proc, CommitRotation(p)
    PROVE  Filed'
<1>1. TypeOK /\ ChainIntact /\ Split /\ Locked
  BY DEF VerifyInv, IInv
<1>2. lock = p /\ events # {} /\ archives[path[p]] = events
  BY <1>1 DEF CommitRotation, Locked
<1>3. /\ MaxRow(events) \in events /\ MaxRow(events).seq = meta.last_seq
      /\ MinRow(events) \in events /\ MinRow(events).seq = ArchivedUpTo + 1
  BY <1>1, <1>2, Extremes
<1> DEFINE n   == Len(segments)
           new == [path |-> path[p], start_seq |-> MinRow(events).seq,
                   end_seq |-> MaxRow(events).seq, start_hash |-> MinRow(events).prev,
                   end_hash |-> Hash(MaxRow(events))]
<1>4. /\ n \in Nat /\ DOMAIN segments = 1 .. n /\ DOMAIN segments' = 1 .. n + 1
      /\ \A i \in 1 .. n : segments'[i] = segments[i]
      /\ segments'[n + 1] = new
      /\ archives' = archives
  <2>1. segments' = Append(segments, new) /\ segments \in Seq(Segment) /\ archives' = archives
    BY <1>1 DEF CommitRotation, TypeOK
  <2> HIDE DEF new
  <2> QED  BY <2>1
<1>5. new.start_hash = RefTo(ArchivedUpTo)
  <2>1. /\ meta.last_seq \in Nat /\ ArchivedUpTo \in Nat
        /\ MinRow(events) \in AllRows
    BY <1>1, <1>3 DEF TypeOK, Split, AllRows
  <2>2. ArchivedUpTo + 1 \in 1 .. meta.last_seq /\ (ArchivedUpTo + 1) - 1 = ArchivedUpTo
    BY <1>1, <1>3, <2>1 DEF ChainIntact
  <2>3. MinRow(events) = RowIn(AllRows, ArchivedUpTo + 1)
    BY <1>3, <2>1, <2>2, ChainRows DEF VerifyInv
  <2> QED  BY <2>2, <2>3, ChainRows DEF VerifyInv
<1>6. /\ RefTo(ArchivedUpTo) = Before(segments', n + 1)
      /\ RefTo(ArchivedUpTo).seq = ArchivedUpTo
  <2>1. RefTo(ArchivedUpTo).seq = ArchivedUpTo
    BY <1>1, RefToSeq DEF Split, VerifyInv
  <2>2. CASE segments = <<>>
    <3>1. n = 0
      BY <2>2
    <3> QED  BY <2>1, <2>2, <3>1, ArchivesEnd DEF RefTo, Before
  <2>3. CASE segments # <<>>
    <3>1. n # 0 /\ (n + 1) - 1 = n /\ n + 1 # 1 /\ n \in 1 .. n
      BY <1>4, <2>3, ArchivesEnd
    <3>2. segments'[n] = segments[n]
      BY <1>4, <3>1
    <3> HIDE DEF n
    <3>3. Before(segments', n + 1) = segments[n].end_hash
      BY <3>1, <3>2 DEF Before
    <3> QED  BY <2>1, <2>3, <3>3, ArchivesEnd DEF n
  <2> QED  BY <2>2, <2>3
<1>7. /\ new.start_seq = Before(segments', n + 1).seq + 1
      /\ new.start_hash = Before(segments', n + 1)
  BY <1>3, <1>5, <1>6
<1>8. /\ new.start_seq <= new.end_seq
      /\ \A r \in events : r.seq \in new.start_seq .. new.end_seq
      /\ \A m \in new.start_seq .. new.end_seq : \E r \in events : r.seq = m
  <2>1. meta.last_seq \in Nat /\ ArchivedUpTo \in 0 .. meta.last_seq
    BY <1>1 DEF TypeOK, Split
  <2>2. \A r \in events : r.seq \in Nat /\ r.seq > ArchivedUpTo /\ r.seq <= meta.last_seq
    BY <1>1 DEF Split, ChainIntact, AllRows, TypeOK, Row
  <2>3. ASSUME NEW m \in ArchivedUpTo + 1 .. meta.last_seq  PROVE \E r \in events : r.seq = m
    <3>1. PICK r \in AllRows : r.seq = m
      BY <1>1, <2>1 DEF ChainIntact
    <3>2. r \notin ArchivedRows
      BY <1>1, <2>1, <3>1 DEF Split
    <3> QED  BY <3>1, <3>2 DEF AllRows
  <2> QED  BY <1>3, <2>1, <2>2, <2>3
<1>9. new.path = path[p] /\ Hash(MaxRow(events)) = new.end_hash /\ MaxRow(events).seq = new.end_seq
  OBVIOUS
<1>10. \A i \in 1 .. n : Before(segments', i) = Before(segments, i)
  BY <1>4 DEF Before
<1> HIDE DEF n, new
<1> SUFFICES ASSUME NEW i \in 1 .. n + 1
             PROVE  LET seg == segments'[i] IN
                    /\ seg.start_hash = Before(segments', i)
                    /\ seg.start_seq = Before(segments', i).seq + 1
                    /\ seg.start_seq <= seg.end_seq
                    /\ \A r \in archives[seg.path] : r.seq \in seg.start_seq .. seg.end_seq
                    /\ \A m \in seg.start_seq .. seg.end_seq : \E r \in archives[seg.path] : r.seq = m
                    /\ \E r \in archives[seg.path] : Hash(r) = seg.end_hash /\ r.seq = seg.end_seq
  BY <1>4 DEF Filed, Hash
<1>11. CASE i \in 1 .. n
  <2>1. segments'[i] = segments[i] /\ i \in DOMAIN segments /\ Before(segments', i) = Before(segments, i)
    BY <1>4, <1>10, <1>11
  <2> QED  BY <2>1 DEF VerifyInv, Filed
<1>12. CASE i = n + 1
  <2>1. segments'[i] = new /\ archives[new.path] = events
    BY <1>2, <1>4, <1>9, <1>12
  <2> QED  BY <1>3, <1>7, <1>8, <1>9, <1>12, <2>1
<1> QED  BY <1>4, <1>11, <1>12

LEMMA VerifyNext == VerifyInv /\ [Next]_vars => VerifyInv'
<1> SUFFICES ASSUME VerifyInv, [Next]_vars  PROVE VerifyInv'
  OBVIOUS
<1>1. IInv'
  BY NextPreserves DEF VerifyInv
<1>2. CASE \E p \in Proc : CommitRotation(p)
  BY <1>1, <1>2, RotationRecords DEF VerifyInv
<1>3. CASE \A p \in Proc : ~CommitRotation(p)
  <2>1. /\ segments' = segments
        /\ \A i \in DOMAIN segments : archives'[segments[i].path] = archives[segments[i].path]
    BY <1>3, SegmentsStay DEF VerifyInv
  <2>2. Filed'
    BY <2>1 DEF VerifyInv, Filed, Before, Hash
  <2> QED  BY <1>1, <2>2 DEF VerifyInv
<1> QED  BY <1>2, <1>3

LEMMA VerifyInit == Init => VerifyInv
<1> SUFFICES ASSUME Init  PROVE VerifyInv
  OBVIOUS
<1>1. IInv
  BY InitEstablishes
<1>2. DOMAIN segments = {}
  BY DEF Init
<1> QED  BY <1>1, <1>2 DEF VerifyInv, Filed

THEOREM VerifyInvariance == Spec => []VerifyInv
BY VerifyInit, VerifyNext, PTL DEF Spec

-------------------------------------------------------------------------------
(* What the two statements of a walk return: the archives together the rows *)
(* up to the last one rotated away, the table the rest.                     *)
LEMMA ActiveRowsAre ==
    ASSUME IInv
    PROVE  /\ BySeq(events) = Rows(ArchivedUpTo, meta.last_seq)
           /\ Cardinality(events) = meta.last_seq - ArchivedUpTo
           /\ \A r \in events : r.seq \in ArchivedUpTo + 1 .. meta.last_seq
<1>1. ChainIntact /\ Split /\ TypeOK
  BY DEF IInv
<1>2. meta.last_seq \in Nat /\ ArchivedUpTo \in Nat /\ ArchivedUpTo <= meta.last_seq
  BY <1>1 DEF Split, TypeOK
<1>3. Numbered(events, ArchivedUpTo, meta.last_seq)
  <2>1. \A r \in events : r.seq \in Nat /\ r.seq > ArchivedUpTo /\ r.seq <= meta.last_seq
    BY <1>1 DEF Split, ChainIntact, AllRows, TypeOK, Row
  <2>2. ASSUME NEW m \in ArchivedUpTo + 1 .. meta.last_seq  PROVE \E r \in events : r.seq = m
    <3>1. PICK r \in AllRows : r.seq = m
      BY <1>1, <1>2 DEF ChainIntact
    <3>2. r \notin ArchivedRows
      BY <1>1, <1>2, <3>1 DEF Split
    <3> QED  BY <3>1, <3>2 DEF AllRows
  <2>3. \A r, q \in events : r.seq = q.seq => r = q
    BY <1>1 DEF ChainIntact, AllRows
  <2>4. \A r \in events : r.seq \in ArchivedUpTo + 1 .. meta.last_seq
    BY <1>2, <2>1
  <2> QED  BY <2>2, <2>3, <2>4 DEF Numbered
<1>4. /\ BySeq(events) = [j \in 1 .. meta.last_seq - ArchivedUpTo |-> RowIn(events, ArchivedUpTo + j)]
      /\ Cardinality(events) = meta.last_seq - ArchivedUpTo
  BY <1>2, <1>3, BySeqIs
<1>5. ASSUME NEW j \in 1 .. meta.last_seq - ArchivedUpTo
      PROVE  RowIn(events, ArchivedUpTo + j) = RowIn(AllRows, ArchivedUpTo + j)
  <2>1. ArchivedUpTo + j \in ArchivedUpTo + 1 .. meta.last_seq
        /\ ArchivedUpTo + j \in 1 .. meta.last_seq
    BY <1>2
  <2>2. RowIn(events, ArchivedUpTo + j) \in events /\ RowIn(events, ArchivedUpTo + j).seq = ArchivedUpTo + j
    BY <1>2, <1>3, <2>1, NumberedRows
  <2> QED  BY <2>1, <2>2, ChainRows DEF AllRows
<1> QED  BY <1>3, <1>4, <1>5 DEF Rows, Numbered

LEMMA ArchivedRowsAre ==
    ASSUME VerifyInv
    PROVE  ArchivedEvents = Rows(0, ArchivedUpTo)
<1>1. ChainIntact /\ Split /\ TypeOK /\ Locked /\ IInv /\ Filed
  BY DEF VerifyInv, IInv
<1> DEFINE k == Len(segments)
           e == [i \in 0 .. k |-> IF i = 0 THEN 0 ELSE segments[i].end_seq]
           g == [n \in 1 .. ArchivedUpTo |-> RowIn(AllRows, n)]
<1>2. /\ k \in Nat /\ DOMAIN segments = 1 .. k
      /\ \A i \in 1 .. k : segments[i].end_seq \in Nat
      /\ meta.last_seq \in Nat /\ ArchivedUpTo \in 0 .. meta.last_seq
  <2>1. segments \in Seq(Segment)
    BY <1>1 DEF TypeOK
  <2>2. k \in Nat /\ DOMAIN segments = 1 .. k /\ \A i \in 1 .. k : segments[i] \in Segment
    BY <2>1
  <2> QED  BY <1>1, <2>2 DEF Segment, TypeOK, Split
<1>3. /\ e \in [0 .. k -> Nat] /\ e[0] = 0
      /\ \A i \in 1 .. k : e[i] = segments[i].end_seq
      /\ e[k] = ArchivedUpTo
  <2>1. segments = <<>> <=> k = 0
    BY <1>1 DEF TypeOK
  <2>2. k \in 0 .. k /\ 0 \in 0 .. k
    BY <1>2
  <2> QED  BY <1>2, <2>1, <2>2 DEF ArchivedUpTo
<1> HIDE DEF e, k, g
<1>4. ASSUME NEW i \in 1 .. k
      PROVE  e[i - 1] + 1 = segments[i].start_seq /\ e[i - 1] <= e[i] /\ e[i - 1] \in Nat /\ e[i] \in Nat
  <2>1. /\ segments[i].start_seq = Before(segments, i).seq + 1
        /\ segments[i].start_seq <= segments[i].end_seq
    BY <1>1, <1>2 DEF Filed
  <2>2. Before(segments, i).seq = e[i - 1]
    <3>1. CASE i = 1
      <4>1. i - 1 = 0
        BY <3>1
      <4> QED  BY <1>3, <3>1, <4>1 DEF Before, Genesis
    <3>2. CASE i # 1
      <4>1. i - 1 \in 1 .. k
        BY <1>2, <3>2
      <4>2. \E r \in archives[segments[i - 1].path] :
               Hash(r) = segments[i - 1].end_hash /\ r.seq = segments[i - 1].end_seq
        BY <1>1, <1>2, <4>1 DEF Filed
      <4>3. segments[i - 1].end_hash.seq = segments[i - 1].end_seq
        BY <4>2 DEF Hash
      <4> QED  BY <1>3, <3>2, <4>1, <4>3 DEF Before
    <3> QED  BY <3>1, <3>2
  <2>3. i - 1 \in 0 .. k /\ i \in 0 .. k
    BY <1>2
  <2>4. e[i - 1] \in Nat /\ e[i] \in Nat
    BY <1>3, <2>3
  <2> QED  BY <1>3, <2>1, <2>2, <2>4
<1>5. ASSUME NEW i \in 1 .. k
      PROVE  BySeq(archives[segments[i].path]) = [j \in 1 .. e[i] - e[i - 1] |-> g[e[i - 1] + j]]
  <2> DEFINE R == archives[segments[i].path]
             a == e[i - 1]
             b == e[i]
  <2>1. a \in Nat /\ b \in Nat /\ a <= b /\ a + 1 = segments[i].start_seq /\ b = segments[i].end_seq
    BY <1>3, <1>4
  <2>2. \A r \in R : r \in AllRows /\ r \in ArchivedRows
    BY <1>2 DEF AllRows, ArchivedRows
  <2>3. Numbered(R, a, b)
    <3>1. \A r \in R : r.seq \in segments[i].start_seq .. segments[i].end_seq
      BY <1>1, <1>2 DEF Filed
    <3>2. \A n \in segments[i].start_seq .. segments[i].end_seq : \E r \in R : r.seq = n
      BY <1>1, <1>2 DEF Filed
    <3>3. \A r, q \in R : r.seq = q.seq => r = q
      BY <1>1, <2>2 DEF ChainIntact
    <3> HIDE DEF R, a, b
    <3> QED  BY <2>1, <3>1, <3>2, <3>3 DEF Numbered
  <2> HIDE DEF R, a, b
  <2>4. BySeq(R) = [j \in 1 .. b - a |-> RowIn(R, a + j)]
    BY <2>1, <2>3, BySeqIs
  <2>5. ASSUME NEW j \in 1 .. b - a  PROVE RowIn(R, a + j) = g[a + j]
    <3>1. a + j \in a + 1 .. b
      BY <2>1
    <3>2. RowIn(R, a + j) \in R /\ RowIn(R, a + j).seq = a + j
      BY <2>1, <2>3, <3>1, NumberedRows
    <3>3. RowIn(R, a + j) \in AllRows /\ a + j <= ArchivedUpTo
      BY <1>1, <2>2, <3>2 DEF Split
    <3>4. a + j \in 1 .. meta.last_seq /\ a + j \in 1 .. ArchivedUpTo
      BY <1>2, <2>1, <3>3
    <3> QED  BY <1>1, <3>2, <3>3, <3>4, ChainRows DEF g
  <2>6. BySeq(R) = [j \in 1 .. b - a |-> g[a + j]]
    BY <2>4, <2>5
  <2> QED  BY <2>6 DEF R, a, b
<1>6. ArchivedEvents = FlattenSeq([i \in 1 .. k |-> [j \in 1 .. e[i] - e[i - 1] |-> g[e[i - 1] + j]]])
  <2>1. [i \in DOMAIN segments |-> BySeq(archives[segments[i].path])]
          = [i \in 1 .. k |-> [j \in 1 .. e[i] - e[i - 1] |-> g[e[i - 1] + j]]]
    BY <1>2, <1>5
  <2> QED  BY <2>1 DEF ArchivedEvents
<1>7. ArchivedEvents = [j \in 1 .. e[k] |-> g[j]]
  <2>1. k \in Nat /\ e \in [0 .. k -> Nat] /\ e[0] = 0 /\ \A i \in 1 .. k : e[i - 1] <= e[i]
    BY <1>2, <1>3, <1>4
  <2>2. FlattenSeq([i \in 1 .. k |-> [j \in 1 .. e[i] - e[i - 1] |-> g[e[i - 1] + j]]])
          = [j \in 1 .. e[k] |-> g[j]]
    BY <2>1, FlattenIs
  <2> QED  BY <1>6, <2>2
<1>8. Rows(0, ArchivedUpTo) = [j \in 1 .. ArchivedUpTo |-> RowIn(AllRows, j)]
  <2>1. ArchivedUpTo - 0 = ArchivedUpTo /\ \A j \in 1 .. ArchivedUpTo : 0 + j = j
    BY <1>2
  <2> QED  BY <2>1 DEF Rows
<1> QED  BY <1>3, <1>7, <1>8 DEF g

LEMMA JoinedRows ==
    ASSUME NEW a \in Nat, NEW b \in Nat, a <= b
    PROVE  Rows(0, a) \o Rows(a, b) = Rows(0, b)
<1> DEFINE g == [n \in 1 .. b |-> RowIn(AllRows, n)]
<1>1. Rows(0, a) = [j \in 1 .. a |-> g[j]]
  <2>1. a - 0 = a /\ \A j \in 1 .. a : 0 + j = j /\ j \in 1 .. b
    OBVIOUS
  <2> QED  BY <2>1 DEF Rows
<1>2. Rows(a, b) = [j \in 1 .. b - a |-> g[a + j]]
  <2>1. \A j \in 1 .. b - a : a + j \in 1 .. b
    OBVIOUS
  <2> QED  BY <2>1 DEF Rows
<1>3. Rows(0, b) = [j \in 1 .. b |-> g[j]]
  <2>1. b - 0 = b /\ \A j \in 1 .. b : 0 + j = j
    OBVIOUS
  <2> QED  BY <2>1 DEF Rows
<1> HIDE DEF g
<1>4. [j \in 1 .. a |-> g[j]] \o [j \in 1 .. b - a |-> g[a + j]] = [j \in 1 .. b |-> g[j]]
  BY ConcatPieces
<1> QED  BY <1>1, <1>2, <1>3, <1>4

LEMMA WalkedRowsAre ==
    ASSUME VerifyInv, NEW all \in BOOLEAN
    PROVE  /\ WalkedRows(all) = Rows(IF all THEN 0 ELSE ArchivedUpTo, meta.last_seq)
           /\ WalkStart(all, segments) = RefTo(IF all THEN 0 ELSE ArchivedUpTo)
           /\ ArchivedUpTo \in Nat /\ meta.last_seq \in Nat /\ ArchivedUpTo <= meta.last_seq
<1>1. ArchivedUpTo \in Nat /\ meta.last_seq \in Nat /\ ArchivedUpTo <= meta.last_seq
  BY DEF VerifyInv, IInv, Split, TypeOK
<1>2. BySeq(events) = Rows(ArchivedUpTo, meta.last_seq) /\ ArchivedEvents = Rows(0, ArchivedUpTo)
  BY ActiveRowsAre, ArchivedRowsAre DEF VerifyInv
<1>3. WalkedRows(all) = Rows(IF all THEN 0 ELSE ArchivedUpTo, meta.last_seq)
  BY <1>1, <1>2, JoinedRows DEF WalkedRows
<1>4. WalkStart(all, segments) = RefTo(IF all THEN 0 ELSE ArchivedUpTo)
  <2>1. CASE all
    BY <2>1 DEF WalkStart, RefTo
  <2>2. CASE ~all /\ segments = <<>>
    BY <2>2, ArchivesEnd DEF WalkStart, RefTo
  <2>3. CASE ~all /\ segments # <<>>
    <3> DEFINE h == segments[Len(segments)].end_hash
    <3>1. h = RefTo(ArchivedUpTo) /\ ArchivedUpTo # 0 /\ ArchivedUpTo = segments[Len(segments)].end_seq
      BY <2>3, ArchivesEnd
    <3>2. h = Hash(RowIn(AllRows, ArchivedUpTo)) /\ h.seq = ArchivedUpTo
      <4>1. ArchivedUpTo \in 0 .. meta.last_seq
        BY <1>1
      <4> QED  BY <3>1, <4>1, RefToSeq DEF RefTo, VerifyInv
    <3>3. h = [seq |-> ArchivedUpTo, draft |-> h.draft]
      BY <3>2 DEF Hash
    <3> QED  BY <2>3, <3>1, <3>3 DEF WalkStart
  <2> QED  BY <2>1, <2>2, <2>3
<1> QED  BY <1>1, <1>3, <1>4

(* verifyRotationContinuity finds nothing to say. *)
LEMMA NoRotationIssues ==
    ASSUME VerifyInv
    PROVE  RotationIssues(segments, events) = {}
<1>1. ChainIntact /\ Split /\ TypeOK /\ IInv /\ Filed
  BY DEF VerifyInv, IInv
<1> DEFINE before(i) == IF i = 1 THEN Genesis ELSE segments[i - 1].end_hash
<1>2. \A i \in DOMAIN segments : /\ segments[i].start_seq = before(i).seq + 1
                               /\ segments[i].start_hash = before(i)
  BY <1>1 DEF Filed, Before
<1>3. before(Len(segments) + 1) = RefTo(ArchivedUpTo) /\ RefTo(ArchivedUpTo).seq = ArchivedUpTo
  <2>1. RefTo(ArchivedUpTo).seq = ArchivedUpTo
    BY <1>1, RefToSeq DEF Split
  <2>2. Len(segments) \in Nat /\ (segments = <<>> <=> Len(segments) = 0)
    BY <1>1 DEF TypeOK
  <2>3. /\ (Len(segments) + 1) - 1 = Len(segments)
        /\ Len(segments) + 1 = 1 <=> segments = <<>>
    BY <2>2
  <2> QED  BY <2>1, <2>3, ArchivesEnd DEF RefTo
<1>4. ASSUME events # {}
      PROVE  MinRow(events).seq = ArchivedUpTo + 1 /\ MinRow(events).prev = RefTo(ArchivedUpTo)
  <2>1. MinRow(events) \in events /\ MinRow(events).seq = ArchivedUpTo + 1
    BY <1>1, <1>4, Extremes
  <2>2. ArchivedUpTo \in Nat /\ meta.last_seq \in Nat /\ MinRow(events) \in AllRows
    BY <1>1, <2>1 DEF Split, TypeOK, AllRows
  <2>3. ArchivedUpTo + 1 \in 1 .. meta.last_seq /\ (ArchivedUpTo + 1) - 1 = ArchivedUpTo
    BY <1>1, <2>1, <2>2 DEF ChainIntact
  <2> QED  BY <1>1, <2>1, <2>2, <2>3, ChainRows
<1> QED  BY <1>2, <1>3, <1>4 DEF RotationIssues

(* Whatever writers, rotations, crashes and failures did, verifyStore finds *)
(* no damage to the chain, with --all and without: an alarm of that kind is *)
(* never the doing of psy-core's own writers.                               *)
THEOREM NeverBlamesTheChain == Spec => []VerifyNeverBlamesTheChain
<1>1. VerifyInv => VerifyNeverBlamesTheChain
  <2> SUFFICES ASSUME VerifyInv, NEW all \in BOOLEAN
               PROVE  VerifyIssues(all) \subseteq PairCodes \cup SealCodes
    BY DEF VerifyNeverBlamesTheChain
  <2> DEFINE a == IF all THEN 0 ELSE ArchivedUpTo
  <2>1. WalkedRows(all) = Rows(a, meta.last_seq) /\ WalkStart(all, segments) = RefTo(a)
        /\ a \in Nat /\ a <= meta.last_seq /\ meta.last_seq \in Nat
    BY WalkedRowsAre
  <2>2. ChainIssues(WalkedRows(all), WalkStart(all, segments), meta) = {}
    <3> HIDE DEF a
    <3> DEFINE b == meta.last_seq
               C == ChainIssues(Rows(a, b), RefTo(a), meta)
    <3>1. IInv /\ b <= meta.last_seq /\ a <= b /\ meta.chain_head_hash = RefTo(b)
      BY <2>1, RefToHead DEF VerifyInv
    <3>2. /\ C \subseteq {"meta_head_mismatch", "meta_seq_mismatch"}
          /\ meta.chain_head_hash = RefTo(b) => "meta_head_mismatch" \notin C
          /\ meta.last_seq = b => "meta_seq_mismatch" \notin C
      <4> HIDE DEF b
      <4>1. b \in Nat
        BY <2>1 DEF b
      <4> QED  BY <2>1, <3>1, <4>1, WalkIssues
    <3> HIDE DEF C
    <3>3. C = {}
      BY <3>1, <3>2
    <3> QED  BY <2>1, <3>3 DEF C
  <2>3. PairIssues(WalkedRows(all)) \subseteq PairCodes
    BY DEF PairIssues, PairCodes
  <2>4. SealIssues(WalkedRows(all), head) \subseteq SealCodes
    BY DEF SealIssues, SealCodes
  <2> QED  BY <2>2, <2>3, <2>4, NoRotationIssues DEF VerifyIssues
<1> QED  BY <1>1, VerifyInvariance, PTL
===============================================================================
