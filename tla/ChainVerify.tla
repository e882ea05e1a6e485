----------------------------- MODULE ChainVerify -----------------------------
(***************************************************************************)
(* psy verify over the state of AuditChain: verifyStore of src/verify.ts,  *)
(* with and without --all, as the set of issue codes it reports. Its parts *)
(* are functions of what they read; VerifyIssues reads all of it at once,  *)
(* AuditReaders one statement after the other.                             *)
(*                                                                         *)
(* Codes about unreadable, edited or substituted files are left out:       *)
(* nothing in AuditChain edits a row or an archive it has written.         *)
(***************************************************************************)
EXTENDS AuditChain, SequencesExt

\* SELECT ... ORDER BY seq, and the line order of an archive.
BySeq(R) == CHOOSE s \in SetToSeqs(R) : \A i, j \in DOMAIN s : i < j => s[i].seq < s[j].seq

\* archivedEvents: the segments in the order they were recorded.
ArchivedEvents ==
    FlattenSeq([i \in DOMAIN segments |-> BySeq(archives[segments[i].path])])

\* Mutant: --all forgets the archives.
WalkedRowsActive(all) == BySeq(events)
\* The rows a verification walks, and the reference it expects before them.
WalkedRows(all) == IF all THEN ArchivedEvents \o BySeq(events) ELSE BySeq(events)

\* Mutant: every walk begins at the genesis.
WalkStartGenesis(all, segs) == Genesis
WalkStart(all, segs) == IF all \/ segs = <<>> THEN Genesis
                        ELSE [seq   |-> segs[Len(segs)].end_seq,
                              draft |-> segs[Len(segs)].end_hash.draft]

\* expectedPrev (whose seq is expectedSeq - 1) when row i is reached.
Expected(rows, start, i) == IF i = 1 THEN start ELSE Hash(rows[i - 1])

\* m: the meta table.
ChainIssues(rows, start, m) ==
    LET end == Expected(rows, start, Len(rows) + 1) IN
    {c \in {"seq_gap"}            : \E i \in DOMAIN rows : rows[i].seq # Expected(rows, start, i).seq + 1} \cup
    {c \in {"prev_hash_mismatch"} : \E i \in DOMAIN rows : rows[i].prev # Expected(rows, start, i)} \cup
    {c \in {"meta_head_mismatch"} : m.chain_head_hash # end} \cup
    {c \in {"meta_seq_mismatch"}  : m.last_seq # end.seq}

\* Rows are paired by call; an unattributed result needs no intent.
PairIssues(rows) ==
    LET phases(c) == {rows[i].draft.phase : i \in {j \in DOMAIN rows : rows[j].draft.call = c}} IN
    {c \in {"orphaned_intent"} :
        \E k \in Calls : phases(k) = {"intent"}} \cup
    {c \in {"result_without_intent"} :
        \E k \in Calls : phases(k) = {"result"}}

\* verifyRotationContinuity
RotationIssues(segs, active) ==
    LET before(i) == IF i = 1 THEN Genesis ELSE segs[i - 1].end_hash
        first     == MinRow(active)
        last      == before(Len(segs) + 1)
    IN  {c \in {"rotation_seq_gap"}         : \E i \in DOMAIN segs : segs[i].start_seq # before(i).seq + 1} \cup
        {c \in {"rotation_hash_gap"}        : \E i \in DOMAIN segs : segs[i].start_hash # before(i)} \cup
        {c \in {"active_rotation_seq_gap"}  : active # {} /\ first.seq # last.seq + 1} \cup
        {c \in {"active_rotation_hash_gap"} : active # {} /\ first.prev # last}

\* Mutant: a head that lags is taken for one that is about to be written.
SealIssuesAhead(rows, h) ==
    {c \in {"seal_hash_mismatch"} : h.seq >= Len(rows) /\ h # Expected(rows, Genesis, Len(rows) + 1)}
\* verifySeal against the tail of the walked rows.
SealIssues(rows, h) ==
    LET tail == Expected(rows, Genesis, Len(rows) + 1) IN
    IF h = Genesis THEN {c \in {"seal_missing"} : tail # Genesis}
    ELSE {c \in {"seal_seq_mismatch"}  : h.seq # tail.seq} \cup
         {c \in {"seal_hash_mismatch"} : h # tail}

VerifyIssues(all) ==
    ChainIssues(WalkedRows(all), WalkStart(all, segments), meta)
        \cup PairIssues(WalkedRows(all))
        \cup RotationIssues(segments, events) \cup SealIssues(WalkedRows(all), head)

-------------------------------------------------------------------------------
PairCodes == {"orphaned_intent", "result_without_intent"}
SealCodes == {"seal_missing", "seal_seq_mismatch", "seal_hash_mismatch"}

Quiet == \A p \in Proc : pc[p] = "idle"

(* Whatever writers, rotations, crashes and failures did, psy verify never  *)
(* reports the chain itself as damaged: what it reports beyond unpaired     *)
(* calls and a seal that lags is damage nobody in this system can cause.    *)
VerifyNeverBlamesTheChain ==
    \A all \in BOOLEAN : VerifyIssues(all) \subseteq PairCodes \cup SealCodes

===============================================================================
