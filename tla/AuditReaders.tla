----------------------------- MODULE AuditReaders -----------------------------
(***************************************************************************)
(* A process that reads the store of AuditChain while others write it. A   *)
(* reader opens no transaction: each of its statements, and its look at    *)
(* the head file, sees the store of that moment. One reader runs, as       *)
(*   "verify"      psy verify, verify() of the SDK                         *)
(*   "verify all"  the same with --all                                     *)
(*   "follow"      psy tail, which polls once a second                     *)
(*   "newest"      Auditor.tail                                            *)
(*   "pages"       psy query --offset, a page at a time; export is the one *)
(*                 page without a limit                                    *)
(*   "history"     PsyStore.queryEvents({includeArchived: true})           *)
(*                                                                         *)
(* Left out: filters of a query (but for its bounds), the layout of what   *)
(* is printed.                                                             *)
(***************************************************************************)
EXTENDS ChainVerify, FiniteSetsExt

CONSTANTS Roles,      \* what the reader may be
          PageSize    \* LIMIT of a query

ASSUME PageAssumption == PageSize \in Nat \ {0}

VARIABLES role,       \* what the reader does
          at,         \* where it is in that
          keyed,      \* verify found the seal key
          rows,       \* rows it has read, in the order it holds them
          metaRead,   \* the meta table as it read it
          segsRead,   \* the segments as it read them
          issues,     \* verify's issue codes
          since       \* what others committed since it began

readerVars == <<role, at, keyed, rows, metaRead, segsRead, issues, since>>
everything == <<events, meta, segments, archives, head, lock, pc, draft, seen, path,
                target, sealer, result, faults, role, at, keyed, rows, metaRead,
                segsRead, issues, since>>

Verifying == role \in {"verify", "verify all"}
All       == role = "verify all"

ReaderInit == /\ Init
              /\ role \in Roles /\ at = "start"
              /\ keyed = TRUE /\ rows = <<>> /\ metaRead = meta /\ segsRead = <<>>
              /\ issues = {} /\ since = {}

(* ------------------------------- psy verify ------------------------------ *)

At(l, next) == at = l /\ at' = next

\* What the reader meets that is already in the making.
InTheMaking == IF Quiet /\ faults = 0 THEN {} ELSE {"write"}

\* What the command makes of a seal that it could not check for want of the key.
SealPolicy(found) ==
    {c \in {"seal_key_unavailable"}  : ~found /\ head # Genesis} \cup
    {c \in {"seal_missing_required"} : ~found /\ head = Genesis /\ SealRequired}

\* loadSealerForStore: without the key it looks whether there is a head.
LoadSealer ==
    /\ Verifying
    /\ At("start", IF All THEN "archives" ELSE "active")
    /\ keyed' \in BOOLEAN
    /\ issues' = SealPolicy(keyed')
    /\ since' = InTheMaking
    /\ UNCHANGED <<role, rows, metaRead, segsRead>>

ReadArchives ==
    /\ Verifying /\ At("archives", "active")
    /\ rows' = ArchivedEvents
    /\ UNCHANGED <<role, keyed, metaRead, segsRead, issues, since>>

ReadActive ==
    /\ Verifying /\ At("active", "meta")
    /\ rows' = rows \o BySeq(events)
    /\ UNCHANGED <<role, keyed, metaRead, segsRead, issues, since>>

ReadMeta ==
    /\ Verifying /\ At("meta", IF All THEN "walk" ELSE "segments")
    /\ metaRead' = meta
    /\ UNCHANGED <<role, keyed, rows, segsRead, issues, since>>

\* Only a walk without the archives needs to know where they end.
ReadSegments ==
    /\ Verifying /\ At("segments", "walk")
    /\ segsRead' = segments
    /\ UNCHANGED <<role, keyed, rows, metaRead, issues, since>>

\* The walk touches nothing that changes. verifyRotationContinuity begins with
\* a query for the segments of its own.
WalkAndReadSegments ==
    /\ Verifying /\ At("walk", "continuity")
    /\ issues' = issues \cup ChainIssues(rows, WalkStart(All, segsRead), metaRead)
                        \cup PairIssues(rows)
    /\ segsRead' = segments
    /\ UNCHANGED <<role, keyed, rows, metaRead, since>>

\* ... and looks at the active rows once more.
ReadFirstActive ==
    /\ Verifying /\ At("continuity", IF keyed THEN "head" ELSE "done")
    /\ issues' = issues \cup RotationIssues(segsRead, events)
    /\ UNCHANGED <<role, keyed, rows, metaRead, segsRead, since>>

\* verifySeal reads the head when everything else has been read.
ReadHeadLast ==
    /\ Verifying /\ At("head", "done")
    /\ issues' = issues \cup SealIssues(rows, head)
    /\ UNCHANGED <<role, keyed, rows, metaRead, segsRead, since>>

(* ------------------------- psy tail, queries, export --------------------- *)

First(n, s)  == SubSeq(s, 1, IF n < Len(s) THEN n ELSE Len(s))
LastSeqOf(s)     == IF s = <<>> THEN 0 ELSE s[Len(s)].seq
\* Mutant: the last row is asked for again.
EventFrom(n, limit)  == First(limit, BySeq({r \in events : r.seq >= n}))
\* SELECT * FROM events WHERE seq > n ORDER BY seq ASC LIMIT limit
EventAfter(n, limit) == First(limit, BySeq({r \in events : r.seq > n}))
\* ... LIMIT limit OFFSET offset
Page(limit, offset)  == First(limit, SubSeq(BySeq(events), offset + 1, Cardinality(events)))

\* psy tail: what is there at first, and every second what came after the last
\* row it printed.
Poll ==
    /\ role = "follow" /\ at' = "following"
    /\ rows' = rows \o EventAfter(LastSeqOf(rows), MaxSeq)
    /\ UNCHANGED <<role, keyed, metaRead, segsRead, issues, since>>

\* Auditor.tail asks meta for the last number, then for that many rows.
ReadLastSeq ==
    /\ role = "newest" /\ At("start", "rows")
    /\ metaRead' = meta
    /\ UNCHANGED <<role, keyed, rows, segsRead, issues, since>>
TailStart == IF metaRead.last_seq > PageSize THEN metaRead.last_seq - PageSize ELSE 0
ReadTail ==
    /\ role = "newest" /\ At("rows", "done")
    /\ rows' = EventAfter(TailStart, PageSize)
    /\ UNCHANGED <<role, keyed, metaRead, segsRead, issues, since>>

\* A page of psy query; the caller asks for the next one until one is short.
ReadPage ==
    /\ role = "pages" /\ at \in {"start", "next"}
    /\ LET page == Page(PageSize, Len(rows)) IN
       /\ rows' = rows \o page
       /\ at' = IF Len(page) < PageSize THEN "done" ELSE "next"
    /\ UNCHANGED <<role, keyed, metaRead, segsRead, issues, since>>

\* Array.sort by number
Sorted(s) ==
    LET f == CHOOSE f \in Bijection(DOMAIN s, DOMAIN s) :
                 \A i, j \in DOMAIN s : i < j => s[f[i]].seq <= s[f[j]].seq
    IN  [i \in DOMAIN s |-> s[f[i]]]

\* queryEvents with the archives: them first, then the active rows.
ReadOldHistory ==
    /\ role = "history" /\ At("start", "rows")
    /\ rows' = ArchivedEvents
    /\ UNCHANGED <<role, keyed, metaRead, segsRead, issues, since>>
ReadNewHistory ==
    /\ role = "history" /\ At("rows", "done")
    /\ rows' = Sorted(rows \o BySeq(events))
    /\ UNCHANGED <<role, keyed, metaRead, segsRead, issues, since>>

(* ------------------------------- the system ------------------------------ *)

ReaderStep == \/ LoadSealer \/ ReadArchives \/ ReadActive \/ ReadMeta \/ ReadSegments
              \/ WalkAndReadSegments \/ ReadFirstActive \/ ReadHeadLast
              \/ Poll \/ ReadLastSeq \/ ReadTail \/ ReadPage
              \/ ReadOldHistory \/ ReadNewHistory

\* A step of a writer, and what of it a reader can notice.
WriterStep ==
    /\ Next
    /\ since' = IF at \in {"start", "done"} THEN since
                ELSE since \cup {c \in {"rotation"} : segments' # segments}
                           \cup {c \in {"write"}    : <<meta, head>>' # <<meta, head>>}
    /\ UNCHANGED <<role, at, keyed, rows, metaRead, segsRead, issues>>

ReadersNext == (ReaderStep /\ UNCHANGED vars) \/ WriterStep

ReadersSpec == /\ ReaderInit /\ [][ReadersNext]_everything
               /\ \A p \in Proc : WF_vars(Step(p))

-------------------------------------------------------------------------------
MetaCodes == {"meta_head_mismatch", "meta_seq_mismatch"}

(* Rows that psy verify --all passes are the whole truth, whatever was      *)
(* written while it ran: they are every row up to the last of them, no call *)
(* among them lacks a row, and the sealed head names the last one.          *)
CleanReportIsTrue ==
    All /\ at = "done" /\ issues = {} =>
       /\ Range(rows) = {r \in AllRows : r.seq <= Len(rows)}
       /\ PairIssues(rows) = {}
       /\ SealRequired => keyed /\ head.seq >= LastSeqOf(rows)

(* An alarm of psy verify that is none has a cause: nothing but unpaired    *)
(* calls is reported of a store at rest, and beside a writer that does not  *)
(* rotate nothing but them and an end of the chain that moved on.           *)
AlarmsHaveACause ==
    Verifying /\ at = "done" =>
       /\ since = {} /\ keyed => issues \subseteq PairCodes
       /\ "rotation" \notin since =>
             issues \subseteq PairCodes \cup SealCodes \cup MetaCodes
                        \cup {"seal_key_unavailable", "seal_missing_required"}

(* No reader misses a row that was there to be read, or shows one twice:    *)
(* psy tail may pass over rows that were rotated away between two polls,    *)
(* Auditor.tail over rows that are archived, pages and the whole history    *)
(* are complete unless a rotation came between their statements.            *)
ReadersMissNothing ==
    LET shown    == {rows[i].seq : i \in DOMAIN rows}
        archived == {r.seq : r \in ArchivedRows}
    IN  /\ ~Verifying => Cardinality(shown) = Len(rows)
        /\ role = "follow" => 1 .. LastSeqOf(rows) \subseteq shown \cup archived
        /\ role = "newest" /\ at = "done" =>
              (TailStart + 1) .. metaRead.last_seq \subseteq shown \cup archived
        /\ role = "pages" /\ at = "done" /\ "rotation" \notin since =>
              {r.seq : r \in events} \ shown \subseteq (LastSeqOf(rows) + 1) .. meta.last_seq
        /\ role = "history" /\ at = "done" /\ "rotation" \notin since =>
              shown = 1 .. Len(rows)
===============================================================================
