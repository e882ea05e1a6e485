--------------------------- MODULE OpenClawObserver ---------------------------
(***************************************************************************)
(* What the OpenClaw plugin reports: PsyOpenClawObserver (observer.js) on  *)
(* the before and after hooks of each tool call, OpenClawDreamCatcher      *)
(* (dream-catcher.js) on files that change without a hook.                 *)
(*                                                                         *)
(* Node runs one callback at a time, and a hook is one callback: it        *)
(* classifies the call into records, pairs them through two TTL caches and *)
(* sends their envelopes. A scan awaits between reading a file and         *)
(* comparing it with its snapshot, so hooks, writes and other scans come   *)
(* in between.                                                             *)
(***************************************************************************)
EXTENDS Naturals, Sequences, FiniteSets, SequencesExt

CONSTANTS Call,      \* tool calls; what a call writes is the call itself
          Event,     \* tool, id, args and the files each call names before and after
          File,
          RootDream, \* ROOT_DREAM_FILES
          NestedDream, \* files below memory/dreaming
          Absent, Dreamt,  \* contents besides those the calls write
          Ttl, MaxEntries,
          Scan,      \* scans that may overlap
          MaxTime,   \* bound
          MaxTrouble \* bound: repeated hooks and background writes, together

Dream == RootDream \cup NestedDream

\* The records come from the arguments of a call; only skill_workshop learns its file
\* from its result.
ASSUME EventAssumption ==
    /\ \A c \in Call : /\ Event[c].tool \in {"write", "patch"}
                       /\ Event[c].before \in Seq(File) /\ Event[c].after \in Seq(File)
                       /\ Len(Event[c].before) \in {0, Len(Event[c].after)}
    /\ Dream \subseteq File /\ RootDream \cap NestedDream = {}
    /\ Absent \notin Call /\ Dreamt \notin Call /\ Absent # Dreamt

ASSUME LimitAssumption == /\ Ttl \in Nat /\ MaxEntries \in Nat \ {0}
                          /\ MaxTime \in Nat /\ MaxTrouble \in Nat

Cache == INSTANCE TtlCache

VARIABLES now,
          disk,
          phase,       \* "new", "begun", "ran" or "done"
          pending,     \* PsyOpenClawObserver.pending: call id -> records
          dedupe,      \* PsyOpenClawObserver.dedupe
          snapshots,   \* OpenClawDreamCatcher.snapshots, by file
          scannedOnce, \* OpenClawDreamCatcher.scannedOnce
          scan,        \* where each scan is
          log,         \* envelopes of the hooks, in order, sent or suppressed
          caught,      \* changes the dream catcher reported
          repeats,     \* history: hooks that fired again
          foreign,     \* history: writes no tool call made
          raced        \* history: a scan used what was no longer so

vars == <<now, disk, phase, pending, dedupe, snapshots, scannedOnce, scan, log, caught,
          repeats, foreign, raced>>

NoScan == [step |-> "idle"]

Init == /\ now = 0
        /\ disk = [f \in File |-> Absent]
        /\ phase = [c \in Call |-> "new"]
        /\ pending = Cache!Empty /\ dedupe = Cache!Empty
        /\ snapshots = [f \in {} |-> Absent] /\ scannedOnce = FALSE
        /\ scan = [s \in Scan |-> NoScan]
        /\ log = <<>> /\ caught = {} /\ repeats = 0 /\ foreign = 0 /\ raced = FALSE

Trouble == repeats + foreign < MaxTrouble

(* --------------------------------- hooks -------------------------------- *)

\* operationForFileTool; a patch names its operations.
Operation(c, f) == IF Event[c].tool = "write" /\ disk[f] = Absent THEN "create" ELSE "str_replace"

\* auditRecordsForToolCall
Records(c, files) ==
    [i \in DOMAIN files |-> [operation |-> Operation(c, files[i]), file |-> files[i],
                             outcome |-> "ok"]]

\* Mutant: the operation is looked up again when the call is over.
CurrentRecords(current, found) == current

\* resultRecords, when the intent is still remembered.
ResultRecords(current, found) ==
    IF Len(current) = Len(found) /\ current # <<>>
    THEN [i \in DOMAIN current |-> [current[i] EXCEPT !.operation = found[i].operation]]
    ELSE found

Unattributed(current) == [i \in DOMAIN current |-> [current[i] EXCEPT !.outcome = "unattributed"]]

\* Mutant: observed writes do not reach the dream catcher.
NoteNothing(S, f) == S
\* noteObservedRecord
Note(S, f) == IF f \in Dream THEN [g \in DOMAIN S \cup {f} |-> IF g = f THEN disk[f] ELSE S[g]]
                             ELSE S

\* dedupeKey: only one of several records has a number in its call id (0 is none).
DedupeKey(kind, c, index) == <<kind, Event[c].id, index, Event[c].tool, Event[c].args>>

\* One turn of the loop of emitForToolCall.
EmitRecord(kind, c, records, i, acc) ==
    LET index == IF Len(records) = 1 THEN 0 ELSE i
        key   == DedupeKey(kind, c, index)
        new   == ~Cache!Has(acc.dedupe, key, now)
        row   == [type |-> kind, call |-> c, index |-> index, at |-> now, sent |-> new,
                  operation |-> records[i].operation, file |-> records[i].file,
                  outcome |-> records[i].outcome]
    IN  [dedupe    |-> Cache!Remember(acc.dedupe, key, now),
         log       |-> Append(acc.log, row),
         snapshots |-> IF new /\ kind = "result" THEN Note(acc.snapshots, records[i].file)
                                                 ELSE acc.snapshots]

\* The loop of emitForToolCall over its records.
Emit(kind, c, records) ==
    LET after[i \in 0 .. Len(records)] ==
          IF i = 0 THEN [dedupe |-> dedupe, log |-> log, snapshots |-> snapshots]
                   ELSE EmitRecord(kind, c, records, i, after[i - 1])
        last == after[Len(records)]
    IN  dedupe' = last.dedupe /\ log' = last.log /\ snapshots' = last.snapshots

\* A hook may fire again before the next thing happens to its call.
Fires(c, first, again) ==
    \/ phase[c] = first /\ phase' = [phase EXCEPT ![c] = again] /\ UNCHANGED repeats
    \/ phase[c] = again /\ Trouble /\ repeats' = repeats + 1 /\ UNCHANGED phase

BeforeToolCall(c) ==
    /\ Fires(c, "new", "begun")
    /\ LET records == Records(c, Event[c].before)
       IN  /\ pending' = IF records = <<>> THEN pending
                         ELSE Cache!Set(pending, Event[c].id, records, now)
           /\ Emit("intent", c, records)
    /\ UNCHANGED <<now, disk, scannedOnce, scan, caught, foreign, raced>>

AfterToolCall(c) ==
    /\ Fires(c, "ran", "done")
    /\ LET current == Records(c, Event[c].after)
           id      == Event[c].id
       IN  Emit("result", c, IF Cache!Has(pending, id, now)
                             THEN ResultRecords(current, Cache!Value(pending, id, now))
                             ELSE Unattributed(current))
    /\ pending' = Cache!Take(pending, Event[c].id, now)
    /\ UNCHANGED <<now, disk, scannedOnce, scan, caught, foreign, raced>>

(* --------------------------------- files -------------------------------- *)

\* The tool runs between its hooks: it writes its files, or fails.
RunTool(c) ==
    /\ phase[c] = "begun"
    /\ phase' = [phase EXCEPT ![c] = "ran"]
    /\ \/ disk' = [f \in File |-> IF f \in ToSet(Event[c].after) THEN c ELSE disk[f]]
       \/ UNCHANGED disk
    /\ UNCHANGED <<now, pending, dedupe, snapshots, scannedOnce, scan, log, caught, repeats,
                   foreign, raced>>

\* Background dreaming writes a file, or removes one.
Dreaming(f, v) ==
    /\ Trouble /\ foreign' = foreign + 1
    /\ disk' = [disk EXCEPT ![f] = v]
    /\ UNCHANGED <<now, phase, pending, dedupe, snapshots, scannedOnce, scan, log, caught,
                   repeats, raced>>

Tick == /\ now < MaxTime /\ now' = now + 1
        /\ UNCHANGED <<disk, phase, pending, dedupe, snapshots, scannedOnce, scan, log, caught,
                       repeats, foreign, raced>>

(* -------------------------------- scanning ------------------------------ *)

\* Mutant: only what the directories list now is looked at.
ListedFiles == RootDream \cup {f \in NestedDream : disk[f] # Absent}
\* candidatePathsForWorkspace
CandidatePaths == RootDream \cup {f \in NestedDream : disk[f] # Absent \/ f \in DOMAIN snapshots}

\* scanNow: the timer does not wait for the scan before.
StartScan(s) ==
    /\ scan[s] = NoScan
    /\ scan' = [scan EXCEPT ![s] = [step |-> "read", todo |-> CandidatePaths,
                                    emitNew |-> scannedOnce]]
    /\ UNCHANGED <<now, disk, phase, pending, dedupe, snapshots, scannedOnce, log,
                   caught, repeats, foreign, raced>>

\* inspectPath up to its await. The root files are the first candidates.
ReadFile(s, f) ==
    /\ scan[s].step = "read" /\ f \in scan[s].todo
    /\ f \in RootDream \/ scan[s].todo \cap RootDream = {}
    /\ scan' = [scan EXCEPT ![s] = [step |-> "compare", todo |-> @.todo \ {f}, emitNew |-> @.emitNew,
                                    file |-> f, current |-> disk[f]]]
    /\ raced' = (raced \/ \E c \in Call : phase[c] = "ran" /\ disk[f] = c)
    /\ UNCHANGED <<now, disk, phase, pending, dedupe, snapshots, scannedOnce, log,
                   caught, repeats, foreign>>

\* The rest of inspectPath, with the send of emitChange.
InspectPath(s) ==
    /\ scan[s].step = "compare"
    /\ LET f       == scan[s].file
           current == scan[s].current
           change  == IF f \in DOMAIN snapshots THEN snapshots[f] # current
                                                ELSE current # Absent /\ scan[s].emitNew
       IN  /\ snapshots' = [g \in DOMAIN snapshots \cup {f} |->
                              IF g = f THEN current ELSE snapshots[g]]
           /\ caught' = IF change THEN caught \cup {[file |-> f, digest |-> current]} ELSE caught
           /\ raced' = (raced \/ disk[f] # current)
    /\ scan' = [scan EXCEPT ![s] = [step |-> "read", todo |-> @.todo, emitNew |-> @.emitNew]]
    /\ UNCHANGED <<now, disk, phase, pending, dedupe, scannedOnce, log, repeats, foreign>>

EndScan(s) ==
    /\ scan[s].step = "read" /\ scan[s].todo = {}
    /\ scan' = [scan EXCEPT ![s] = NoScan]
    /\ scannedOnce' = TRUE
    /\ UNCHANGED <<now, disk, phase, pending, dedupe, snapshots, log, caught, repeats,
                   foreign, raced>>

ScanStep(s) == StartScan(s) \/ (\E f \in File : ReadFile(s, f)) \/ InspectPath(s) \/ EndScan(s)

Next == \/ \E c \in Call : BeforeToolCall(c) \/ RunTool(c) \/ AfterToolCall(c)
        \/ \E f \in Dream, v \in {Absent, Dreamt} : Dreaming(f, v)
        \/ \E s \in Scan : ScanStep(s)
        \/ Tick

Spec == Init /\ [][Next]_vars

\* The timer fires again and again, and file reads return.
FairSpec == Spec /\ \A s \in Scan : WF_vars(ScanStep(s))

(* ------------------------------- properties ----------------------------- *)

Record == [operation : {"create", "str_replace"}, file : File, outcome : {"ok", "unattributed"}]

Row == [type : {"intent", "result"}, call : Call, index : Nat, at : 0 .. now, sent : BOOLEAN,
        operation : {"create", "str_replace"}, file : File, outcome : {"ok", "unattributed"}]

Id  == {Event[c].id : c \in Call}
Key == {"intent", "result"} \X Id \X Nat \X {"write", "patch"} \X {Event[c].args : c \in Call}

Content == Call \cup {Absent, Dreamt}

TypeOK ==
    /\ now \in 0 .. MaxTime /\ disk \in [File -> Content]
    /\ phase \in [Call -> {"new", "begun", "ran", "done"}]
    /\ pending \in Seq([key : Id, value : Seq(Record), ts : 0 .. now])
    /\ dedupe \in Seq([key : Key, value : {TRUE}, ts : 0 .. now])
    /\ Len(pending) <= MaxEntries /\ Len(dedupe) <= MaxEntries
    /\ snapshots \in UNION {[F -> Content] : F \in SUBSET Dream}
    /\ scannedOnce \in BOOLEAN
    /\ scan \in [Scan -> {NoScan} \cup [step : {"read"}, todo : SUBSET Dream, emitNew : BOOLEAN]
                         \cup [step : {"compare"}, todo : SUBSET Dream, emitNew : BOOLEAN,
                               file : Dream, current : Content]]
    /\ log \in Seq(Row) /\ caught \subseteq [file : Dream, digest : Content]
    /\ repeats \in Nat /\ foreign \in Nat /\ repeats + foreign <= MaxTrouble
    /\ raced \in BOOLEAN

\* The host names the call: no other has its id (callIdForEvent falls back on the run's).
OwnId(c) == \A d \in Call \ {c} : Event[d].id # Event[c].id

\* The envelopes of a kind that were sent for call c.
Sent(kind, c) == {log[k] : k \in {j \in DOMAIN log : log[j].type = kind /\ log[j].call = c
                                                  /\ log[j].sent}}

(* The after hook of a call closes what its before hook opened: there is one  *)
(* result for each intent, under its call id, however late and however often  *)
(* the hooks fire; and when they fire once, within the TTL, the result has    *)
(* the operation the intent announced, though the file exists by now and the  *)
(* classification of the finished call may give another (resultRecords).      *)
ResultsMatchIntents ==
    \A c \in Call :
        LET opened == Sent("intent", c)
            closed == Sent("result", c)
        IN  OwnId(c) /\ phase[c] = "done" /\ opened # {}
            => /\ {r.index : r \in closed} = {i.index : i \in opened}
               /\ repeats = 0 /\ (\A r \in closed : \A i \in opened : r.at <= i.at + Ttl)
                  => {<<r.index, r.operation>> : r \in closed}
                       = {<<i.index, i.operation>> : i \in opened}

KeyOf(row) == DedupeKey(row.type, row.call, row.index)

(* A hook that fires again within the TTL adds no row, unless MaxEntries      *)
(* other keys fired in between (TtlCache.remember); and a row is suppressed   *)
(* only as the repetition of one that fired within the TTL.                   *)
RepeatsAreSuppressed ==
    \A k \in DOMAIN log :
        LET earlier == {j \in 1 .. k - 1 : KeyOf(log[j]) = KeyOf(log[k])}
        IN  IF log[k].sent
            THEN \A j \in earlier :
                   \/ log[k].at > log[j].at + Ttl
                   \/ Cardinality({KeyOf(log[i]) : i \in j + 1 .. k - 1} \ {KeyOf(log[k])})
                        >= MaxEntries
            ELSE \E j \in earlier : log[k].at <= log[j].at + Ttl

(* A write the hooks observed is not reported a second time as background     *)
(* dreaming (test "tool-observed dream writes update the catcher baseline"),  *)
(* unless a scan read the file before the after hook, or it changed again     *)
(* while the scan was looking at it.                                          *)
ObservedWritesAreNotDreams ==
    ~raced => \A r \in caught : r.digest \notin {c \in Call : OwnId(c)}

\* Snapshots and files agree.
CaughtUp == \A f \in Dream : IF f \in DOMAIN snapshots THEN snapshots[f] = disk[f]
                                                       ELSE disk[f] = Absent

(* When the files come to rest, the dream catcher catches up with them,       *)
(* however scans overlapped with writes, with hooks and with each other.      *)
DreamsAreCaught == <>[]CaughtUp
=============================================================================
