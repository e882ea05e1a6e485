------------------------------ MODULE HermesHooks ------------------------------
(***************************************************************************)
(* The event sources of the Hermes plugin: the pre and post hooks of       *)
(* psy_core/hermes/hooks.py and the file watcher of watcher.py, up to the  *)
(* envelopes they hand to the ingest client (HermesIngest).                *)
(*                                                                         *)
(* The result of a `memory` call is inferred: its pre hook stashes the     *)
(* intent in a table, the watcher sees a file change and takes the best    *)
(* recent entry. A `skill_manage` call has a post hook. Hooks run on the   *)
(* threads of the agent, the watcher on one of its own; what happens under *)
(* one lock is one step.                                                   *)
(*                                                                         *)
(* The dedupe cache forgets nothing here: its TTL is far longer than the   *)
(* pairing window, the only time this module counts. DedupeCache has what  *)
(* it forgets.                                                             *)
(***************************************************************************)
EXTENDS Naturals, FiniteSets, Sequences, SequencesExt

CONSTANTS Call,         \* tool calls of the agent
          Invocation,   \* what Hermes passes to the hooks of each
          File,         \* files under memories_dir that are watched
          Fallback,     \* MEMORY.md and USER.md
          Elsewhere,    \* names nothing watches, also under memories_dir
          Content, Absent,
          NoId,
          Window,       \* PAIR_WINDOW_S
          MaxTime,      \* bound
          MaxTrouble    \* bound: repeated hooks, foreign changes and refused sends, together

Id == {Invocation[c].id : c \in Call}
Memory(c) == Invocation[c].tool = "memory"

ASSUME InvocationAssumption ==
    /\ \A c \in Call : Invocation[c].tool \in {"memory", "skill_manage"}
    /\ \A c \in Call : Memory(c) => Invocation[c].path \in File
    /\ \A c \in Call : ~Memory(c) => Invocation[c].path \notin File
    /\ Fallback \subseteq File /\ Elsewhere \notin File
    /\ Absent \in Content /\ NoId \notin Id
ASSUME CallAssumption  == IsFiniteSet(Call)
ASSUME BoundAssumption == MaxTime \in Nat /\ MaxTrouble \in Nat /\ Window \in Nat

VARIABLES now,
          disk,      \* what each file holds
          phase,     \* where each call is
          repeats,   \* how often a pre hook has fired again
          dedupe,    \* HookHandlers.dedupe
          pending,   \* HookHandlers.pending: call id -> path and time of stashing
          started,   \* the observer of watchdog runs
          events,    \* files watchdog has an event for
          lastSeen,  \* MemoryWatcher._last_seen
          watcher,   \* the change the watcher is working on
          log,       \* envelopes offered to the ingest client, in order
          missed,    \* history: files whose last change was made before the
                     \* observer ran, or moved them away
          foreign,   \* history: changes that no tool call made
          refused    \* history: envelopes the ingest client refused

hookVars    == <<phase, repeats, dedupe>>
watcherVars == <<started, lastSeen, watcher>>
diskVars    == <<disk, events, missed, foreign>>
vars == <<now, disk, phase, repeats, dedupe, pending, started, events, lastSeen,
          watcher, log, missed, foreign, refused>>

Idle == [step |-> "idle"]

Init == /\ now = 0
        /\ disk = [f \in File |-> Absent] /\ lastSeen = disk
        /\ phase = [c \in Call |-> "new"] /\ repeats = 0
        /\ dedupe = {} /\ pending = [i \in {} |-> {}]
        /\ started = FALSE /\ events = {} /\ watcher = Idle
        /\ log = <<>> /\ missed = {} /\ foreign = 0 /\ refused = 0

Trouble == repeats + foreign + refused < MaxTrouble

\* An envelope goes to IngestClient.send, which takes or refuses it.
Offer(row) == /\ log' = Append(log, row)
              /\ refused' = IF row.taken THEN refused ELSE refused + 1
              /\ row.taken \/ Trouble

Forget(i) == pending' = [j \in DOMAIN pending \ {i} |-> pending[j]]

(* --------------------------------- hooks -------------------------------- *)

Key(c) == <<Invocation[c].id, Invocation[c].tool, Invocation[c].args>>

Seen(c) == Key(c) \in dedupe

\* _handle_pre up to the dedupe cache. Hermes may fire it twice for one call.
PreToolCall(c) ==
    /\ \/ phase[c] = "new" /\ UNCHANGED repeats
       \/ phase[c] = "ready" /\ Trouble /\ repeats' = repeats + 1
    /\ dedupe' = dedupe \cup {Key(c)}
    /\ phase' = [phase EXCEPT ![c] = IF Seen(c) THEN "ready" ELSE "send"]
    /\ UNCHANGED <<now, diskVars, pending, watcherVars, log, refused>>

SendIntent(c) ==
    /\ phase[c] = "send"
    /\ \E taken \in BOOLEAN :
          /\ Offer([type |-> "intent", source |-> "hook", id |-> Invocation[c].id,
                    key |-> Key(c), taken |-> taken])
          /\ phase' = [phase EXCEPT ![c] = IF taken THEN "stash" ELSE "ready"]
    /\ UNCHANGED <<now, diskVars, repeats, dedupe, pending, watcherVars>>

\* The intent becomes visible to the watcher. A call with the same id loses
\* its entry.
Stash(c) ==
    /\ phase[c] = "stash"
    /\ pending' = [i \in DOMAIN pending \cup {Invocation[c].id} |->
                     IF i = Invocation[c].id THEN [path |-> Invocation[c].path, at |-> now]
                                             ELSE pending[i]]
    /\ phase' = [phase EXCEPT ![c] = "ready"]
    /\ UNCHANGED <<now, diskVars, repeats, dedupe, watcherVars, log, refused>>

\* _handle_post, for skills only: send, then forget the intent.
SendResult(c) ==
    /\ phase[c] = "ran" /\ ~Memory(c)
    /\ \E taken \in BOOLEAN :
          Offer([type |-> "result", source |-> "hook", id |-> Invocation[c].id,
                 taken |-> taken])
    /\ phase' = [phase EXCEPT ![c] = "pop"]
    /\ UNCHANGED <<now, diskVars, repeats, dedupe, pending, watcherVars>>

PopIntent(c) ==
    /\ phase[c] = "pop"
    /\ Forget(Invocation[c].id)
    /\ phase' = [phase EXCEPT ![c] = "done"]
    /\ UNCHANGED <<now, diskVars, repeats, dedupe, watcherVars, log, refused>>

(* --------------------------------- files -------------------------------- *)

\* Mutant: on_deleted is not overridden.
Undeleted(kind, src, dest) ==
    CASE kind = "moved" -> dest [] kind = "written" -> src [] OTHER -> Elsewhere
\* The file a method of _Handler hands on: on_created, on_modified and on_deleted
\* the file the event is about, on_moved the destination, and the source never.
Concerned(kind, src, dest) == IF kind = "moved" THEN dest ELSE src

Event(kind, src, dest) ==
    events' = IF started THEN events \cup ({Concerned(kind, src, dest)} \cap File) ELSE events

\* A write in place, or of a temporary file moved onto f; or a deletion.
Write(f, v) ==
    /\ disk' = [disk EXCEPT ![f] = v]
    /\ Event(IF v = Absent THEN "deleted" ELSE "written", f, f)
    /\ missed' = IF started THEN missed \ {f} ELSE missed \cup {f}

\* The tool of a call runs, after its pre hook: it may fail, or leave the file
\* as it was.
RunTool(c) ==
    /\ phase[c] = "ready"
    /\ \/ /\ phase' = [phase EXCEPT ![c] = "ran"]
          /\ UNCHANGED diskVars
       \/ /\ Memory(c)
          /\ \E v \in Content \ {disk[Invocation[c].path]} : Write(Invocation[c].path, v)
          /\ phase' = [phase EXCEPT ![c] = "wrote"]
          /\ UNCHANGED foreign
    /\ UNCHANGED <<now, repeats, dedupe, pending, watcherVars, log, refused>>

\* A user, an editor or a background dream writes a file.
ForeignWrite(f, v) ==
    /\ Trouble /\ foreign' = foreign + 1
    /\ Write(f, v)
    /\ UNCHANGED <<now, hookVars, pending, watcherVars, log, refused>>

\* Somebody renames a watched file, to a name nothing watches or to another
\* watched one.
Rename(f, g) ==
    /\ Trouble /\ foreign' = foreign + 1
    /\ f # g /\ disk[f] # Absent
    /\ disk' = [h \in File |-> CASE h = f -> Absent [] h = g -> disk[f] [] OTHER -> disk[h]]
    /\ Event("moved", f, g)
    /\ missed' = IF started THEN (missed \ {g}) \cup {f} ELSE missed \cup ({f, g} \cap File)
    /\ UNCHANGED <<now, hookVars, pending, watcherVars, log, refused>>

(* -------------------------------- watcher ------------------------------- *)

\* MemoryWatcher.start, after it seeded the digests. The hooks are wired before.
StartObserver ==
    /\ ~started /\ started' = TRUE
    /\ UNCHANGED <<now, diskVars, hookVars, pending, lastSeen, watcher, log, refused>>

\* Mutant: a digest of None is taken for "cannot read, try later".
UnchangedOrGone(f) == disk[f] \in {lastSeen[f], Absent}
SameDigest(f) == disk[f] = lastSeen[f]

\* _on_change: hash the file and compare. Its debounce clock decides nothing:
\* within the window or not, the same digest is no change.
OnChange(f) ==
    /\ watcher = Idle /\ f \in events
    /\ events' = events \ {f}
    /\ IF SameDigest(f)
       THEN UNCHANGED <<lastSeen, watcher>>
       ELSE /\ lastSeen' = [lastSeen EXCEPT ![f] = disk[f]]
            /\ watcher' = [step |-> "pair", file |-> f, digest |-> disk[f], id |-> NoId]
    /\ UNCHANGED <<now, disk, missed, foreign, hookVars, pending, started, log, refused>>

Recent   == {i \in DOMAIN pending : pending[i].at + Window >= now}
Exact(f) == {i \in Recent : pending[i].path = f}

\* Mutant: the newest entry, whatever its path.
NewestOfAll(f) == Recent
Candidates(f) == IF Exact(f) # {} THEN Exact(f) ELSE IF f \in Fallback THEN Recent ELSE {}

Newest(I) == {i \in I : \A j \in I : pending[j].at <= pending[i].at}

\* Mutant: the entry is read and left in the table.
PairAndKeep ==
    /\ watcher.step = "pair"
    /\ \E i \in Newest(Candidates(watcher.file)) \cup {NoId} :
          /\ i = NoId => Candidates(watcher.file) = {}
          /\ watcher' = [watcher EXCEPT !.step = "send", !.id = i]
    /\ UNCHANGED <<now, diskVars, hookVars, pending, started, lastSeen, log, refused>>

\* _best_pending_for_change
Pair ==
    /\ watcher.step = "pair"
    /\ \/ /\ Candidates(watcher.file) = {}
          /\ watcher' = [watcher EXCEPT !.step = "send"]
          /\ UNCHANGED pending
       \/ \E i \in Newest(Candidates(watcher.file)) :
             /\ watcher' = [watcher EXCEPT !.step = "send", !.id = i]
             /\ Forget(i)
    /\ UNCHANGED <<now, diskVars, hookVars, started, lastSeen, log, refused>>

\* The rest of _on_change. NoId stands for outcome "unattributed".
SendChange ==
    /\ watcher.step = "send"
    /\ \E taken \in BOOLEAN :
          Offer([type |-> "result", source |-> "watcher", id |-> watcher.id,
                 file |-> watcher.file, digest |-> watcher.digest, taken |-> taken])
    /\ watcher' = Idle
    /\ UNCHANGED <<now, diskVars, hookVars, pending, started, lastSeen>>

Tick == /\ now < MaxTime /\ now' = now + 1
        /\ UNCHANGED <<diskVars, hookVars, pending, watcherVars, log, refused>>

Next == \/ \E c \in Call : \/ PreToolCall(c) \/ SendIntent(c) \/ Stash(c)
                           \/ RunTool(c) \/ SendResult(c) \/ PopIntent(c)
        \/ \E f \in File, v \in Content : ForeignWrite(f, v)
        \/ \E f \in File, g \in File \cup {Elsewhere} : Rename(f, g)
        \/ \E f \in File : OnChange(f)
        \/ StartObserver \/ Pair \/ SendChange \/ Tick

Spec == Init /\ [][Next]_vars

\* The watcher's thread runs; a send never waits.
FairSpec == Spec /\ WF_vars((\E f \in File : OnChange(f)) \/ Pair \/ SendChange)

(* ------------------------------- properties ----------------------------- *)

TypeOK ==
    /\ now \in 0 .. MaxTime /\ disk \in [File -> Content] /\ lastSeen \in [File -> Content]
    /\ phase \in [Call -> {"new", "send", "stash", "ready", "ran", "wrote", "pop", "done"}]
    /\ repeats + foreign + refused \in 0 .. MaxTrouble /\ dedupe \subseteq {Key(c) : c \in Call}
    /\ DOMAIN pending \subseteq Id
    /\ \A i \in DOMAIN pending : pending[i].at \in 0 .. now
    /\ started \in BOOLEAN /\ events \subseteq File /\ missed \subseteq File
    /\ watcher.step \in {"idle", "pair", "send"}

(* A result the watcher attributes to a call follows an intent of that call,  *)
(* and no intent is used for two of them, also when two calls share an id     *)
(* (the intent is sent before it is stashed, and popped when it is matched).  *)
EachIntentIsUsedOnce ==
    \A j \in DOMAIN log :
        LET id == log[j].id
            Upto(type, source) ==
                {k \in 1 .. j : /\ log[k].id = id /\ log[k].type = type
                                /\ log[k].source = source}
        IN  log[j].source = "watcher" /\ id # NoId
              => Cardinality({k \in Upto("intent", "hook") : log[k].taken})
                   >= Cardinality(Upto("result", "watcher"))

\* The watcher has caught up.
Quiet == started /\ events = {} /\ watcher = Idle

(* Once the watcher has caught up, the log ends with the contents every file  *)
(* has, however writes coalesced or were hashed late. Two changes may be      *)
(* missing until the file changes again: one made before the observer ran,    *)
(* and a disappearance by a rename, of which on_moved looks at the            *)
(* destination alone (watcher.py:131-138).                                    *)
ChangeOf(f, j) == log[j].source = "watcher" /\ log[j].file = f

NoChangeIsUnseen ==
    Quiet => \A f \in File \ missed :
        /\ lastSeen[f] = disk[f]
        /\ \A j \in DOMAIN log :
              /\ ChangeOf(f, j) /\ \A k \in j + 1 .. Len(log) : ~ChangeOf(f, k)
              => log[j].digest = disk[f]

(* Nothing but one memory call and some skill calls happens, within the       *)
(* window: then the change the memory call made has one result, and it is the *)
(* call's own (an exact path beats a newer entry, the test                    *)
(* test_watcher_prefers_pending_intent_with_same_memory_path).                *)
UndisturbedCallIsPaired ==
    \A c \in Call :
        /\ Quiet /\ Memory(c) /\ phase[c] = "wrote"
        /\ now <= Window /\ foreign = 0 /\ refused = 0
        /\ Invocation[c].path \notin missed
        /\ \A d \in Call \ {c} : Memory(d) => phase[d] = "new"
        => \E j \in DOMAIN log : 
              /\ log[j].source = "watcher" /\ log[j].id = Invocation[c].id
              /\ \A k \in DOMAIN log : log[k].source = "watcher" => k = j

(* A change of a watched file is noticed in the end, unless a rename took the *)
(* file away.                                                                 *)
ChangeIsNoticed ==
    \A f \in File : (lastSeen[f] # disk[f] /\ f \notin missed) ~> (lastSeen[f] = disk[f])
=============================================================================
