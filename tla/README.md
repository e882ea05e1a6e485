# psy-core in TLA+

psy-core keeps a tamper-evident log of what an agent does to its memory: rows in
a SQLite file, linked by hashes, rotated into archives, with an HMAC-sealed
pointer to the newest row. This directory models the parts of it where order,
concurrency and failure matter, checks them with TLC on small instances, and
proves the central safety results with TLAPS for every size.

Sections: 1 the system, 2 the modules, 3 the runs, 4 what they say of the code,
5 the proofs, 6 what is not modelled, 7 what could come next.

## 1. The system

| Part | State it keeps | Operations | Hard about it |
|---|---|---|---|
| Event store (`src/store.ts`, `src/hash.ts`) | tables `events`, `meta`, `rotation_segments`; archive files | append (with a rotation before it when due), rotateActiveSegment, lastEvent, ensureSchema | several processes; a rotation writes a file and then commits; rows are read before the lock is taken |
| Sealed head (`src/seal.ts`) | `.psy/head.json`, `.psy/seal-key` | readHead, writeHead, bootstrap | written after the commit, outside the transaction; read, compare, rename without a lock |
| Auditor (`src/auditor.ts`) | its lazily created sealer | record, recordCommand | the order check, append, seal; every step can throw; many calls open at once |
| Adapters (`src/adapters/*`) | a promise of an Auditor each; langchain a counter | a table from methods to rows; runAudited around every method | the handler runs between two records; listings, transactions, defaults, opt-outs |
| psy ingest (`src/ingest.ts`, `src/cli.ts`) | none between lines | envelope in, row and ACK out | commit and ACK are two steps |
| psy verify (`src/verify.ts`) | none | walk of the active rows, with `--all` of the archives too | must not blame a healthy store, must find missing results |
| psy init, SDK entry points (`src/cli.ts`, `src/index.ts`, `src/config.ts`) | `.psy.json` | create, migrate (seal what is there) | races with writers for the head |
| Readers (`query`, `tail`, `export` of `src/cli.ts`, `Auditor.tail`, `queryEvents`) | what they have read | one SELECT after the other | the store moves between two statements |
| Provider, context, redactor | the caller's context | identity of a call; thin wrappers | - |
| OpenClaw plugin (`plugins/psy-core-openclaw`) | a store connection; TTL caches; a table of file states | its own copy of the write path; pairing of hooks; workspace scan | second implementation of the same protocol |
| Hermes ingest client (`ingest_client.py`) | bounded queue, child, failure count | send, writer loop, spawn, retire, close | threads, a pipe, timeouts, restarts, loss |
| Hermes hooks and watcher (`hooks.py`, `watcher.py`) | pending calls, dedupe caches, last seen contents | pre/post hook, file change | pairing of three event sources |
| Hermes CLI, trust layer, statistics | none | reports | - |

How they interact: adapters call the Auditor in process; the Auditor, `psy
ingest` and the OpenClaw plugin are independent writers of the same store and
the same head file; Hermes hooks put envelopes into the ingest client's queue,
whose writer threads talk to `psy ingest` children over pipes. There is no lock
other than SQLite's write lock, and the head file is not under it.

What makes each part correct: the store - one gapless linked chain across
archives and table, nothing lost; the head - it always names a row of the chain
and follows it; the call - no effect without a committed intent, no success
without a committed result; verify - silent on a healthy store, and not silent
on an orphan; the ingest client - a row at most once, in order, and every loss
counted (but one kind, section 4).

## 2. Modules

| Module | What it is |
|---|---|
| `AuditTrail` | the abstract specification: a log that grows at its end and a witness that names one of its entries |
| `AuditChain` | the store, the archives, the head file and the five write paths, several processes at once |
| `ChainVerify` | what `psy verify` reports in each state of AuditChain |
| `AuditReaders` | one reader beside the writers of AuditChain, a statement at a time: psy verify, tail, query, export, history |
| `AuditedCall` | recordCommand / runAudited on top of AuditChain: calls, handlers, effects |
| `AdapterTables` | which row each method of each framework adapter makes, as operators |
| `AdapterCalls` | calls of a host through the adapters: classification, identity, runAudited, transactions, listings, counters |
| `HermesIngest` | hook threads, queue, writer threads and children of the Hermes ingest client |
| `HermesHooks` | the hooks of the Hermes plugin, the table of pending calls and the file watcher |
| `DedupeCache` | the dedupe cache of the Hermes hooks and the threads that call it |
| `TtlCache` | the cache of the OpenClaw plugin, as operators |
| `OpenClawObserver` | the hooks of the OpenClaw plugin with two such caches, and its dream catcher |
| `StoreOpen` | config file, meta table and seal key among the processes that open a store |
| `AuditChainProofs`, `AuditClientsProofs`, `AdapterCallsProofs`, `HermesIngestProofs`, `HermesHooksProofs`, `DedupeCacheProofs`, `OpenClawObserverProofs`, `StoreOpenProofs` | the theorems (section 5); AuditChainProofs has those of ChainVerify too, AuditClientsProofs those of AuditReaders and AuditedCall |
| `MCAuditChain`, `MCAuditReaders`, `MCAuditedCall`, `MCAdapterCalls`, `MCHermesHooks`, `MCOpenClawObserver`, `MCStoreOpen` | values for the constants; MCHermesHooks puts HermesHooks and DedupeCache side by side |

AuditChain implements AuditTrail; ChainVerify extends it, and AuditedCall and
AuditReaders extend both with the callers above and the readers beside it.
AdapterCalls is above AuditedCall: there a record is one step that succeeds or
fails, because AuditedCall shows what its steps are.
StoreOpen is what comes before AuditChain: it ends where a process is ready to
append. HermesHooks and OpenClawObserver are what comes before a record: they
end at the `send` of an envelope, which HermesIngest takes up for Hermes and
the `openclaw` processes of AuditChain for OpenClaw.

### AuditChain

A process is an Auditor, a `psy ingest`, a plugin or a `psy init`, running one
write path at a time: none of them awaits between the steps of one, so the only
interleaving is between processes (two Auditors in one Node process interleave
less, at whole records). A step is one thing the others see at once: a SQLite
statement or transaction, a read or a rename of the head file, the creation of
an archive. `Kind` says which write path a process runs; they differ as the
code differs: who looks at the tail when there is no head, who refuses when the
seal is required, who looks the intent up, who unlinks a failed archive.

| State | Code |
|---|---|
| `events`, `meta`, `segments` | the three tables |
| `archives` | files under the archives directory, by name (first and last sequence number) |
| `head` | `head.json`; `Genesis` while there is none |
| `lock` | an open `BEGIN IMMEDIATE`; only a rotation spans several steps under it |
| `pc`, `draft`, `seen`, `path`, `target` | where a write path is, and its locals |
| `sealer` | `Auditor.sealer` / `sealerInitialized` |
| `result` | how the last write path ended |

`Begin` ... `WriteHeadRename` follow one `record` in order: `EnsureSealer`,
`Migrate`, `ReadHead`, `Compare` (the check), `Lookup`, `RotateIfNeeded`,
`WriteArchive`, `CommitRotation`, `AppendRow`, `WriteHeadRead`,
`WriteHeadRename`. `BootstrapFails`, `Busy`, `RotationFails`, `IoError` and
`Crash` are the ways out.

Abstractions: a row's content is the call and the phase; a hash is the row it
is the hash of, so hashes of different rows differ; a rotation may be due or not
at any append (file size and age are not modelled); the store has been opened
before. A bad HMAC or an edited row never occurs: nothing modelled edits files.

### AuditedCall

A call takes the process's turn, records its intent, gives the turn up while the
handler runs, takes it again and records its result. A host changes the memory
store in `Mutate`, at any moment of a handler. A record that ends `broken` or
`failed` unwinds the call. All calls may be open at once.

### AuditReaders

A reader opens no transaction, so each of its statements sees the store of that
moment. `role` is what it is: `psy verify` with or without `--all` goes through
`LoadSealer`, `ReadArchives`, `ReadActive`, `ReadMeta`, `ReadSegments`,
`WalkAndReadSegments`, `ReadFirstActive`, `ReadHeadLast` in the order of
`verifyStore`; `psy tail` repeats `Poll`; `Auditor.tail` asks for the last number
and then for rows; `psy query --offset` asks a page at a time; the history reads
archives, then table. The seal key may be missing (`keyed`), and `SealPolicy` is
what the command makes of that. `since` notes what writers did meanwhile, and is
what the properties make their exceptions from. The operators of ChainVerify
(`ChainIssues`, `PairIssues`, `RotationIssues`, `SealIssues`) are applied to what
was read, and not to the state.

### AdapterCalls

A call is one method of one wrapped object. `Make` classifies it: by the tables
of AdapterTables, for GBrain after the host's own skips and opt-ins and with the
options for reads; a class is a row's operation and path, or `Skip` (not
audited), or `Refused`. Then it waits for its wrapper's Auditor
(`CreateAuditor`: one promise per wrapper, rejected for good when it fails), and
`RunAudited` records the intent, or the intent and a `validation_error` when the
call has no identity. `Mutate` is the host's object at work, at any moment of
the handler. LangGraph's `list` is a generator that its caller may leave;
LangChain's counter is read before the history is awaited and written after it;
GBrain's transaction keeps or undoes all its calls' changes. Rows of different
calls are kept apart. `Writers` has every method that changes something, also
those that no table has (`Unlisted`), which the adapters hand on. The slug of a
GBrain page is split at its slashes (`SlugPath`), so a path does not tell where
the slug ends: `Coincide` says which targets can share one.

### HermesIngest

`hook`, `writer` and `child` say where each `send`, each writer thread and each
child is. Envelope *i* is the *i*-th send; writer thread *k* is the one started
with child *k*, but which child it drives (`pipe`) it learns only when it first
runs, as in `_run_writer`. A child commits and acknowledges in two steps.
Writing a line ends in one of three ways: `Write`, `Fail` (the exceptions that
`_run_writer` catches, counted and followed by `Retire`), and `WriterBreaks`, for
the `TypeError` of `json.dumps` that it does not catch: the thread is gone
(`"broken"`), the envelope in its hands too, and the child stays up.
`unserializable` keeps those envelopes for the properties.
`HookThreads` is the size of the pool the hooks run on (1: hooks are
synchronous in the agent's loop).

### HermesHooks

A call goes through its pre hook (`PreToolCall`, `SendIntent`, `Stash`), its
tool, and, if it is a skill call, its post hook (`SendResult`, `PopIntent`).
Between two of these steps no lock is held, so other hooks and the watcher come
in between. The watcher's thread takes one event at a time: `OnChange` hashes
the file and compares, `Pair` takes an entry out of `pending`, `SendChange`
offers the result. `events` is a set: watchdog may deliver one event for
several writes, and a second event for an unchanged file does nothing.
`Concerned` is which file each method of `_Handler` takes an event to be about;
of a rename (`Rename`, to another watched file or to a name nothing watches,
`Elsewhere`) that is the destination, and the file renamed away raises none.
`Invocation` gives two calls one id where Hermes passes only a task id. A
content is its digest, and a file that cannot be read is an absent one. The
dedupe cache of the hooks forgets nothing in this module, its TTL being sixty
times the pairing window.

### DedupeCache

What the dedupe cache forgets over a longer time. `seen` is two steps: a thread
reads the clock (`ReadClock`), and takes the lock later (`LookUp`), so calls enter
the cache with times that are out of order. `store` is the sequence of the items
of the OrderedDict: expiry (`EvictExpired`) stops at the first young item, a hit
moves its item to the end with its old time (`MoveToEnd`), a new one pushes the
first out when there is one too many (`Record`). `calls` keeps every call with the
time it read (`at`), the time it held the lock (`when`) and what it was told
(`seen`). A thread that waited long for the lock expires less than it might, and
its item carries the time before the wait; RepeatsAreKnown measures each of its
two promises by the time that promises less.

### OpenClawObserver

Each hook is one step, as Node runs it: classification, pairing through
`pending`, suppression of repeats through `dedupe`, and `noteObservedRecord`. The
loop of `emitForToolCall` is a function of the number of records done (`Emit`), one
turn of it `EmitRecord`; `log` keeps the suppressed envelopes too, with `sent`
FALSE, since they renew their keys. Two calls may share an id (a host that names
only the run) and then pair with each other's records: the properties that
speak of one call's records ask for `OwnId`.
A cache is the sequence of its entries in the order of the JavaScript Map;
`TtlCache` follows `prune`, `trimToSize` and the reinsertion of `set`. A scan
takes its candidates, then for each file reads (`ReadFile`), waits, and compares
(`InspectPath`). The sends of a hook always come back (`IngestClient.send`
catches everything), so no step is left out after one.

### StoreOpen

A process takes a config (its own, or that of `.psy.json`), completes the meta
table one statement at a time, finds or publishes the seal key, and appends.
The two implementations of `ensureSchema` differ and are modelled apart:
`CheckMeta`/`SetMeta` look up each key and set it when missing (`store.ts`),
`ReadMeta`/`WriteMeta` read all and write all back (`ingest-client.js`).
Whoever makes the store has completed the meta table before others come to it
(`MayOpen`; for racing makers see section 4); `After` says which processes wait
for which others besides. Nothing orders the reads and writes of `.psy.json`:
two `psy init` read it (`ReadConfig`), write it (`WriteConfig`), load it and mark
it (`MarkRequired`) in any order. `stale` notes those that another one's write to
the file has passed by since they read it.

## 3. Runs

| Run | Instance | Shows |
|---|---|---|
| `chain_concurrent` | an SDK host, the plugin and `psy init`; 2 rows; rotations by size/age and by hand; 1 fault; required seal | ChainIntact, HistoryKept, HeadIsCommitted, ImplementsTrail, VerifyNeverBlamesTheChain, LockIsReleased |
| `chain_single` | one `psy ingest` and one reader, of each of six kinds; 3 rows; 1 fault; pages of 1 row; required seal | NoFalseAlarm, SealLagsByOne, ImplementsOneWayTrail, SealCatchesUp; CleanReportIsTrue, AlarmsHaveACause, ReadersMissNothing |
| `audited_calls` | an SDK host with 2 calls, another that rotates, 3 rows, 1 fault; optional seal | FailClosed, RunsUnderSeal, ReturnedIsRecorded, CallsGoOn, VerifyAllFlagsOrphans |
| `adapter_calls` | any method of any adapter beside one of those another call can get in the way of; two sets of options; identities from call, options and context; listings of 2 items; slugs with slashes; 1 fault | EffectIsAnnounced, RecordedAsSeen, OkIsKept, NumbersAreDistinct, RowsNameTheirTarget |
| `hermes_ingest` | 3 envelopes, a queue of 2, 2 children, 2 faults, any envelope perhaps unserializable, degraded after 2 failures | RecordedOnce, LossIsCounted, AckMatches, RecordedInOrder, EveryEnvelopeIsAnswered |
| `hermes_hooks` | two memory calls with one id, one skill call, two files, a window of 0 of 2 instants, 1 trouble; apart from them 3 keys, 2 threads, a cache of 2, TTL 1 of 3 instants, 4 hooks | EachIntentIsUsedOnce, NoChangeIsUnseen, UndisturbedCallIsPaired, ChangeIsNoticed; RepeatsAreKnown |
| `openclaw_observer` | a write, a patch of two files, caches of 3 entries and TTL 0 of 2 instants, beside one scan; or the patch alone at one instant, beside two scans; 1 trouble | ResultsMatchIntents, RepeatsAreSuppressed, ObservedWritesAreNotDreams, DreamsAreCaught |
| `store_open` | the plugin or `psy init` makes the store, the other comes to it; a host and `psy ingest` after the plugin; two `psy init`, in turn or at once; 2 rows | OneSealKey, StoreIsSound, ConfigOnlyHardens |
| `rotation_alarm` | one SDK host that rotates by hand | *violated:* a mismatch means tampering |
| `sdk_reseals` | one SDK host on a store without a head, required seal | *violated:* unsealed rows are never adopted |
| `plugin_rewinds` | a host made the store; the plugin opens it while the host appends | *violated:* meta describes the rows |
| `init_adopts` | a host made the store; `psy init` comes later | *violated:* verify starts where the rows do |

Why these bounds are enough. Two rows and three writers already give every
order of two writers in one append, a rotation of the row of another process
between the naming and the writing of an archive, two rotations that choose
the same file name, and a head that is behind. More rows only matter along one
process's history and to its readers: `chain_single` has three rows, so two
rotations, an archive before a table with two rows, and a page that is not the
last; what is true of the writer alone there is proved for any number of rows
(section 5). In `audited_calls` two calls interleave with each other and with
the other host's rotations in every order; three rows let one call complete
while the other is open. `adapter_calls` needs two calls, since a call can only
be disturbed by what others share with it: its wrapper's Auditor, the
transaction, the counter. One of the two may be anything, the other is one of
those that share something; its slugs are chosen so that a page has the
path of another page's tag, and two links one path. Three envelopes with a queue of two fill the queue,
keep one in a writer's hands, and leave one for a second child, or two behind one
that `json.dumps` refuses. `MaxSeq` stops
callers from beginning a record, never a record half-way, so a run may pass it
by the records already begun.

In `hermes_hooks` time has two instants and a window of zero, so an entry is
either in the window or out of it; two memory calls that share an id and a path
give the replaced entry, the skill call gives the wrong candidate for
MEMORY.md, and the second file (not in `Fallback`) the case without one. One
trouble (a repeated hook, a foreign write or rename, or a refused envelope) is what each
property can meet once. The dedupe cache shares nothing with them, so MCSpec moves
one of the two, chosen at the start, and leaves the other as it began. `MaxHooks` stops a
thread from beginning a call, so there are up to five on a cache of two: enough
for a key to be recorded, moved to the end, pushed towards the front and met again
before or after its time; two threads give times that are out of order. In `openclaw_observer` three cache entries are fewer than
the four rows of the two calls before their results, so caches are full. What a
scan does to another is to renew the snapshot while that one waits, or to find it
renewed, so overlapping scans are run beside the patch of two files alone, with
time at rest: its hooks and a background write come between any two steps of
either. In `store_open` every order of the openers after the first is there, and two rows
give one before and one after any step of theirs.

Deadlock is not checked: writers that reached the bound, calls that are over
and clients that are closed have nothing left to do.

Fairness. `FairSpec` asks each process to go on with a write path it has begun
(the code has no wait in it other than SQLite's busy timeout, which ends it).
`CallSpec` asks the same, and that a call whose record is over goes on; a
handler need not return. In `HermesIngest` writer threads and children that are
alive go on; hooks, faults and close may never happen. In HermesHooks the
thread of watchdog goes on with the events it has; in OpenClawObserver the
timer goes on starting scans and file reads return. StoreOpen has no fairness,
and no liveness, and neither have AdapterCalls and DedupeCache; readers may stop. No fairness is
asked of crashes, timeouts, rotations, tools, hooks or writes to files.

Liveness: LockIsReleased and SealCatchesUp in AuditChain, CallsGoOn in
AuditedCall, EveryEnvelopeIsAnswered in HermesIngest, ChangeIsNoticed in
HermesHooks, DreamsAreCaught in OpenClawObserver.

## 4. What the violated runs say of the code

- **rotation_alarm** - `rotateActiveSegment` leaves an empty table and a head
  that points into the archive; every later record is refused as tampering.
  An append that fails or crashes right after the rotation it began with leaves
  the same state. `psy init --migrate` does not help: the head is already right.
- **sdk_reseals** - `ensureSealer` marks itself initialized before it refuses;
  the second record of the same Auditor finds no head, skips the check,
  appends, and writes a head over rows that were never sealed.
- **plugin_rewinds** - the plugin's `ensureSchema` reads the meta table and then
  writes every key back, `last_seq` and `chain_head_hash` too. A row appended in
  between stays in the table while meta is put back behind it: the next append
  computes a number that is taken and fails, and so does every later one.
- **init_adopts** - a host without a config makes the store with a nonce of its
  own. `psy init` then writes `.psy.json` with another nonce, and `psy verify`
  starts its walk from that one: the untouched first row is reported.

Seen in the models and not stated as properties, since the repository says so
itself or says nothing:

- Two writers between the read and the rename of `writeHead` can put the head
  back (`SECURITY.md:48`); HeadIsCommitted still holds, it is put back to a real row.
- Plain `psy verify` pairs the active rows only: an intent rotated into an
  archive before its result failed is found by `--all` (VerifyAllFlagsOrphans).
- A `send` that passed the closed check starts a child after `close`, and nobody
  terminates it; envelopes behind a failed writer wait for another send.
- A crash between archive and commit leaves a file that blocks later appends
  while the rotation is due (EEXIST); the plugin's rotation leaves it after any
  failure. A seal-key bootstrap that fails once leaves that Auditor unsealed.
- Two racing first openers of a store can end with the nonce of one and the
  genesis hash of the other (each key is looked up and set on its own), which
  is why `MayOpen` keeps the maker of a store alone. Two `psy init` at once can
  lose the required marker or change the nonce, since `.psy.json` is read, then
  written three awaits later, and marked at the end from what was read: both
  happen in `store_open`, always by an init in `stale`, which is all that
  ConfigOnlyHardens excepts.
- A change of MEMORY.md nobody announced goes to the newest pending call, a
  skill call too, and takes its entry away; a memory call that changed the same
  file within the window of another is paired with the newer one.
- A memory file renamed to a name nothing watches is gone without a row: `on_moved`
  (`watcher.py:131-138`) looks at the destination of a rename alone, while a
  deletion is noticed. So is one renamed onto the other watched file, as far as
  its old name goes. NoChangeIsUnseen and ChangeIsNoticed except a file whose
  last change took it away like this; the next write to it is noticed again.
- `json.dumps` may raise `TypeError` (`ingest_client.py:408`), which the writer
  thread does not catch (line 416): it ends without counting the failure or
  retiring its child, and `_ensure_started` (lines 259-260), which looks at the
  child alone, starts no other. That envelope is lost uncounted, those behind it
  wait until the child dies or the client closes, and when the queue is full
  `send` drops with a warning. Only results of skill calls can do it:
  `_summarize_result` (`hooks.py:352`, "Coerce a tool result into something
  JSON-serializable") hands lists and dictionaries on as they are, while the
  arguments of a call have been through `json.dumps` in the pre hook, whose
  exceptions are caught. LossIsCounted and EveryEnvelopeIsAnswered except just
  that envelope, and what is queued behind it.
- Writes between the seeding of the digests and the start of the observer are
  seen by neither.
- A scan that read a file before the after hook noted it reports the observed
  write a second time, and a background write between a tool's write and its
  after hook is taken into the baseline unreported: the exceptions of
  ObservedWritesAreNotDreams and the reason DreamsAreCaught speaks of snapshots.
- "A single background writer thread drains the queue" (`ingest_client.py`): a
  child that died idle is replaced with a second writer thread; the first goes on
  draining the queue towards the dead child, and the envelope it takes is lost
  (though counted: LossIsCounted).
- LangChain adds that overlap get the same number, and so do two adds in a row
  when a third, slower one ends after them, although "n is monotonic"
  (`langchain/wrap.ts:38`): NumbersAreDistinct excepts adds made
  while another was under way.
- A rejected `Auditor.create` is kept: every later call of that wrapper fails
  with it. A listing whose generator is neither finished nor closed leaves its
  intent without a result. The rows of a transaction that rolled back still say
  ok.
- What changes something and is in no table goes through without rows: GBrain's
  operations whose scope is `admin` or not given (`sync_brain`; those of scope
  `write` are refused), `executeRaw`, `setConfig` and the connection's
  `executeRaw`, which the tests of `gbrain-wrap.test.ts` (293-318, 545-563) ask
  for, and mem0's `reset` (`mem0/wrap.ts:39-41`). EffectIsAnnounced names them
  (`PassedOn`) and holds of everything else; a host can classify the GBrain ones
  itself, and then they have rows too.
- A page `people/alice/tags/founder` and the tag `founder` of `people/alice` have one
  path, and so do links whose slugs meet at different slashes (`slugPath`,
  `gbrain/wrap.ts:486-489`): the only cases in which RowsNameTheirTarget lets
  two targets share a path. Both occur in `adapter_calls`.
- `tail()` of the SDK asks `PsyStore.tail` for the oldest rows, `Auditor.tail` for
  the newest; `Auditor.query` filters what a LIMIT has already cut; the report of
  the dream catcher reads the oldest rows of a workspace.
- `psy tail` passes over rows that are rotated away between two polls; a rotation
  between two statements makes `psy verify` report gaps or a mismatch of a
  healthy store, a mere append only an end that moved on (AlarmsHaveACause).
- An intent that was rotated away makes `appendResult` refuse the result of its
  call (`findIntentSeq` looks in the active table only).
- A genuine second call with the same arguments within the TTL of the dedupe
  cache is taken for a repeated hook, since Hermes gives it no other id.

The properties PipesOwned qualifies in HermesIngest: a writer thread reads
`self._proc` only when it first runs. When its child is dead and replaced by
then, it drives the new child together with the new child's own thread, and the
two may read each other's ACKs. RecordedInOrder also excepts an ACK that timed
out and a close, after which an old child may still be at work beside its
successor: there the order really can break.

## 5. Proofs

| Module | Theorem | Statement |
|---|---|---|
| `AuditChainProofs` | `TypeCorrect` | `Spec => []TypeOK` |
| | `ChainStaysIntact` | `[]ChainIntact` |
| | `HeadStaysCommitted` | `[]HeadIsCommitted` |
| | `HistoryIsKept` | `HistoryKept`, an action property |
| | `Implements` | `ImplementsTrail`, the refinement of AuditTrail |
| | `NeverAFalseAlarm` | `OneWriter`: `[]NoFalseAlarm` |
| | `SealFollows` | `OneWriter`: `[]SealLagsByOne` |
| | `ImplementsOneWay` | `OneWriter`: the refinement of the trail whose witness never moves back |
| | `NeverBlamesTheChain` | `[]VerifyNeverBlamesTheChain` |
| `AuditClientsProofs` | `NothingMissed` | `[]ReadersMissNothing` |
| | `NoDamageUnlessRotated` | without a rotation meanwhile, verify reports no damage of the chain |
| | `NoCauselessAlarm` | `OneWriter`: `[]AlarmsHaveACause` |
| | `CleanReports` | `OneWriter`: `[]CleanReportIsTrue` |
| | `FailsClosed` | `[]FailClosed` |
| | `SuccessIsRecorded` | `[]ReturnedIsRecorded` |
| | `OrphansAreFlagged` | `[]VerifyAllFlagsOrphans` |
| | `HandlersRunUnderSeal` | `OneHost`: `RunsUnderSeal`, an action property |
| `AdapterCallsProofs` | `RecordsTellTheTruth` | `[]RecordedAsSeen` |
| | `OkIsTrue` | `[]OkIsKept` |
| | `NumbersStayDistinct` | `[]NumbersAreDistinct` |
| | `ChangesAreAnnounced` | `[]EffectIsAnnounced` |
| | `PathsNameTargets` | `ProperNames`: `[]RowsNameTheirTarget` |
| | `TypeCorrect` | `[]TypeOK` |
| `HermesIngestProofs` | `NoDuplicates` | `[]RecordedOnce` |
| | `AcksAreOwn` | `[]AckMatches` |
| | `LossesAreCounted` | `[]LossIsCounted` |
| | `RowsInOrder` | `[]RecordedInOrder` |
| | `TypeCorrect` | `[]TypeOK` |
| `HermesHooksProofs` | `IntentsAreUsedOnce` | `[]EachIntentIsUsedOnce` |
| | `ChangesAreSeen` | `[]NoChangeIsUnseen` |
| | `LoneCallsArePaired` | `IdsApart`: `[]UndisturbedCallIsPaired` |
| | `TypeCorrect` | `[]TypeOK` |
| `DedupeCacheProofs` | `RepeatsKnown` | `[]RepeatsAreKnown` |
| | `TypeCorrect` | `[]CacheTypeOK` |
| `OpenClawObserverProofs` | `RepeatsSuppressed` | `[]RepeatsAreSuppressed` |
| | `ObservedWrites` | `[]ObservedWritesAreNotDreams` |
| | `ResultsMatch` | `[]FewOpen` implies `[]ResultsMatchIntents` |
| | `TypeCorrect` | `[]TypeOK` |
| `StoreOpenProofs` | `OneKeyForAll` | `[]OneSealKey` |
| | `StoreStaysSound` | `PluginOpensFirst`: `[]StoreIsSound` |
| | `ConfigHardens` | `ConfigOnlyHardens`, an action property |
| | `TypeCorrect` | `[]TypeOK` |

A name before the colon is a hypothesis on the constants beside the assumptions
of the module (`FewOpen` is one on the behaviour); what it says, and why the statement needs it, is told below.
Each holds for every value of the constants that satisfies the named
assumptions of the module it is about: they say of what kind the constants are,
that a set of calls or children is finite, that `NoDraft`, `Free`, `NoId` and
the like are not what they stand beside, and (`RowAssumption`) that the rows of
different calls differ. `MenuAssumption` asks of the menu of AdapterCalls that
the messages of an add are counted by a number, `BoundAssumption` of HermesHooks
that the window is a number of instants.

**The store.** ChainIntact is not inductive: nothing in it says that a rotation
moves the rows the table really continues with, that a file about to be written
is not one a segment points at, or that a row about to be sealed exists. The
inductive invariant `IInv` adds

- `Split`: the segments partition the sequence numbers in order, the archive of
  each holds exactly its rows, and the active table holds the rest, so `meta`
  describes the newest active row whenever there is one;
- `Locked`: only the holder of the write lock is between archive and commit,
  its file holds exactly the active rows, and no segment points at it (which is
  why its unlink after a failure loses nothing);
- `Sealable`: the head, and whatever any process is about to seal, names a row
  of the chain;
- `Working`: a process on its way to an append has its row, one about to rename
  a head has a target.

There is one lemma per action that touches shared state and one for all the
others (`PrivateSteps`); `SameChain` serves the steps that move rows without
changing their set. `RowsStay` gives HistoryKept; `AppendCommits` and
`RenameSeals` are the two kinds of step of AuditTrail, every other is a stutter.

**One writer.** `OneWriter` says that there is one process, a `psy ingest` or a
plugin (the sealed writers that look at the tail when there is no head); an SDK
host is not among them because of what `sdk_reseals` shows. `LagInv` adds to
`IInv`: `Covered`, the head is the last row, or the last but one and then the
last is still in the table; `Knows`, what the writer has established at each
step of a write path; `Calm`, that before any fault head and tail agree
whenever they are compared. The middle one carries the proof: an append begins
only when the head covers everything, so that a rotation never moves an
uncovered row.

**Verify.** VerifyNeverBlamesTheChain needs `Filed` beside `IInv`: each segment
begins where the one before it ended, names the last row of its archive, and the
archive holds every number in between. Then what the two statements of the walk
return are `Rows(a, b)`, the rows of the chain from *a* + 1 to *b*: the archives
those up to the end of the last segment, the table the others
(`ArchivedRowsAre`, `ActiveRowsAre`), and of such a run each check of `verify.ts` is
passed. The walks are sequences built by sorting and joining; that the results
are these runs is shown from where each row stands in them, the steps over
several segments by the least one that would go wrong.

**Readers.** A reader holds rows of the chain that were there when it read them.
`ShowInv` says of each kind how the rows it holds lie to those archived since:
what `psy tail` and `Auditor.tail` do not hold is archived; the next page never
starts before a row already shown, since a rotation only moves the window
forward; the archives of the history and its table are one run while nothing was
rotated between. `AlarmInv` says the same of what a verify has gathered, so the
damage codes are out of reach while no rotation committed meanwhile, and that
what it reports is no less than what its rows show. These need nothing of the
writers. That an untouched store is passed does: with several sealing writers,
or an SDK host that goes on after a refusal, the head may be behind at rest, so
the other two theorems assume `OneWriter` and `SoundInv` rests on `LagInv`.

**Calls.** `CallInv` follows the row a host's write path carries: up to the
append it is the row of the call whose turn it is, afterwards it is committed,
and `record` returns "ok" only then. That committed rows stay is RowsStay. A
call that changed the memory has its intent in the chain; if it left no result,
the walk of `--all` meets the intent and no result beside it, which `OrphanInv`
(CallInv, VerifyInv, every row an intent or a result) turns into the code that
verify reports. RunsUnderSeal is about the head, which another host could put
back by a late rename; `OneHost` says that all calls belong to one process (others
may rotate, as `Bystanders` notes: they move rows and never the head), and
`Asking` follows what that process knows from its check to its own rename.

**Adapters.** `Sound` says of one call which rows it has at each place of
`runAudited`, which it ends with for each outcome, and that its change is in
the transaction's hands exactly while that is open; `OthersStay` shows that a
step of one call leaves the others sound. `NumberInv` orders the numbers of adds
that did not overlap by the counter they left. EffectIsAnnounced is a fact about the
tables: `Writers` lists for each surface the methods that change something, and
one lemma per surface shows that its classification gives each of them a row of
its own unless the host opted the method out or it is one of `Unlisted`; `Foretold`
carries that through a call. For RowsNameTheirTarget, `NameInv` says which path each
of the two tables writes for each target: a sequence of segments, of which those
of a slug may be several. Two paths of one kind agree from the end, where tag,
date, source or version stand, and then slug by slug (`PathsAreDistinct`); a page
has the path of something kept under another page only when its slug goes on
with that folder and name; and links of one path have one target unless their
first slugs differ in length. `ProperNames` excludes what the code
itself does not tell apart: a missing name, which `pathSegment` writes as
"unknown", like a page of that name; a timeline entry without a date, which only
the engine names "unknown-date"; a brain given per call; and target methods that
the host classifies itself.

**Hermes.** In HermesIngest an envelope is in one place of queue, writer, pipe
and store, and once; that a failed writer drops what it holds is what keeps
this true. How long it stays in which place is `Exchange`: while no two writers
drive one child, the pipes of a child hold nothing or the one line its writer
waits for, as a line, as what the child is done with, or as its ACK. So an ACK
is the writer's own, and what leaves a writer's hands is answered (`Answered`)
or a failure (`Counted`, by the cardinality of what was lost), or was refused by
`json.dumps`. For the order of
rows, `OneUp`: a child that is up is the newest one, and a writer that leaves
has a dead child; an ACK given up on, or a close, ends that. Then only one
envelope is underway at a time, behind every row and before the queue
(`Ordered`). In HermesHooks, `Balance` counts for each id: the intents taken are
at least the results that used one plus those about to be stashed, in the table
and with the watcher. `Shown` (a file without a pending event is as it was last
hashed) and `Told` (the last result of a file has the digest last seen, unless
the watcher is on its way with it) give NoChangeIsUnseen; a file renamed away is
outside both until its next event. For
UndisturbedCallIsPaired, `Alone` follows one call while it is the only memory
call: until it writes, nothing moves; its entry is in the table, no other has
its path and no post hook pops it; then its change is an event, with the watcher
unpaired, with the watcher paired, or the one row of the watcher (`OnItsWay`).
`IdsApart` says that no skill call has the id of a memory call: `hooks.py` audits
a skill call only when Hermes gave it an id of its own, and the post hook of one
that had the id would pop the entry.

**Caches.** Both plugins suppress repeated hooks through a cache that forgets by
time and by number, and what it has forgotten is not in it. So the invariants
compare the cache with the whole history of calls (`Tracks`): its entries are last
calls of their keys, in the order of the history; and a key whose last call has
no entry is past the TTL, or at least `MaxEntries` other keys had calls after it.
The count is what keeps this true when an entry is pushed out of a full cache:
the entries behind it are last calls of that many keys, different ones
(`CallKeepsTrack`, `TurnKeepsTrack`, by an injection). In the OpenClaw cache a
hit renews the time of its entry, so the times are in order and `prune` may drop
what it likes of the old. In DedupeCache a hit keeps the time of the intent it
repeats, and threads bring times that are out of order: there an entry carries
the time of the last intent of its key (`Since`), expiry may leave old entries
behind a young one, and the argument for a hit goes through the first entry, the
only one known to be young: its last call, not before its time, is before
that of any other entry.

**OpenClaw.** What the loop of a hook does is a function defined by recursion,
so the proof shows that such a function exists (`RecursionExists`, by the least
number at which it would not), and of each turn what it keeps. `HInv` has the
types, Tracks, that only hooks that fired have rows (`RowsInPhase`), that each
record of a hook was sent under its own call id (`IndexesSent`), and that pending
holds records of calls still open (`PendingOpen`). For ObservedWritesAreNotDreams,
`DInv` follows a write from the file to the snapshot: what is in a file was
written by a call that ran (`Written`), the after hook leaves it in the snapshot
(`Snapped`), and a scan that did not race compares nothing else (`Compared`). For
ResultsMatchIntents, `MInv` says that the intents of an open call are remembered
in pending with their time and operations, or past the TTL. That fails when
more calls are open at once than pending has room for: the oldest is pushed out,
and its results are the unattributed records of the finished call. `FewOpen`
excludes that (at most `MaxEntries` calls between their hooks, at any moment); the
number of calls over time is not bounded. With it a full cache that pushes an
entry out would hold more open calls than there are (`Crowded`).

**Opening a store.** OneSealKey is inductive with the types of `key` and
`keyFile`: a key is only published when there is none, and then nobody works
with one yet. StoreIsSound fails when the plugin's read and write of the meta
table have an append between them (`plugin_rewinds`), so `PluginOpensFirst` says
that the hosts that append come after the plugin. Under it `OpenInv` has two
halves: while meta is filled nobody has appended, and the one who makes the
store knows how far it is; once it is full, what the plugin is about to write
back is what is there. For ConfigOnlyHardens, with any number of inits at once,
`InHand` says that an init no other's write has passed by holds what the file
says, or that there is no file yet: what it writes back is what it read, or
harder. A write passes all others by, so the init that wrote last is the only
one that need not be in `stale`.

Only model-checked: all liveness (LockIsReleased, SealCatchesUp, CallsGoOn,
EveryEnvelopeIsAnswered, ChangeIsNoticed, DreamsAreCaught), which, like ENABLED,
is out of the prover's reach. Every other property of a passing run is a
theorem. Induction over data, which the library states for an operator
parameter, is replaced where it is needed (the walks of verify, the folds of the
caches) by the least number at which a statement would fail.

## 6. Not modelled

- Canonical JSON, SHA-256, HMAC, redaction, truncation, envelope schemas: data.
- Tampering: nothing edits a row, an archive or the head; the modules say what
  the code does by itself. The issue codes of `psy verify` for edited or
  unreadable files are left out with it.
- Torn files: head and key are written to a temporary name and renamed or
  linked, so a reader sees an old or a new one.
- What is printed: the filters of a query, the layout of reports and exports,
  the Hermes command line, its trust layer and its skill statistics, which only
  read and format.
- Registration of a provider, the tenants of a context (the identity of a call
  is in AdapterCalls), the encoding of paths, and slugs that differ only by doubled
  slashes or slashes at their ends, which `slugPath` drops (`SplitAssumption`).
- In the plugins: dry runs, stopping and closing of watcher and observer,
  exceptions inside a hook, several workspaces, the recognition of paths and
  patches.
- One physical file under two names: a scan of the dream catcher drops a
  candidate whose device and inode it has met already (`dream-catcher.js:76-82`,
  231-239). On a file system that ignores case, `DREAMS.md` and `dreams.md` are one
  file, as hard links and symbolic links are; a write that a hook noted under one
  name is then compared under the other, and ObservedWritesAreNotDreams would
  not hold. The files of OpenClawObserver are different ones.
- Lines of `psy ingest` that are JSON but no object, on which `ack.get` would
  raise: it prints none.
- A `.psy.json` read while it is half written (`writeFile` is not atomic).
- Paths and keys given by environment variables, and `--no-seal`.

## 7. What could come next

1. Two racing first openers in StoreOpen, once it is stated what they should
   agree on.
2. RunsUnderSeal beside other sealing hosts: what a late rename may undo, and
   for how long.
3. The filters of queries, beside the pages and offsets that AuditReaders has.
