----------------------------- MODULE HermesIngest -----------------------------
(***************************************************************************)
(* The Hermes plugin's ingest pipeline: IngestClient of                    *)
(* psy_core/hermes/ingest_client.py and the `psy ingest` children it       *)
(* talks to (src/cli.ts).                                                  *)
(*                                                                         *)
(* Hook threads put envelopes into one bounded queue. Starting a child     *)
(* starts a writer thread with it; a writer takes an envelope, writes it   *)
(* to the child's stdin and waits for one ACK line. What a writer thread   *)
(* does between two operations on shared objects is one step; whatever     *)
(* runs under self._lock is one step too.                                  *)
(*                                                                         *)
(* A child commits a row (a write path of AuditChain) and then prints its  *)
(* ACK, in the order of its input lines; it may die at any moment.         *)
(***************************************************************************)
EXTENDS Naturals, Sequences, FiniteSets

CONSTANTS MaxSends,        \* bound: envelopes, each sent by a hook thread of its own
          HookThreads,     \* size of the pool the hooks run on
          NoEnvelope,
          Stop,            \* the sentinel close() puts into the queue
          QueueMax,        \* QUEUE_MAX_SIZE
          MaxConsecutive,  \* MAX_CONSECUTIVE_FAILURES
          MaxSpawns,       \* bound: children started
          MaxFaults        \* bound: deaths, failed spawns, ACK timeouts

Envelopes == 1 .. MaxSends  \* by the order their sends begin

ASSUME EnvelopeAssumption == {NoEnvelope, Stop} \cap Envelopes = {} /\ NoEnvelope # Stop
ASSUME LimitAssumption == /\ MaxSends \in Nat /\ HookThreads \in Nat \ {0}
                          /\ QueueMax \in Nat \ {0} /\ MaxConsecutive \in Nat \ {0}
                          /\ MaxSpawns \in Nat /\ MaxFaults \in Nat

Child == 1 .. MaxSpawns   \* by the order of their start; a writer has its child's number
None  == 0                \* no child

VARIABLES
    queue,      \* self._queue
    proc,       \* self._proc, None while there is none
    failures,   \* self._consecutive_failures
    degraded,   \* self._degraded_until_restart
    closed,     \* self._closed
    closing,    \* the child close() is about to terminate
    hook,       \* where the send of each envelope is
    writer,     \* where each writer thread is
    pipe,       \* the child each writer thread drives
    holding,    \* the envelope each writer thread has taken
    child,      \* "none", "up" or "dead"
    inbox,      \* lines each child has not read yet
    unacked,    \* the envelope each child is done with but has not acknowledged
    acks,       \* ACK lines of each child not read yet
    accepted,   \* envelopes whose send returned True, in queue order
    recorded,   \* rows in the store, in commit order
    rejected,   \* envelopes a child answered with ok: false
    blamed,     \* history: writer failures counted so far
    impatient,  \* history: some ACK was not waited for any longer
    unserializable,  \* history: envelopes json.dumps refused
    faults

clientVars == <<proc, failures, degraded, closed, closing, blamed>>
writerVars == <<writer, pipe, holding>>
childVars  == <<child, inbox, unacked, acks, recorded, rejected>>
history    == <<accepted, impatient, unserializable>>
vars == <<queue, proc, failures, degraded, closed, closing, hook, writer, pipe,
          holding, child, inbox, unacked, acks, accepted, recorded, rejected,
          blamed, impatient, unserializable, faults>>

Init == /\ queue = <<>> /\ proc = None
        /\ failures = 0 /\ degraded = FALSE /\ closed = FALSE /\ closing = None
        /\ hook = [e \in Envelopes |-> "check"]
        /\ writer = [t \in Child |-> "none"] /\ pipe = [t \in Child |-> None]
        /\ holding = [t \in Child |-> NoEnvelope]
        /\ child = [c \in Child |-> "none"]
        /\ inbox = [c \in Child |-> <<>>] /\ acks = [c \in Child |-> <<>>]
        /\ unacked = [c \in Child |-> NoEnvelope]
        /\ accepted = <<>> /\ recorded = <<>> /\ rejected = {}
        /\ blamed = 0 /\ impatient = FALSE /\ unserializable = {} /\ faults = 0

Fault == faults < MaxFaults /\ faults' = faults + 1

\* _record_failure
RecordFailure == /\ failures' = failures + 1
                 /\ degraded' = (degraded \/ failures + 1 >= MaxConsecutive)

(* ------------------------------ hook threads ---------------------------- *)

\* send: the two flags, read without the lock.
SendCheck(e) ==
    /\ hook[e] = "check" /\ \A f \in Envelopes : f < e => hook[f] # "check"
    /\ Cardinality({f \in Envelopes : hook[f] \in {"start", "put"}}) < HookThreads
    /\ hook' = [hook EXCEPT ![e] = IF closed \/ degraded THEN "dropped" ELSE "start"]
    /\ UNCHANGED <<queue, clientVars, writerVars, childVars, history, faults>>

\* Mutant: every send starts a child.
ProcNeverAlive == FALSE
ProcAlive == proc # None /\ child[proc] = "up"

\* _ensure_started finds its child alive.
AlreadyStarted(e) ==
    /\ hook[e] = "start" /\ ProcAlive
    /\ hook' = [hook EXCEPT ![e] = "put"]
    /\ UNCHANGED <<queue, clientVars, writerVars, childVars, history, faults>>

\* _ensure_started starts a child, waits for its handshake and starts a writer.
Spawn(e, c) ==
    /\ hook[e] = "start" /\ ~ProcAlive
    /\ child[c] = "none" /\ \A d \in Child : d < c => child[d] # "none"
    /\ child' = [child EXCEPT ![c] = "up"]
    /\ proc' = c
    /\ writer' = [writer EXCEPT ![c] = "starting"]
    /\ hook' = [hook EXCEPT ![e] = "put"]
    /\ UNCHANGED <<queue, failures, degraded, closed, closing, blamed, pipe, holding,
                   inbox, unacked, acks, recorded, rejected, history, faults>>

\* No handshake in time, or no child at all: then the old one stays in place.
SpawnFails(e) ==
    /\ hook[e] = "start" /\ ~ProcAlive
    /\ Fault
    /\ proc' \in {None, proc}
    /\ RecordFailure
    /\ hook' = [hook EXCEPT ![e] = "dropped"]
    /\ UNCHANGED <<queue, closed, closing, blamed, writerVars, childVars, history>>

Put(e) ==
    /\ hook[e] = "put"
    /\ \/ /\ Len(queue) < QueueMax
          /\ queue' = Append(queue, e) /\ accepted' = Append(accepted, e)
          /\ hook' = [hook EXCEPT ![e] = "sent"]
       \/ /\ Len(queue) = QueueMax
          /\ hook' = [hook EXCEPT ![e] = "dropped"]
          /\ UNCHANGED <<queue, accepted>>
    /\ UNCHANGED <<clientVars, writerVars, childVars, impatient, unserializable, faults>>

(* ----------------------------- writer threads --------------------------- *)

Goto(t, l) == writer' = [writer EXCEPT ![t] = l]

\* _run_writer reads self._proc when it gets to run, without the lock.
WriterStarts(t) ==
    /\ writer[t] = "starting"
    /\ pipe' = [pipe EXCEPT ![t] = proc]
    /\ Goto(t, IF proc = None THEN "done" ELSE "loop")
    /\ UNCHANGED <<queue, clientVars, hook, holding, childVars, history, faults>>

Take(t) ==
    /\ writer[t] = "loop" /\ queue # <<>>
    /\ queue' = Tail(queue)
    /\ IF Head(queue) = Stop
       THEN Goto(t, "done") /\ UNCHANGED holding
       ELSE Goto(t, "write") /\ holding' = [holding EXCEPT ![t] = Head(queue)]
    /\ UNCHANGED <<clientVars, hook, pipe, childVars, history, faults>>

\* Mutant: a writer leaves whenever the queue stayed empty.
WriterLeavesIdle(t) ==
    /\ writer[t] = "loop" /\ queue = <<>>
    /\ Goto(t, "done")
    /\ UNCHANGED <<queue, clientVars, hook, pipe, holding, childVars, history, faults>>
\* The queue stayed empty and the client is closed.
WriterLeaves(t) ==
    /\ writer[t] = "loop" /\ queue = <<>> /\ closed
    /\ Goto(t, "done")
    /\ UNCHANGED <<queue, clientVars, hook, pipe, holding, childVars, history, faults>>

\* Mutant: the envelope of a failed writer goes back into the queue.
FailAndRequeue(t) ==
    /\ holding' = [holding EXCEPT ![t] = NoEnvelope]
    /\ queue' = <<holding[t]>> \o queue
    /\ Goto(t, "retire")
    /\ RecordFailure /\ blamed' = blamed + 1
\* Mutant: a writer that fails does not count as a failure.
FailUncounted(t) ==
    /\ holding' = [holding EXCEPT ![t] = NoEnvelope]
    /\ Goto(t, IF closed THEN "done" ELSE "retire")
    /\ UNCHANGED <<queue, failures, degraded, blamed>>
\* The except clause of _run_writer: the envelope is given up.
Fail(t) ==
    /\ holding' = [holding EXCEPT ![t] = NoEnvelope]
    /\ IF closed
       THEN Goto(t, "done") /\ UNCHANGED <<failures, degraded, blamed>>
       ELSE Goto(t, "retire") /\ RecordFailure /\ blamed' = blamed + 1
    /\ UNCHANGED queue

Write(t) ==
    /\ writer[t] = "write"
    /\ \/ /\ child[pipe[t]] = "up"
          /\ inbox' = [inbox EXCEPT ![pipe[t]] = Append(@, holding[t])]
          /\ Goto(t, "await")
          /\ UNCHANGED <<queue, holding, failures, degraded, blamed>>
       \/ /\ child[pipe[t]] = "dead"
          /\ Fail(t)
          /\ UNCHANGED inbox
    /\ UNCHANGED <<proc, closed, closing, hook, pipe, child, unacked, acks,
                   recorded, rejected, history, faults>>

\* json.dumps raises TypeError, as for a tool result with a value JSON has no
\* form for: nothing catches it, the thread ends, its child stays up.
WriterBreaks(t) ==
    /\ writer[t] = "write"
    /\ unserializable' = unserializable \cup {holding[t]}
    /\ holding' = [holding EXCEPT ![t] = NoEnvelope]
    /\ Goto(t, "broken")
    /\ UNCHANGED <<queue, clientVars, hook, pipe, childVars, accepted, impatient, faults>>

\* _read_ack gets a line, ok or not.
ReadAck(t) ==
    /\ writer[t] = "await" /\ acks[pipe[t]] # <<>>
    /\ acks' = [acks EXCEPT ![pipe[t]] = Tail(@)]
    /\ holding' = [holding EXCEPT ![t] = NoEnvelope]
    /\ failures' = 0
    /\ Goto(t, "loop")
    /\ UNCHANGED <<queue, proc, degraded, closed, closing, blamed, hook, pipe,
                   child, inbox, unacked, recorded, rejected, history, faults>>

\* _read_ack gets the end of the file, the child being dead ...
AckEof(t) ==
    /\ writer[t] = "await" /\ acks[pipe[t]] = <<>> /\ child[pipe[t]] = "dead"
    /\ Fail(t)
    /\ UNCHANGED <<proc, closed, closing, hook, pipe, childVars, history, faults>>

\* Mutant: after a timeout the writer goes on with the same child.
AckTimeoutKeepsChild(t) ==
    /\ writer[t] = "await" /\ acks[pipe[t]] = <<>> /\ child[pipe[t]] = "up"
    /\ Fault
    /\ holding' = [holding EXCEPT ![t] = NoEnvelope]
    /\ RecordFailure /\ blamed' = blamed + 1
    /\ Goto(t, "loop")
    /\ impatient' = TRUE
    /\ UNCHANGED <<queue, proc, closed, closing, hook, pipe, childVars, accepted,
                   unserializable>>
\* ... or nothing in time, from a child that is only slow.
AckTimeout(t) ==
    /\ writer[t] = "await" /\ acks[pipe[t]] = <<>> /\ child[pipe[t]] = "up"
    /\ Fault
    /\ Fail(t)
    /\ impatient' = TRUE
    /\ UNCHANGED <<proc, closed, closing, hook, pipe, childVars, accepted,
                   unserializable>>

\* _retire_proc forgets the child under the lock, and terminates it after.
Retire(t) ==
    /\ writer[t] = "retire"
    /\ proc' = IF proc = pipe[t] THEN None ELSE proc
    /\ Goto(t, "kill")
    /\ UNCHANGED <<queue, failures, degraded, closed, closing, blamed, hook, pipe,
                   holding, childVars, history, faults>>

Kill(t) ==
    /\ writer[t] = "kill"
    /\ child' = [child EXCEPT ![pipe[t]] = "dead"]
    /\ Goto(t, "done")
    /\ UNCHANGED <<queue, clientVars, hook, pipe, holding, inbox, unacked, acks,
                   recorded, rejected, history, faults>>

(* --------------------------------- close -------------------------------- *)

Close ==
    /\ ~closed
    /\ closed' = TRUE
    /\ queue' = IF Len(queue) < QueueMax THEN Append(queue, Stop) ELSE queue
    /\ closing' = proc /\ proc' = None
    /\ UNCHANGED <<failures, degraded, blamed, hook, writerVars, childVars, history, faults>>

CloseKill ==
    /\ closing # None
    /\ child' = [child EXCEPT ![closing] = "dead"]
    /\ closing' = None
    /\ UNCHANGED <<queue, proc, failures, degraded, closed, blamed, hook, writerVars,
                   inbox, unacked, acks, recorded, rejected, history, faults>>

(* ------------------------------ the children ---------------------------- *)

\* psy ingest handles one line: a row is committed, or the line is refused.
Handle(c) ==
    /\ child[c] = "up" /\ inbox[c] # <<>> /\ unacked[c] = NoEnvelope
    /\ unacked' = [unacked EXCEPT ![c] = Head(inbox[c])]
    /\ inbox' = [inbox EXCEPT ![c] = Tail(@)]
    /\ \/ recorded' = Append(recorded, Head(inbox[c])) /\ UNCHANGED rejected
       \/ rejected' = rejected \cup {Head(inbox[c])} /\ UNCHANGED recorded
    /\ UNCHANGED <<queue, clientVars, hook, writerVars, child, acks, history, faults>>

Acknowledge(c) ==
    /\ child[c] = "up" /\ unacked[c] # NoEnvelope
    /\ acks' = [acks EXCEPT ![c] = Append(@, unacked[c])]
    /\ unacked' = [unacked EXCEPT ![c] = NoEnvelope]
    /\ UNCHANGED <<queue, clientVars, hook, writerVars, child, inbox, recorded,
                   rejected, history, faults>>

Dies(c) ==
    /\ child[c] = "up" /\ Fault
    /\ child' = [child EXCEPT ![c] = "dead"]
    /\ UNCHANGED <<queue, clientVars, hook, writerVars, inbox, unacked, acks,
                   recorded, rejected, history>>

HookStep(e)   == SendCheck(e) \/ AlreadyStarted(e) \/ (\E c \in Child : Spawn(e, c)) \/ Put(e)
WriterStep(t) == \/ WriterStarts(t) \/ Take(t) \/ WriterLeaves(t) \/ Write(t)
                 \/ WriterBreaks(t) \/ ReadAck(t) \/ AckEof(t) \/ Retire(t) \/ Kill(t)
ChildStep(c)  == Handle(c) \/ Acknowledge(c)

Next == \/ \E e \in Envelopes : HookStep(e) \/ SpawnFails(e)
        \/ \E t \in Child : WriterStep(t) \/ AckTimeout(t)
        \/ \E c \in Child : ChildStep(c) \/ Dies(c)
        \/ Close \/ CloseKill

Spec == /\ Init /\ [][Next]_vars
        /\ \A t \in Child : WF_vars(WriterStep(t))
        /\ \A c \in Child : WF_vars(ChildStep(c))

-------------------------------------------------------------------------------
RangeOf(s) == {s[i] : i \in DOMAIN s}
Maybe == Envelopes \cup {NoEnvelope}

TypeOK ==
    /\ queue \in Seq(Envelopes \cup {Stop}) /\ Len(queue) <= QueueMax
    /\ proc \in Child \cup {None} /\ closing \in Child \cup {None}
    /\ failures \in Nat /\ blamed \in Nat /\ impatient \in BOOLEAN /\ faults \in 0 .. MaxFaults
    /\ degraded \in BOOLEAN /\ closed \in BOOLEAN
    /\ hook \in [Envelopes -> {"check", "start", "put", "sent", "dropped"}]
    /\ writer \in [Child -> {"none", "starting", "loop", "write", "await", "retire", "kill", "done",
                           "broken"}]
    /\ pipe \in [Child -> Child \cup {None}]
    /\ holding \in [Child -> Maybe] /\ unacked \in [Child -> Maybe]
    /\ child \in [Child -> {"none", "up", "dead"}]
    /\ inbox \in [Child -> Seq(Envelopes)] /\ acks \in [Child -> Seq(Envelopes)]
    /\ accepted \in Seq(Envelopes) /\ recorded \in Seq(Envelopes)
    /\ rejected \subseteq Envelopes /\ unserializable \subseteq Envelopes

(* Children that die after the commit, ACKs that never come and restarts    *)
(* never make one envelope two rows: a failed envelope is not tried again   *)
(* (_run_writer).                                                           *)
RecordedOnce == \A i, j \in DOMAIN recorded : recorded[i] = recorded[j] => i = j

\* Two writers have one child only when the first started to run so late that
\* its own child was dead and replaced already.
PipesOwned == \A t, u \in Child : t # u /\ pipe[t] = pipe[u] => pipe[t] = None

(* What send accepted and is neither queued, nor in the hands of a writer,  *)
(* nor answered was given up, and each envelope given up before close       *)
(* counts as a failure towards the degraded state (_run_writer,             *)
(* _record_failure). Those json.dumps refuses are lost without being        *)
(* counted, and no others.                                                  *)
Pending == RangeOf(queue) \cup {holding[t] : t \in Child}
LossIsCounted ==
    PipesOwned /\ ~closed =>
        Cardinality(RangeOf(accepted) \ (Pending \cup RangeOf(recorded) \cup rejected
                                              \cup unserializable)) <= blamed

(* A writer never takes the ACK of an earlier envelope for that of its own: *)
(* after a timeout the child is given up with its late answers              *)
(* (_retire_proc).                                                          *)
AckMatches ==
    PipesOwned => \A t \in Child : writer[t] = "await" /\ acks[pipe[t]] # <<>>
                                     => Head(acks[pipe[t]]) = holding[t]

(* Rows are committed in the order their envelopes were queued, an intent   *)
(* before its result, whatever children die. It takes an ACK that timed out *)
(* or a close to break the order: only then a child that is still to be     *)
(* terminated and its successor are at work side by side.                   *)
Position(e) == CHOOSE i \in DOMAIN accepted : accepted[i] = e
RecordedInOrder ==
    PipesOwned /\ ~impatient /\ ~closed =>
        \A i, j \in DOMAIN recorded : i < j => Position(recorded[i]) < Position(recorded[j])

(* Without a fault and until close, every accepted envelope is answered that *)
(* is queued before the first one json.dumps refuses. From there on the queue *)
(* may have no writer: _ensure_started looks at the child alone, finds it     *)
(* alive and starts no other.                                                 *)
Unserializable(i) == accepted[i] \in unserializable
EveryEnvelopeIsAnswered ==
    \A e \in Envelopes :
        hook[e] = "sent" ~>
            \/ e \in RangeOf(recorded) \cup rejected \/ faults > 0 \/ closed
            \/ \E i, j \in DOMAIN accepted : i <= j /\ accepted[j] = e /\ Unserializable(i)
===============================================================================
