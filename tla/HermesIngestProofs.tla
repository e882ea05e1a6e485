-------------------------- MODULE HermesIngestProofs --------------------------
(***************************************************************************)
(* Proofs about HermesIngest, for any number of envelopes, hook threads    *)
(* and children, any limit of the queue, and any number of deaths and      *)
(* timeouts.                                                               *)
(*                                                                         *)
(* That no row is recorded twice is not inductive: a row is recorded twice *)
(* when its envelope ever was in two places at once. An envelope goes      *)
(* through the queue, the hands of a writer, the pipe of a child and the   *)
(* store, and IInv says that it is at most once in one of them; that a     *)
(* failed writer drops what it holds is what keeps this true.              *)
(***************************************************************************)
EXTENDS HermesIngest, FiniteSetTheorems, TLAPS

Queued(e) == \E i \in DOMAIN queue : queue[i] = e
Held(e)   == \E t \in Child : writer[t] = "write" /\ holding[t] = e
Piped(e)  == \E c \in Child : \E i \in DOMAIN inbox[c] : inbox[c][i] = e
Stored(e) == \E i \in DOMAIN recorded : recorded[i] = e

(* The types of what the argument is about. *)
Types == /\ queue \in Seq(Envelopes \cup {Stop}) /\ recorded \in Seq(Envelopes)
         /\ proc \in Child \cup {None}
         /\ hook \in [Envelopes -> {"check", "start", "put", "sent", "dropped"}]
         /\ writer \in [Child -> {"none", "starting", "loop", "write", "await",
                                  "retire", "kill", "done", "broken"}]
         /\ pipe \in [Child -> Child \cup {None}]
         /\ holding \in [Child -> Envelopes \cup {NoEnvelope}]
         /\ inbox \in [Child -> Seq(Envelopes)]

(* A writer that is writing has a child and an envelope. *)
Busy == \A t \in Child : /\ writer[t] \in {"loop", "write", "await"} => pipe[t] \in Child
                         /\ writer[t] = "write" => holding[t] \in Envelopes

(* An envelope is in one place, *)
OnePlace == \A e \in Envelopes :
              /\ Queued(e) \/ Held(e) \/ Piped(e) \/ Stored(e) => hook[e] = "sent"
              /\ Queued(e) => ~Held(e) /\ ~Piped(e) /\ ~Stored(e)
              /\ Held(e)   => ~Piped(e) /\ ~Stored(e)
              /\ Piped(e)  => ~Stored(e)

(* and once. *)
QueuedOnce == \A i, j \in DOMAIN queue : queue[i] = queue[j] /\ queue[i] \in Envelopes => i = j
HeldOnce   == \A t, u \in Child : /\ writer[t] = "write" /\ writer[u] = "write"
                                  /\ holding[t] = holding[u]
                                  => t = u
PipedOnce  == \A c, d \in Child : \A i \in DOMAIN inbox[c], j \in DOMAIN inbox[d] :
                 inbox[c][i] = inbox[d][j] => c = d /\ i = j

IInv == Types /\ Busy /\ OnePlace /\ QueuedOnce /\ HeldOnce /\ PipedOnce /\ RecordedOnce
-------------------------------------------------------------------------------
LEMMA ConstantTypes ==
  /\ None \notin Child /\ NoEnvelope \notin Envelopes /\ Stop \notin Envelopes
BY EnvelopeAssumption, LimitAssumption DEF Child, None

LEMMA AppendIs ==
  ASSUME NEW S, NEW s \in Seq(S), NEW x \in S
  PROVE  /\ Append(s, x) \in Seq(S)
         /\ DOMAIN Append(s, x) = DOMAIN s \cup {Len(s) + 1} /\ Len(s) + 1 \notin DOMAIN s
         /\ Append(s, x)[Len(s) + 1] = x
         /\ \A i \in DOMAIN s : Append(s, x)[i] = s[i]
OBVIOUS

LEMMA TailIs ==
  ASSUME NEW S, NEW s \in Seq(S), s # <<>>
  PROVE  /\ Tail(s) \in Seq(S) /\ Head(s) \in S /\ 1 \in DOMAIN s /\ s[1] = Head(s)
         /\ \A i \in DOMAIN Tail(s) : /\ i + 1 \in DOMAIN s /\ i + 1 # 1 /\ i \in Nat
                                      /\ Tail(s)[i] = s[i + 1]
OBVIOUS

LEMMA InitEstablishes == Init => IInv
<1> SUFFICES ASSUME Init  PROVE IInv
  OBVIOUS
<1> USE ConstantTypes DEF Init
<1>1. Types
  BY DEF Types
<1>2. Busy
  BY DEF Busy
<1>3. OnePlace
  BY DEF OnePlace, Queued, Held, Piped, Stored
<1>4. QueuedOnce /\ HeldOnce /\ PipedOnce /\ RecordedOnce
  BY DEF QueuedOnce, HeldOnce, PipedOnce, RecordedOnce
<1> QED  BY <1>1, <1>2, <1>3, <1>4 DEF IInv

(* A writer goes on to a place where it does not need an envelope.           *)
LEMMA TypesGoOn ==
  ASSUME Types, Busy, UNCHANGED <<queue, recorded, hook, pipe, inbox>>, proc' \in Child \cup {None},
         NEW t \in Child,
         NEW l \in {"loop", "await", "retire", "kill", "done", "broken"},
         l \in {"loop", "await"} => writer[t] \in {"loop", "write", "await"},
         writer' = [writer EXCEPT ![t] = l],
         holding' = holding \/ holding' = [holding EXCEPT ![t] = NoEnvelope]
  PROVE  Types' /\ Busy'
<1>1. writer' \in [Child -> {"none", "starting", "loop", "write", "await", "retire", "kill", "done",
                            "broken"}]
  BY DEF Types
<1>2. /\ holding' \in [Child -> Envelopes \cup {NoEnvelope}]
      /\ \A u \in Child \ {t} : holding'[u] = holding[u] /\ writer'[u] = writer[u]
      /\ writer'[t] = l
  BY DEF Types
<1>3. Types'
  BY <1>1, <1>2 DEF Types
<1>4. Busy'
  BY <1>2 DEF Busy
<1> QED  BY <1>3, <1>4

LEMMA TypesStep ==
  ASSUME Types, Busy, Next
  PROVE  Types' /\ Busy'
<1> USE ConstantTypes DEF clientVars, writerVars, childVars, Types, Busy, Goto
<1>1. ASSUME NEW e \in Envelopes, HookStep(e) \/ SpawnFails(e)  PROVE Types' /\ Busy'
  <2>1. CASE SendCheck(e) \/ AlreadyStarted(e)
    BY <2>1 DEF SendCheck, AlreadyStarted
  <2>2. CASE \E c \in Child : Spawn(e, c)
    BY <2>2 DEF Spawn
  <2>3. CASE Put(e)
    <3>1. Append(queue, e) \in Seq(Envelopes \cup {Stop})
      OBVIOUS
    <3> QED  BY <2>3, <3>1 DEF Put
  <2>4. CASE SpawnFails(e)
    BY <2>4 DEF SpawnFails
  <2> QED  BY <1>1, <2>1, <2>2, <2>3, <2>4 DEF HookStep
<1>2. ASSUME NEW t \in Child, WriterStep(t) \/ AckTimeout(t)  PROVE Types' /\ Busy'
  <2>1. CASE WriterStarts(t)
    BY <2>1 DEF WriterStarts
  <2>2. CASE WriterLeaves(t)
    <3>1. /\ UNCHANGED <<queue, recorded, proc, hook, pipe, inbox, holding>>
          /\ writer' = [writer EXCEPT ![t] = "done"]
      BY <2>2 DEF WriterLeaves
    <3> QED  BY <3>1, TypesGoOn
  <2>3. CASE Take(t)
    <3>1. Tail(queue) \in Seq(Envelopes \cup {Stop}) /\ Head(queue) \in Envelopes \cup {Stop}
      BY <2>3 DEF Take
    <3>2. CASE Head(queue) = Stop
      BY <2>3, <3>1, <3>2 DEF Take
    <3>3. CASE Head(queue) # Stop
      <4>1. /\ writer' = [writer EXCEPT ![t] = "write"]
            /\ holding' = [holding EXCEPT ![t] = Head(queue)]
            /\ queue' = Tail(queue) /\ writer[t] = "loop"
            /\ UNCHANGED <<recorded, proc, hook, pipe, inbox>>
        BY <2>3, <3>3 DEF Take
      <4>2. holding' \in [Child -> Envelopes \cup {NoEnvelope}]
        BY <3>1, <3>3, <4>1
      <4>3. Types'
        BY <3>1, <4>1, <4>2
      <4>4. Busy'
        BY <3>1, <3>3, <4>1
      <4> QED  BY <4>3, <4>4
    <3> QED  BY <3>2, <3>3
  <2>4. CASE Write(t)
    <3>1. Append(inbox[pipe[t]], holding[t]) \in Seq(Envelopes)
      BY <2>4 DEF Write
    <3>2. inbox' \in [Child -> Seq(Envelopes)]
      BY <2>4, <3>1 DEF Write
    <3>3. /\ writer' \in [Child -> {"none", "starting", "loop", "write", "await",
                                    "retire", "kill", "done", "broken"}]
          /\ holding' \in [Child -> Envelopes \cup {NoEnvelope}]
          /\ UNCHANGED <<queue, recorded, proc, hook, pipe>>
      BY <2>4 DEF Write, Fail
    <3>4. Busy'
      <4>1. /\ UNCHANGED pipe
            /\ \A u \in Child \ {t} : writer'[u] = writer[u] /\ holding'[u] = holding[u]
        BY <2>4 DEF Write, Fail
      <4>2. pipe[t] \in Child /\ writer'[t] # "write"
        BY <2>4 DEF Write, Fail
      <4> QED  BY <4>1, <4>2
    <3> QED  BY <3>2, <3>3, <3>4
  <2>5. CASE ReadAck(t)
    <3>1. /\ UNCHANGED <<queue, recorded, proc, hook, pipe, inbox>> /\ writer[t] = "await"
          /\ writer' = [writer EXCEPT ![t] = "loop"]
          /\ holding' = [holding EXCEPT ![t] = NoEnvelope]
      BY <2>5 DEF ReadAck
    <3> QED  BY <3>1, TypesGoOn
  <2>6. CASE AckEof(t) \/ AckTimeout(t)
    <3>1. /\ UNCHANGED <<queue, recorded, proc, hook, pipe, inbox>>
          /\ \/ writer' = [writer EXCEPT ![t] = "done"]
             \/ writer' = [writer EXCEPT ![t] = "retire"]
          /\ holding' = [holding EXCEPT ![t] = NoEnvelope]
      BY <2>6 DEF AckEof, AckTimeout, Fail
    <3> QED  BY <3>1, TypesGoOn
  <2>7. CASE Retire(t)
    <3>1. /\ UNCHANGED <<queue, recorded, hook, pipe, inbox, holding>>
          /\ proc' \in Child \cup {None} /\ writer' = [writer EXCEPT ![t] = "kill"]
      BY <2>7 DEF Retire
    <3> QED  BY <3>1, TypesGoOn
  <2>8. CASE Kill(t)
    <3>1. /\ UNCHANGED <<queue, recorded, proc, hook, pipe, inbox, holding>>
          /\ writer' = [writer EXCEPT ![t] = "done"]
      BY <2>8 DEF Kill
    <3> QED  BY <3>1, TypesGoOn
  <2>9. CASE WriterBreaks(t)
    <3>1. /\ UNCHANGED <<queue, recorded, proc, hook, pipe, inbox>>
          /\ writer' = [writer EXCEPT ![t] = "broken"]
          /\ holding' = [holding EXCEPT ![t] = NoEnvelope]
      BY <2>9 DEF WriterBreaks
    <3> QED  BY <3>1, TypesGoOn
  <2> QED  BY <1>2, <2>1, <2>2, <2>3, <2>4, <2>5, <2>6, <2>7, <2>8, <2>9 DEF WriterStep
<1>3. ASSUME NEW c \in Child, Handle(c)  PROVE Types' /\ Busy'
  <2>1. Tail(inbox[c]) \in Seq(Envelopes) /\ Head(inbox[c]) \in Envelopes
    BY <1>3 DEF Handle
  <2>2. inbox' \in [Child -> Seq(Envelopes)]
    BY <1>3, <2>1 DEF Handle
  <2>3. recorded' \in Seq(Envelopes)
    <3>1. Append(recorded, Head(inbox[c])) \in Seq(Envelopes)
      BY <2>1
    <3> QED  BY <1>3, <3>1 DEF Handle
  <2> QED  BY <1>3, <2>2, <2>3 DEF Handle
<1>4. ASSUME NEW c \in Child, Acknowledge(c) \/ Dies(c)  PROVE Types' /\ Busy'
  BY <1>4 DEF Acknowledge, Dies
<1>5. CASE Close \/ CloseKill
  <2>1. Append(queue, Stop) \in Seq(Envelopes \cup {Stop})
    OBVIOUS
  <2> QED  BY <1>5, <2>1 DEF Close, CloseKill
<1> QED  BY <1>1, <1>2, <1>3, <1>4, <1>5 DEF Next, ChildStep

(* The control of threads and children goes on, and no envelope moves.      *)
LEMMA NothingMoves ==
  ASSUME IInv, UNCHANGED <<queue, inbox, recorded>>,
         \A t \in Child : writer'[t] = "write" => writer[t] = "write" /\ holding'[t] = holding[t],
         \A e \in Envelopes : hook[e] = "sent" => hook'[e] = "sent"
  PROVE  OnePlace' /\ QueuedOnce' /\ HeldOnce' /\ PipedOnce' /\ RecordedOnce'
BY DEF IInv, OnePlace, QueuedOnce, HeldOnce, PipedOnce, Queued, Held, Piped, Stored, RecordedOnce

LEMMA PutMoves ==
  ASSUME IInv, NEW e \in Envelopes, Put(e), hook'[e] = "sent"
  PROVE  OnePlace' /\ QueuedOnce' /\ HeldOnce' /\ PipedOnce' /\ RecordedOnce'
<1> USE DEF IInv
<1>1. /\ hook[e] = "put" /\ queue' = Append(queue, e) /\ hook' = [hook EXCEPT ![e] = "sent"]
      /\ UNCHANGED <<inbox, recorded, writer, holding>>
  BY DEF Put, Types, writerVars, childVars
<1>2. ~Queued(e) /\ ~Held(e) /\ ~Piped(e) /\ ~Stored(e)
  BY <1>1 DEF OnePlace
<1>3. /\ DOMAIN queue' = DOMAIN queue \cup {Len(queue) + 1} /\ Len(queue) + 1 \notin DOMAIN queue
      /\ queue'[Len(queue) + 1] = e
      /\ \A i \in DOMAIN queue : queue'[i] = queue[i]
  BY <1>1, AppendIs DEF Types
<1>4. \A f \in Envelopes : Queued(f)' <=> Queued(f) \/ f = e
  BY <1>3 DEF Queued
<1>5. OnePlace'
  BY <1>1, <1>2, <1>4 DEF OnePlace, Held, Piped, Stored, Types
<1>6. QueuedOnce'
  BY <1>2, <1>3 DEF QueuedOnce, Queued
<1> QED  BY <1>1, <1>5, <1>6 DEF HeldOnce, PipedOnce, RecordedOnce

LEMMA TakeMoves ==
  ASSUME IInv, NEW t \in Child, Take(t)
  PROVE  OnePlace' /\ QueuedOnce' /\ HeldOnce' /\ PipedOnce' /\ RecordedOnce'
<1> USE DEF IInv
<1>1. /\ queue # <<>> /\ queue' = Tail(queue) /\ writer[t] = "loop"
      /\ UNCHANGED <<inbox, recorded, hook>>
  BY DEF Take, childVars
<1>2. /\ Head(queue) \in Envelopes \cup {Stop} /\ 1 \in DOMAIN queue /\ queue[1] = Head(queue)
      /\ \A i \in DOMAIN queue' : /\ i + 1 \in DOMAIN queue /\ i + 1 # 1 /\ i \in Nat
                                  /\ queue'[i] = queue[i + 1]
  BY <1>1, TailIs DEF Types
<1>3. \A f \in Envelopes : Queued(f)' => Queued(f) /\ f # Head(queue)
  BY <1>2 DEF Queued, QueuedOnce
<1>4. QueuedOnce'
  <2> SUFFICES ASSUME NEW i \in DOMAIN queue', NEW j \in DOMAIN queue',
                      queue'[i] = queue'[j], queue'[i] \in Envelopes
               PROVE  i = j
    BY DEF QueuedOnce
  <2>1. i + 1 = j + 1
    BY <1>2 DEF QueuedOnce
  <2> QED  BY <1>2, <2>1
<1>5. CASE Head(queue) = Stop
  <2>1. \A u \in Child : writer'[u] = "write" => writer[u] = "write" /\ holding'[u] = holding[u]
    BY <1>5 DEF Take, Goto, Types
  <2>2. OnePlace'
    BY <1>1, <1>3, <2>1 DEF OnePlace, Held, Piped, Stored
  <2> QED  BY <1>1, <1>4, <2>1, <2>2 DEF HeldOnce, PipedOnce, RecordedOnce
<1>6. CASE Head(queue) # Stop
  <2>1. /\ Head(queue) \in Envelopes /\ Queued(Head(queue))
        /\ writer' = [writer EXCEPT ![t] = "write"]
        /\ holding' = [holding EXCEPT ![t] = Head(queue)]
    BY <1>2, <1>6 DEF Take, Goto, Queued
  <2>2. ~Held(Head(queue)) /\ ~Piped(Head(queue)) /\ ~Stored(Head(queue))
    BY <2>1 DEF OnePlace
  <2>3. \A f \in Envelopes : Held(f)' <=> Held(f) \/ f = Head(queue)
    BY <1>1, <2>1 DEF Held, Types
  <2>4. OnePlace'
    BY <1>1, <1>3, <2>1, <2>2, <2>3 DEF OnePlace, Piped, Stored
  <2>5. HeldOnce'
    BY <2>1, <2>2 DEF HeldOnce, Held, Types
  <2> QED  BY <1>1, <1>4, <2>4, <2>5 DEF PipedOnce, RecordedOnce
<1> QED  BY <1>5, <1>6

LEMMA WriteMoves ==
  ASSUME IInv, NEW t \in Child, Write(t)
  PROVE  OnePlace' /\ QueuedOnce' /\ HeldOnce' /\ PipedOnce' /\ RecordedOnce'
<1> USE DEF IInv
<1>1. /\ pipe[t] \in Child /\ holding[t] \in Envelopes /\ writer[t] = "write" /\ Held(holding[t])
      /\ UNCHANGED <<queue, recorded, hook>>
  BY DEF Write, Fail, Busy, Held
<1>2. \A u \in Child : /\ writer'[u] = "write" => u # t /\ writer[u] = "write"
                       /\ u # t => holding'[u] = holding[u]
  BY DEF Write, Fail, Goto, Types
<1>3. \A f \in Envelopes : Held(f)' => Held(f) /\ f # holding[t]
  BY <1>1, <1>2 DEF Held, HeldOnce
<1>4. HeldOnce'
  BY <1>2 DEF HeldOnce
<1>5. CASE UNCHANGED inbox
  <2>1. OnePlace'
    BY <1>1, <1>3, <1>5 DEF OnePlace, Queued, Piped, Stored
  <2> QED  BY <1>1, <1>4, <1>5, <2>1 DEF QueuedOnce, PipedOnce, RecordedOnce
<1>6. CASE inbox' = [inbox EXCEPT ![pipe[t]] = Append(@, holding[t])]
  <2> DEFINE p == pipe[t]
             x == holding[t]
             n == Len(inbox[p]) + 1
  <2> HIDE DEF p, x, n
  <2>1. ~Queued(x) /\ ~Piped(x) /\ ~Stored(x) /\ hook[x] = "sent" /\ p \in Child /\ x \in Envelopes
    BY <1>1 DEF OnePlace, p, x
  <2>2. /\ DOMAIN inbox'[p] = DOMAIN inbox[p] \cup {n} /\ n \notin DOMAIN inbox[p]
        /\ inbox'[p][n] = x
        /\ \A i \in DOMAIN inbox[p] : inbox'[p][i] = inbox[p][i]
        /\ \A c \in Child \ {p} : inbox'[c] = inbox[c]
    <3>1. inbox[p] \in Seq(Envelopes) /\ inbox'[p] = Append(inbox[p], x)
      BY <1>6, <2>1 DEF Types, p, x
    <3>2. \A c \in Child \ {p} : inbox'[c] = inbox[c]
      BY <1>6 DEF Types, p
    <3> QED  BY <2>1, <3>1, <3>2, AppendIs DEF n
  <2>3. \A f \in Envelopes : Piped(f)' => Piped(f) \/ f = x
    BY <2>2 DEF Piped
  <2>4. OnePlace'
    BY <1>1, <1>3, <2>1, <2>3 DEF OnePlace, Queued, Stored, x
  <2>5. PipedOnce'
    <3> SUFFICES ASSUME NEW c \in Child, NEW d \in Child,
                        NEW i \in DOMAIN inbox'[c], NEW j \in DOMAIN inbox'[d],
                        inbox'[c][i] = inbox'[d][j]
                 PROVE  c = d /\ i = j
      BY DEF PipedOnce
    <3>1. \/ c = p /\ i = n /\ inbox'[c][i] = x
          \/ i \in DOMAIN inbox[c] /\ inbox'[c][i] = inbox[c][i] /\ inbox[c][i] # x
      BY <2>1, <2>2 DEF Piped
    <3>2. \/ d = p /\ j = n /\ inbox'[d][j] = x
          \/ j \in DOMAIN inbox[d] /\ inbox'[d][j] = inbox[d][j] /\ inbox[d][j] # x
      BY <2>1, <2>2 DEF Piped
    <3> QED  BY <3>1, <3>2 DEF PipedOnce
  <2> QED  BY <1>1, <1>4, <2>4, <2>5 DEF QueuedOnce, RecordedOnce
<1> QED  BY <1>5, <1>6 DEF Write

LEMMA HandleMoves ==
  ASSUME IInv, NEW c \in Child, Handle(c)
  PROVE  OnePlace' /\ QueuedOnce' /\ HeldOnce' /\ PipedOnce' /\ RecordedOnce'
<1> USE DEF IInv
<1> DEFINE x == Head(inbox[c])
<1>1. /\ inbox[c] # <<>> /\ inbox[c] \in Seq(Envelopes) /\ inbox'[c] = Tail(inbox[c])
      /\ \A d \in Child \ {c} : inbox'[d] = inbox[d]
      /\ recorded' = recorded \/ recorded' = Append(recorded, x)
      /\ UNCHANGED <<queue, hook, writer, holding>>
  BY DEF Handle, Types, writerVars
<1>2. /\ x \in Envelopes /\ 1 \in DOMAIN inbox[c] /\ inbox[c][1] = x
      /\ \A i \in DOMAIN inbox'[c] : /\ i + 1 \in DOMAIN inbox[c] /\ i + 1 # 1 /\ i \in Nat
                                     /\ inbox'[c][i] = inbox[c][i + 1]
  BY <1>1, TailIs
<1> HIDE DEF x
<1>3. Piped(x) /\ hook[x] = "sent" /\ ~Queued(x) /\ ~Held(x) /\ ~Stored(x)
  BY <1>2 DEF Piped, OnePlace
<1>4. \A d \in Child : \A i \in DOMAIN inbox'[d] :
         (\E j \in DOMAIN inbox[d] : inbox[d][j] = inbox'[d][i]) /\ inbox'[d][i] # x
  <2> SUFFICES ASSUME NEW d \in Child, NEW i \in DOMAIN inbox'[d]
               PROVE  /\ \E j \in DOMAIN inbox[d] : inbox[d][j] = inbox'[d][i]
                      /\ inbox'[d][i] # x
    OBVIOUS
  <2>1. CASE d = c
    BY <1>2, <2>1 DEF PipedOnce
  <2>2. CASE d # c
    BY <1>1, <1>2, <2>2 DEF PipedOnce
  <2> QED  BY <2>1, <2>2
<1>5. \A f \in Envelopes : Piped(f)' => Piped(f) /\ f # x
  BY <1>4 DEF Piped
<1>6. PipedOnce'
  <2> SUFFICES ASSUME NEW d \in Child, NEW e \in Child,
                      NEW i \in DOMAIN inbox'[d], NEW j \in DOMAIN inbox'[e],
                      inbox'[d][i] = inbox'[e][j]
               PROVE  d = e /\ i = j
    BY DEF PipedOnce
  <2>1. d = e
    BY <1>4 DEF PipedOnce
  <2>2. CASE d = c
    <3>1. i + 1 = j + 1
      BY <1>2, <2>1, <2>2 DEF PipedOnce
    <3> QED  BY <1>2, <2>1, <2>2, <3>1
  <2>3. CASE d # c
    BY <1>1, <2>1, <2>3 DEF PipedOnce
  <2> QED  BY <2>1, <2>2, <2>3
<1>7. CASE recorded' = recorded
  BY <1>1, <1>5, <1>6, <1>7
  DEF OnePlace, QueuedOnce, HeldOnce, RecordedOnce, Queued, Held, Stored
<1>8. CASE recorded' = Append(recorded, x)
  <2>1. /\ DOMAIN recorded' = DOMAIN recorded \cup {Len(recorded) + 1}
        /\ Len(recorded) + 1 \notin DOMAIN recorded /\ recorded'[Len(recorded) + 1] = x
        /\ \A i \in DOMAIN recorded : recorded'[i] = recorded[i]
    BY <1>2, <1>8, AppendIs DEF Types
  <2>2. RecordedOnce'
    BY <1>3, <2>1 DEF RecordedOnce, Stored
  <2>3. \A f \in Envelopes : Stored(f)' => Stored(f) \/ f = x
    BY <2>1 DEF Stored
  <2>4. OnePlace'
    BY <1>1, <1>3, <1>5, <2>3 DEF OnePlace, Queued, Held
  <2> QED  BY <1>1, <1>6, <2>2, <2>4 DEF QueuedOnce, HeldOnce
<1> QED  BY <1>1, <1>7, <1>8

LEMMA CloseMoves ==
  ASSUME IInv, Close
  PROVE  OnePlace' /\ QueuedOnce' /\ HeldOnce' /\ PipedOnce' /\ RecordedOnce'
<1> USE DEF IInv
<1>1. UNCHANGED <<inbox, recorded, writer, holding, hook>>
  BY DEF Close, writerVars, childVars
<1>2. /\ DOMAIN queue \subseteq DOMAIN queue'
      /\ \A i \in DOMAIN queue' : i \notin DOMAIN queue => queue'[i] = Stop
      /\ \A i \in DOMAIN queue : queue'[i] = queue[i]
  <2>1. CASE queue' = Append(queue, Stop)
    BY <2>1, AppendIs DEF Types
  <2>2. CASE queue' = queue
    BY <2>2
  <2> QED  BY <2>1, <2>2 DEF Close
<1>3. \A f \in Envelopes : Queued(f)' <=> Queued(f)
  BY <1>2, ConstantTypes DEF Queued
<1>4. QueuedOnce'
  BY <1>2, ConstantTypes DEF QueuedOnce
<1>5. OnePlace'
  BY <1>1, <1>3 DEF OnePlace, Held, Piped, Stored
<1> QED  BY <1>1, <1>4, <1>5 DEF HeldOnce, PipedOnce, RecordedOnce

LEMMA NextPreserves == IInv /\ [Next]_vars => IInv'
<1> SUFFICES ASSUME IInv, [Next]_vars  PROVE IInv'
  OBVIOUS
<1> DEFINE Places == OnePlace /\ QueuedOnce /\ HeldOnce /\ PipedOnce /\ RecordedOnce
<1> HIDE DEF Places
<1> USE DEF writerVars, childVars, Goto
<1>1. ASSUME NEW e \in Envelopes, HookStep(e) \/ SpawnFails(e)  PROVE Places'
  <2>1. CASE Put(e) /\ hook'[e] = "sent"
    BY <2>1, PutMoves DEF Places
  <2>2. CASE Put(e) /\ hook'[e] # "sent"
    BY <2>2, NothingMoves DEF Places, Put, IInv, Types
  <2>3. CASE ~Put(e)
    BY <1>1, <2>3, NothingMoves
    DEF Places, HookStep, SendCheck, AlreadyStarted, Spawn, SpawnFails, IInv, Types
  <2> QED  BY <2>1, <2>2, <2>3
<1>2. ASSUME NEW t \in Child, WriterStep(t) \/ AckTimeout(t)  PROVE Places'
  <2>1. CASE Take(t)
    BY <2>1, TakeMoves DEF Places
  <2>2. CASE Write(t)
    BY <2>2, WriteMoves DEF Places
  <2>3. CASE ~Take(t) /\ ~Write(t)
    BY <1>2, <2>3, NothingMoves
    DEF Places, WriterStep, WriterStarts, WriterLeaves, WriterBreaks, ReadAck, AckEof, AckTimeout, Fail,
        Retire, Kill, IInv, Types
  <2> QED  BY <2>1, <2>2, <2>3
<1>3. ASSUME NEW c \in Child, ChildStep(c) \/ Dies(c)  PROVE Places'
  <2>1. CASE Handle(c)
    BY <2>1, HandleMoves DEF Places
  <2>2. CASE ~Handle(c)
    BY <1>3, <2>2, NothingMoves DEF Places, ChildStep, Acknowledge, Dies
  <2> QED  BY <2>1, <2>2
<1>4. ASSUME Close  PROVE Places'
  BY <1>4, CloseMoves DEF Places
<1>5. ASSUME CloseKill  PROVE Places'
  BY <1>5, NothingMoves DEF Places, CloseKill
<1>6. CASE Next
  BY <1>1, <1>2, <1>3, <1>4, <1>5, <1>6, TypesStep DEF Next, IInv, Places
<1>7. CASE UNCHANGED vars
  BY <1>7, NothingMoves DEF vars, IInv, Types, Busy
<1> QED  BY <1>6, <1>7

THEOREM IngestInvariance == Spec => []IInv
BY InitEstablishes, NextPreserves, PTL DEF Spec

(* The other types. *)
Counters == /\ Len(queue) <= QueueMax /\ closing \in Child \cup {None}
            /\ failures \in Nat /\ blamed \in Nat /\ faults \in 0 .. MaxFaults
            /\ impatient \in BOOLEAN /\ degraded \in BOOLEAN /\ closed \in BOOLEAN
Children == /\ unacked \in [Child -> Envelopes \cup {NoEnvelope}]
            /\ child \in [Child -> {"none", "up", "dead"}]
            /\ acks \in [Child -> Seq(Envelopes)]
            /\ accepted \in Seq(Envelopes) /\ rejected \subseteq Envelopes
            /\ unserializable \subseteq Envelopes

LEMMA RecordFailureCounts ==
  ASSUME failures \in Nat, degraded \in BOOLEAN, RecordFailure
  PROVE  failures' \in Nat /\ degraded' \in BOOLEAN
<1>1. failures' \in Nat
  BY DEF RecordFailure
<1>2. degraded' \in BOOLEAN
  BY Zenon DEF RecordFailure
<1> QED  BY <1>1, <1>2

LEMMA FailCounts ==
  ASSUME Counters, NEW t \in Child, Fail(t)
  PROVE  /\ failures' \in Nat /\ degraded' \in BOOLEAN /\ blamed' \in Nat /\ queue' = queue
BY RecordFailureCounts DEF Counters, Fail

LEMMA CountersStep ==
  ASSUME Types, Counters, Next
  PROVE  Counters'
<1> USE LimitAssumption, ConstantTypes DEF Counters, Types, clientVars, history
<1>1. ASSUME NEW e \in Envelopes, HookStep(e) \/ SpawnFails(e)  PROVE Counters'
  <2>1. CASE SendCheck(e) \/ AlreadyStarted(e)
    BY <2>1 DEF SendCheck, AlreadyStarted
  <2>2. CASE \E c \in Child : Spawn(e, c)
    BY <2>2 DEF Spawn
  <2>3. CASE Put(e)
    <3>1. Len(Append(queue, e)) = Len(queue) + 1 /\ Len(queue) \in Nat
      OBVIOUS
    <3>2. Len(queue') <= QueueMax
      BY <2>3, <3>1 DEF Put
    <3> QED  BY <2>3, <3>2 DEF Put
  <2>4. CASE SpawnFails(e)
    BY <2>4, RecordFailureCounts DEF SpawnFails, Fault
  <2> QED  BY <1>1, <2>1, <2>2, <2>3, <2>4 DEF HookStep
<1>2. ASSUME NEW t \in Child, WriterStep(t) \/ AckTimeout(t)  PROVE Counters'
  <2>1. CASE WriterStarts(t) \/ WriterLeaves(t) \/ WriterBreaks(t) \/ Kill(t)
    BY <2>1 DEF WriterStarts, WriterLeaves, WriterBreaks, Kill
  <2>2. CASE Take(t)
    <3>1. Len(Tail(queue)) <= QueueMax
      BY <2>2 DEF Take
    <3> QED  BY <2>2, <3>1 DEF Take
  <2>3. CASE Write(t)
    <3>1. UNCHANGED <<closing, closed, faults, impatient>>
      BY <2>3 DEF Write
    <3>2. failures' \in Nat /\ degraded' \in BOOLEAN /\ blamed' \in Nat /\ queue' = queue
      BY <2>3, FailCounts DEF Write
    <3> QED  BY <3>1, <3>2
  <2>4. CASE ReadAck(t)
    BY <2>4 DEF ReadAck
  <2>5. CASE AckEof(t)
    BY <2>5, FailCounts DEF AckEof
  <2>6. CASE AckTimeout(t)
    BY <2>6, FailCounts DEF AckTimeout, Fault
  <2>7. CASE Retire(t)
    BY <2>7 DEF Retire
  <2> QED  BY <1>2, <2>1, <2>2, <2>3, <2>4, <2>5, <2>6, <2>7 DEF WriterStep
<1>3. ASSUME NEW c \in Child, ChildStep(c) \/ Dies(c)  PROVE Counters'
  BY SMTT(30), <1>3 DEF ChildStep, Handle, Acknowledge, Dies, Fault
<1>4. CASE Close
  <2>1. Len(Append(queue, Stop)) = Len(queue) + 1 /\ Len(queue) \in Nat
    OBVIOUS
  <2>2. Len(queue') <= QueueMax
    BY <1>4, <2>1 DEF Close
  <2> QED  BY <1>4, <2>2 DEF Close
<1>5. CASE CloseKill
  BY <1>5 DEF CloseKill
<1> QED  BY <1>1, <1>2, <1>3, <1>4, <1>5 DEF Next

LEMMA ChildrenStep ==
  ASSUME Types, Busy, Children, Next
  PROVE  Children'
<1> USE ConstantTypes DEF Children, Types, childVars, history
<1>1. ASSUME NEW e \in Envelopes, HookStep(e) \/ SpawnFails(e)  PROVE Children'
  <2>1. CASE SendCheck(e) \/ AlreadyStarted(e) \/ SpawnFails(e)
    BY <2>1 DEF SendCheck, AlreadyStarted, SpawnFails
  <2>2. CASE \E c \in Child : Spawn(e, c)
    BY <2>2 DEF Spawn
  <2>3. CASE Put(e)
    <3>1. Append(accepted, e) \in Seq(Envelopes)
      OBVIOUS
    <3> QED  BY <2>3, <3>1 DEF Put
  <2> QED  BY <1>1, <2>1, <2>2, <2>3 DEF HookStep
<1>2. ASSUME NEW t \in Child, WriterStep(t) \/ AckTimeout(t)  PROVE Children'
  <2>1. CASE WriterStarts(t) \/ WriterLeaves(t) \/ Take(t) \/ Retire(t)
    BY <2>1 DEF WriterStarts, WriterLeaves, Take, Retire
  <2>2. CASE Write(t) \/ AckEof(t) \/ AckTimeout(t)
    BY <2>2 DEF Write, AckEof, AckTimeout
  <2>3. CASE ReadAck(t)
    <3>1. acks' \in [Child -> Seq(Envelopes)]
      <4>1. Tail(acks[pipe[t]]) \in Seq(Envelopes) \/ pipe[t] \notin Child
        BY <2>3 DEF ReadAck
      <4> QED  BY <2>3, <4>1 DEF ReadAck
    <3> QED  BY <2>3, <3>1 DEF ReadAck
  <2>4. CASE Kill(t)
    BY <2>4 DEF Kill
  <2>5. CASE WriterBreaks(t)
    BY <2>5 DEF WriterBreaks, Busy
  <2> QED  BY <1>2, <2>1, <2>2, <2>3, <2>4, <2>5 DEF WriterStep
<1>3. ASSUME NEW c \in Child, ChildStep(c) \/ Dies(c)  PROVE Children'
  <2>1. CASE Handle(c)
    <3>1. Head(inbox[c]) \in Envelopes
      BY <2>1 DEF Handle
    <3> QED  BY <2>1, <3>1 DEF Handle
  <2>2. CASE Acknowledge(c)
    <3>1. Append(acks[c], unacked[c]) \in Seq(Envelopes)
      BY <2>2 DEF Acknowledge
    <3> QED  BY <2>2, <3>1 DEF Acknowledge
  <2>3. CASE Dies(c)
    BY <2>3 DEF Dies
  <2> QED  BY <1>3, <2>1, <2>2, <2>3 DEF ChildStep
<1>4. CASE Close \/ CloseKill
  BY <1>4 DEF Close, CloseKill
<1> QED  BY <1>1, <1>2, <1>3, <1>4 DEF Next

(* Every variable keeps its type: the queue within its limit, and children, *)
(* pipes and counters what the code takes them for.                         *)
THEOREM TypeCorrect == Spec => []TypeOK
<1>1. Init => Counters /\ Children
  <2> SUFFICES ASSUME Init  PROVE Counters /\ Children
    OBVIOUS
  <2>1. Counters
    <3>1. Len(queue) <= QueueMax /\ failures \in Nat /\ blamed \in Nat /\ faults \in 0 .. MaxFaults
      BY LimitAssumption DEF Init
    <3>2. impatient \in BOOLEAN /\ degraded \in BOOLEAN /\ closed \in BOOLEAN
      BY DEF Init
    <3> QED  BY <3>1, <3>2 DEF Init, Counters
  <2>2. Children
    BY DEF Init, Children
  <2> QED  BY <2>1, <2>2
<1>2. IInv /\ Counters /\ Children /\ [Next]_vars => Counters' /\ Children'
  <2> SUFFICES ASSUME IInv, Counters, Children, [Next]_vars  PROVE Counters' /\ Children'
    OBVIOUS
  <2>1. CASE Next
    BY <2>1, CountersStep, ChildrenStep DEF IInv
  <2>2. CASE UNCHANGED vars
    BY <2>2 DEF vars, Counters, Children
  <2> QED  BY <2>1, <2>2
<1>3. IInv /\ Counters /\ Children => TypeOK
  BY DEF IInv, Types, Counters, Children, TypeOK, Maybe
<1> QED  BY <1>1, <1>2, <1>3, IngestInvariance, PTL DEF Spec

(* Whatever children die, answer late or are restarted, and however many    *)
(* threads send at once, one envelope never becomes two rows (_run_writer   *)
(* gives up a failed envelope instead of trying it again).                  *)
THEOREM NoDuplicates == Spec => []RecordedOnce
<1>1. IInv => RecordedOnce
  BY DEF IInv
<1> QED  BY <1>1, IngestInvariance, PTL

-------------------------------------------------------------------------------
(***************************************************************************)
(* What follows from how a writer thread of HermesIngest and its           *)
(* child talk: one line, one answer, and nothing more until the child is   *)
(* given up. As long as no two writers drive one child (PipesOwned), a     *)
(* child's pipes hold nothing, or what its writer waits for (Exchange).    *)
(*                                                                         *)
(* So an ACK is that of the envelope in hand, an envelope that leaves a    *)
(* writer's hands unanswered is a failure that was counted (Counted), and  *)
(* since only the newest child is up until something is not waited for     *)
(* (OneUp), rows come in the order of the queue (Ordered).                 *)
(***************************************************************************)

Silent(c) == inbox[c] = <<>> /\ unacked[c] = NoEnvelope /\ acks[c] = <<>>

Carries(c, e) == \/ inbox[c] = <<e>> /\ unacked[c] = NoEnvelope /\ acks[c] = <<>>
                 \/ inbox[c] = <<>>  /\ unacked[c] = e          /\ acks[c] = <<>>
                 \/ inbox[c] = <<>>  /\ unacked[c] = NoEnvelope /\ acks[c] = <<e>>

(* A writer runs once its child was started, drives none before it runs, and *)
(* holds an envelope from the queue to its answer.                           *)
Hands == \A t \in Child :
           /\ child[t] = "none" => writer[t] = "none"
           /\ writer[t] \in {"none", "starting"} => pipe[t] = None
           /\ writer[t] \in {"loop", "write", "await", "retire", "kill", "broken"} => pipe[t] \in Child
           /\ writer[t] \in {"write", "await"} => holding[t] \in Envelopes
           /\ writer[t] \notin {"write", "await"} => holding[t] = NoEnvelope

Started(c) == c = None \/ child[c] # "none"
Born == Started(proc) /\ Started(closing) /\ \A t \in Child : Started(pipe[t])

(* The pipes of a child that no writer drives, or none any longer, are empty. *)
Talks == /\ \A t \in Child : /\ writer[t] \in {"loop", "write", "broken"} => Silent(pipe[t])
                             /\ writer[t] = "await" => Carries(pipe[t], holding[t])
         /\ \A c \in Child : (\A t \in Child : pipe[t] # c) => Silent(c)
Exchange == PipesOwned => Talks

(* A line a child is done with is a row or refused.                          *)
Answer(e) == Stored(e) \/ e \in rejected
Answered  == \A c \in Child : /\ unacked[c] # NoEnvelope => Answer(unacked[c])
                              /\ \A i \in DOMAIN acks[c] : Answer(acks[c][i])

(* What LossIsCounted counts. *)
Lost == RangeOf(accepted) \ (Pending \cup RangeOf(recorded) \cup rejected \cup unserializable)
Counted == PipesOwned /\ ~closed => Cardinality(Lost) <= blamed

DeliveryInv == Hands /\ Born /\ Exchange /\ Answered /\ Counted

(* ---------------------------- the order of rows -------------------------- *)

Undisturbed == PipesOwned /\ ~impatient /\ ~closed

(* Only the newest child is up, and a writer that is leaving has a dead one. *)
OneUp == /\ \A c \in Child : child[c] = "up" => c = proc
         /\ \A t \in Child : writer[t] \in {"retire", "kill", "done"}
                               => pipe[t] = None \/ child[pipe[t]] = "dead"
         /\ \A i \in DOMAIN queue : queue[i] # Stop

(* Envelopes are accepted once, and what is underway or done was accepted. *)
InPlay(e) == Queued(e) \/ (\E t \in Child : holding[t] = e) \/ Piped(e) \/ Stored(e)
AcceptedOnce ==
    /\ \A i, j \in DOMAIN accepted : accepted[i] = accepted[j] => i = j
    /\ \A e \in Envelopes : InPlay(e) => e \in RangeOf(accepted)
    /\ \A e \in RangeOf(accepted) : hook[e] = "sent"

Before(e, f) == \E i, j \in DOMAIN accepted : i < j /\ accepted[i] = e /\ accepted[j] = f

(* What may still become a row: it is with a writer or in a pipe of a child  *)
(* that is up.                                                               *)
Underway(e) == \/ \E t \in Child : writer[t] = "write" /\ holding[t] = e /\ child[pipe[t]] = "up"
               \/ \E c \in Child : child[c] = "up" /\ \E i \in DOMAIN inbox[c] : inbox[c][i] = e

(* Every row comes before what may still become one, and that before what    *)
(* is still queued.                                                          *)
Ordered ==
    /\ \A i, j \in DOMAIN queue : i < j => Before(queue[i], queue[j])
    /\ \A t \in Child : holding[t] # NoEnvelope
                          => \A i \in DOMAIN queue : Before(holding[t], queue[i])
    /\ \A i \in DOMAIN recorded : \A j \in DOMAIN queue : Before(recorded[i], queue[j])
    /\ \A i \in DOMAIN recorded : \A e \in Envelopes : Underway(e) => Before(recorded[i], e)
    /\ \A i, j \in DOMAIN recorded : i < j => Before(recorded[i], recorded[j])

OrderInv == AcceptedOnce /\ (Undisturbed => OneUp /\ Ordered)
-------------------------------------------------------------------------------
(* What each step does, thread by thread and pipe by pipe.                   *)
Alone(t) == \A u \in Child \ {t} : /\ writer'[u] = writer[u] /\ pipe'[u] = pipe[u]
                                   /\ holding'[u] = holding[u]
Threads  == <<writer, pipe, holding>>
Pipes    == <<inbox, unacked, acks>>
Outcome  == <<accepted, recorded, rejected, unserializable>>

LEMMA SpawnIs ==
  ASSUME TypeOK, NEW e \in Envelopes, NEW c \in Child, Spawn(e, c)
  PROVE  /\ ~ProcAlive /\ child[c] = "none" /\ child'[c] = "up" /\ proc' = c
         /\ \A d \in Child \ {c} : child'[d] = child[d]
         /\ writer'[c] = "starting" /\ \A t \in Child \ {c} : writer'[t] = writer[t]
         /\ hook[e] = "start" /\ hook' = [hook EXCEPT ![e] = "put"]
         /\ UNCHANGED <<pipe, holding, Pipes, Outcome, queue, closed, closing, blamed, impatient>>
BY DEF Spawn, TypeOK, history, Pipes, Outcome

LEMMA PutIs ==
  ASSUME TypeOK, NEW e \in Envelopes, Put(e)
  PROVE  /\ hook[e] = "put"
         /\ \/ /\ queue' = Append(queue, e) /\ accepted' = Append(accepted, e)
               /\ hook' = [hook EXCEPT ![e] = "sent"]
            \/ UNCHANGED <<queue, accepted>> /\ hook' = [hook EXCEPT ![e] = "dropped"]
         /\ UNCHANGED <<Threads, Pipes, recorded, rejected, unserializable, child, proc, closed,
                        closing, blamed, impatient>>
BY DEF Put, clientVars, writerVars, childVars, Threads, Pipes

(* A send that is checked, finds its child alive, or cannot start one.       *)
LEMMA SendIs ==
  ASSUME TypeOK, NEW e \in Envelopes, SendCheck(e) \/ AlreadyStarted(e) \/ SpawnFails(e)
  PROVE  /\ hook[e] # "sent" /\ \A f \in Envelopes \ {e} : hook'[f] = hook[f]
         /\ proc' = proc \/ (~ProcAlive /\ proc' = None)
         /\ UNCHANGED <<Threads, Pipes, Outcome, queue, child, closed, closing, blamed,
                        impatient>>
BY DEF SendCheck, AlreadyStarted, SpawnFails, TypeOK, clientVars, writerVars, childVars, history,
       Threads, Pipes, Outcome

LEMMA StartsIs ==
  ASSUME TypeOK, NEW t \in Child, WriterStarts(t)
  PROVE  /\ Alone(t) /\ writer[t] = "starting" /\ holding'[t] = holding[t]
         /\ pipe'[t] = proc /\ (pipe[t] = proc => pipe' = pipe)
         /\ writer'[t] = IF proc = None THEN "done" ELSE "loop"
         /\ UNCHANGED <<Pipes, Outcome, hook, queue, child, proc, closed, closing, blamed,
                        impatient>>
BY DEF WriterStarts, Goto, Alone, TypeOK, clientVars, childVars, history, Pipes, Outcome

LEMMA TakeIs ==
  ASSUME TypeOK, NEW t \in Child, Take(t)
  PROVE  /\ Alone(t) /\ writer[t] = "loop" /\ pipe' = pipe
         /\ queue # <<>> /\ queue' = Tail(queue)
         /\ \/ Head(queue) = Stop /\ writer'[t] = "done" /\ holding'[t] = holding[t]
            \/ Head(queue) \in Envelopes /\ writer'[t] = "write" /\ holding'[t] = Head(queue)
         /\ UNCHANGED <<Pipes, Outcome, hook, child, proc, closed, closing, blamed, impatient>>
<1>1. Head(queue) \in Envelopes \cup {Stop}
  BY DEF Take, TypeOK
<1> QED  BY <1>1 DEF Take, Goto, Alone, TypeOK, Maybe, clientVars, childVars, history,
                     Pipes, Outcome

LEMMA LeavesIs ==
  ASSUME TypeOK, NEW t \in Child, WriterLeaves(t)
  PROVE  /\ Alone(t) /\ writer[t] = "loop" /\ writer'[t] = "done" /\ holding'[t] = holding[t]
         /\ closed /\ UNCHANGED <<pipe, Pipes, Outcome, hook, queue, child, proc, closed,
                                  closing, blamed, impatient>>
BY DEF WriterLeaves, Goto, Alone, TypeOK, clientVars, childVars, history, Pipes, Outcome

LEMMA FailIs ==
  ASSUME TypeOK, NEW t \in Child, Fail(t), pipe' = pipe
  PROVE  /\ Alone(t) /\ writer'[t] \in {"done", "retire"} /\ holding'[t] = NoEnvelope
         /\ closed \/ blamed' = blamed + 1
         /\ queue' = queue
BY DEF Fail, Goto, Alone, TypeOK, Maybe

LEMMA WriteIs ==
  ASSUME TypeOK, NEW t \in Child, Write(t)
  PROVE  /\ Alone(t) /\ writer[t] = "write"
         /\ \/ /\ child[pipe[t]] = "up" /\ writer'[t] = "await" /\ holding'[t] = holding[t]
               /\ inbox' = [inbox EXCEPT ![pipe[t]] = Append(@, holding[t])]
               /\ blamed' = blamed
            \/ child[pipe[t]] = "dead" /\ inbox' = inbox /\ Fail(t)
         /\ UNCHANGED <<pipe, unacked, acks, Outcome, hook, queue, child, proc, closed,
                        closing, impatient>>
<1>1. queue' = queue
  BY DEF Write, Fail
<1> QED  BY <1>1, FailIs DEF Write, Goto, Alone, TypeOK, history, Outcome

LEMMA BreaksIs ==
  ASSUME TypeOK, NEW t \in Child, WriterBreaks(t)
  PROVE  /\ Alone(t) /\ writer[t] = "write" /\ writer'[t] = "broken" /\ holding'[t] = NoEnvelope
         /\ unserializable' = unserializable \cup {holding[t]}
         /\ UNCHANGED <<pipe, Pipes, accepted, recorded, rejected, hook, queue, child, proc,
                        closed, closing, blamed, impatient>>
BY DEF WriterBreaks, Goto, Alone, TypeOK, Maybe, clientVars, childVars, Pipes

LEMMA ReadIs ==
  ASSUME TypeOK, NEW t \in Child, ReadAck(t)
  PROVE  /\ Alone(t) /\ writer[t] = "await" /\ writer'[t] = "loop" /\ holding'[t] = NoEnvelope
         /\ acks[pipe[t]] # <<>> /\ acks' = [acks EXCEPT ![pipe[t]] = Tail(@)]
         /\ UNCHANGED <<pipe, inbox, unacked, Outcome, hook, queue, child, proc, closed,
                        closing, blamed, impatient>>
BY DEF ReadAck, Goto, Alone, TypeOK, Maybe, history, Outcome

LEMMA GivesUpIs ==
  ASSUME TypeOK, NEW t \in Child, AckEof(t) \/ AckTimeout(t)
  PROVE  /\ Fail(t) /\ writer[t] = "await"
         /\ child[pipe[t]] = "dead" \/ impatient'
         /\ impatient => impatient'
         /\ UNCHANGED <<pipe, Pipes, Outcome, hook, queue, child, proc, closed, closing>>
BY DEF AckEof, AckTimeout, Fail, childVars, history, Pipes, Outcome

LEMMA RetireIs ==
  ASSUME TypeOK, NEW t \in Child, Retire(t)
  PROVE  /\ Alone(t) /\ writer[t] = "retire" /\ writer'[t] = "kill" /\ holding'[t] = holding[t]
         /\ proc' = IF proc = pipe[t] THEN None ELSE proc
         /\ UNCHANGED <<pipe, Pipes, Outcome, hook, queue, child, closed, closing, blamed,
                        impatient>>
BY DEF Retire, Goto, Alone, TypeOK, childVars, history, Pipes, Outcome

LEMMA KillIs ==
  ASSUME TypeOK, NEW t \in Child, Kill(t)
  PROVE  /\ Alone(t) /\ writer[t] = "kill" /\ writer'[t] = "done" /\ holding'[t] = holding[t]
         /\ child' = [child EXCEPT ![pipe[t]] = "dead"]
         /\ UNCHANGED <<pipe, Pipes, Outcome, hook, queue, proc, closed, closing, blamed,
                        impatient>>
BY DEF Kill, Goto, Alone, TypeOK, clientVars, history, Pipes, Outcome

LEMMA HandleIs ==
  ASSUME TypeOK, NEW c \in Child, Handle(c)
  PROVE  /\ child[c] = "up" /\ inbox[c] # <<>> /\ unacked[c] = NoEnvelope
         /\ unacked'[c] = Head(inbox[c]) /\ inbox'[c] = Tail(inbox[c])
         /\ \A d \in Child \ {c} : unacked'[d] = unacked[d] /\ inbox'[d] = inbox[d]
         /\ \/ recorded' = Append(recorded, Head(inbox[c])) /\ rejected' = rejected
            \/ rejected' = rejected \cup {Head(inbox[c])} /\ recorded' = recorded
         /\ UNCHANGED <<Threads, acks, accepted, unserializable, hook, queue, child, proc, closed, closing,
                        blamed, impatient>>
BY DEF Handle, TypeOK, Maybe, clientVars, writerVars, history, Threads

LEMMA AcknowledgeIs ==
  ASSUME TypeOK, NEW c \in Child, Acknowledge(c)
  PROVE  /\ unacked[c] # NoEnvelope /\ unacked'[c] = NoEnvelope
         /\ acks'[c] = Append(acks[c], unacked[c])
         /\ \A d \in Child \ {c} : unacked'[d] = unacked[d] /\ acks'[d] = acks[d]
         /\ UNCHANGED <<Threads, inbox, Outcome, hook, queue, child, proc, closed, closing,
                        blamed, impatient>>
BY DEF Acknowledge, TypeOK, Maybe, clientVars, writerVars, history, Threads, Outcome

(* A child ends by itself.                                                   *)
LEMMA DiesIs ==
  ASSUME TypeOK, NEW c \in Child, Dies(c)
  PROVE  /\ child' = [child EXCEPT ![c] = "dead"] /\ child[c] = "up"
         /\ UNCHANGED <<Threads, Pipes, Outcome, hook, queue, proc, closed, closing, blamed,
                        impatient>>
BY DEF Dies, clientVars, writerVars, history, Threads, Pipes, Outcome

(* The steps of close, and none at all.                                      *)
LEMMA CloseIs ==
  ASSUME TypeOK, Close \/ CloseKill \/ UNCHANGED vars
  PROVE  /\ UNCHANGED <<Threads, Pipes, Outcome, hook, blamed, impatient>>
         /\ closed' \/ (closed' = closed /\ UNCHANGED <<queue, proc>>)
         /\ proc' \in {proc, None} /\ closing' \in {closing, proc, None}
         /\ child' = child \/ (closing # None /\ child' = [child EXCEPT ![closing] = "dead"])
<1> USE DEF writerVars, childVars, history, Threads, Pipes, Outcome
<1>1. CASE Close
  BY <1>1 DEF Close
<1>2. CASE CloseKill
  BY <1>2 DEF CloseKill
<1>3. CASE UNCHANGED vars
  BY <1>3 DEF vars
<1> QED  BY <1>1, <1>2, <1>3
-------------------------------------------------------------------------------
LEMMA HandsStep ==
  ASSUME TypeOK, Hands, Born, [Next]_vars
  PROVE  Hands' /\ Born'
<1> USE ConstantTypes DEF Hands
<1>a. /\ proc \in Child \cup {None} /\ \A t \in Child : pipe[t] \in Child \cup {None}
      /\ child \in [Child -> {"none", "up", "dead"}] /\ closing \in Child \cup {None}
  BY DEF TypeOK
<1>1. ASSUME NEW e \in Envelopes, NEW c \in Child, Spawn(e, c)  PROVE Hands' /\ Born'
  BY <1>a, <1>1, SpawnIs DEF Born, Started
<1>2. ASSUME UNCHANGED Threads, \A c \in Child : child'[c] = "none" <=> child[c] = "none",
             proc' \in {proc, None}, closing' \in {closing, proc, None}
      PROVE  Hands' /\ Born'
  BY <1>2, <1>a DEF Threads, Born, Started
<1>3. ASSUME NEW e \in Envelopes, SendCheck(e) \/ AlreadyStarted(e) \/ Put(e) \/ SpawnFails(e)
      PROVE  Hands' /\ Born'
  BY <1>2, <1>3, SendIs, PutIs
<1>4. ASSUME NEW t \in Child, WriterStarts(t)  PROVE Hands' /\ Born'
  BY <1>4, <1>a, StartsIs DEF Alone, Born, Started
<1>5. ASSUME NEW t \in Child, Take(t) \/ WriterLeaves(t)  PROVE Hands' /\ Born'
  BY <1>5, TakeIs, LeavesIs DEF Alone, Born, Started
<1>6. ASSUME NEW t \in Child, Write(t)  PROVE Hands' /\ Born'
  BY <1>6, WriteIs, FailIs DEF Alone, Born, Started
<1>7. ASSUME NEW t \in Child, WriterBreaks(t) \/ ReadAck(t)  PROVE Hands' /\ Born'
  BY <1>7, BreaksIs, ReadIs DEF Alone, Born, Started
<1>8. ASSUME NEW t \in Child, AckEof(t) \/ AckTimeout(t)  PROVE Hands' /\ Born'
  BY <1>8, GivesUpIs, FailIs DEF Alone, Born, Started
<1>9. ASSUME NEW t \in Child, Retire(t)  PROVE Hands' /\ Born'
  BY <1>9, RetireIs DEF Alone, Born, Started
<1>10. ASSUME NEW t \in Child, Kill(t)  PROVE Hands' /\ Born'
  <2>1. \A c \in Child : child'[c] = "none" <=> child[c] = "none"
    BY <1>10, <1>a, KillIs DEF Born, Started
  <2>2. /\ Alone(t) /\ writer[t] = "kill" /\ writer'[t] = "done" /\ holding'[t] = holding[t]
        /\ UNCHANGED <<pipe, proc, closing>>
    BY <1>10, KillIs
  <2>3. Hands'
    BY <2>1, <2>2 DEF Alone
  <2>4. Born'
    BY <1>a, <2>1, <2>2 DEF Born, Started
  <2> QED  BY <2>3, <2>4
<1>11. ASSUME NEW c \in Child, ChildStep(c) \/ Dies(c)  PROVE Hands' /\ Born'
  BY <1>2, <1>11, <1>a, HandleIs, AcknowledgeIs, DiesIs DEF ChildStep
<1>12. CASE Close \/ CloseKill \/ UNCHANGED vars
  <2>1. \A c \in Child : child'[c] = "none" <=> child[c] = "none"
    BY <1>12, <1>a, CloseIs DEF Born, Started
  <2>2. UNCHANGED Threads /\ proc' \in {proc, None} /\ closing' \in {closing, proc, None}
    BY <1>12, CloseIs
  <2> QED  BY <1>2, <2>1, <2>2
<1> QED  BY <1>1, <1>3, <1>4, <1>5, <1>6, <1>7, <1>8, <1>9, <1>10, <1>11, <1>12
         DEF Next, HookStep, WriterStep
-------------------------------------------------------------------------------
(* Only a writer that starts to run takes a child, and none before.          *)
LEMMA PipesStay ==
  ASSUME TypeOK, Hands, [Next]_vars
  PROVE  \A t \in Child : pipe[t] # None => pipe'[t] = pipe[t]
<1>1. ASSUME NEW e \in Envelopes, HookStep(e) \/ SpawnFails(e)  PROVE pipe' = pipe
  BY <1>1, SpawnIs, SendIs, PutIs DEF HookStep, Threads
<1>2. ASSUME NEW t \in Child, WriterStarts(t)
      PROVE  \A u \in Child : pipe[u] # None => pipe'[u] = pipe[u]
  BY <1>2, StartsIs DEF Alone, Hands
<1>3. ASSUME NEW t \in Child, WriterStep(t) \/ AckTimeout(t), ~WriterStarts(t)  PROVE pipe' = pipe
  BY <1>3, TakeIs, LeavesIs, WriteIs, BreaksIs, ReadIs, GivesUpIs, RetireIs, KillIs DEF WriterStep
<1>4. ASSUME NEW c \in Child, ChildStep(c) \/ Dies(c)  PROVE pipe' = pipe
  BY <1>4, HandleIs, AcknowledgeIs, DiesIs DEF ChildStep, Threads
<1>5. CASE Close \/ CloseKill \/ UNCHANGED vars
  BY <1>5, CloseIs DEF Threads
<1> QED  BY <1>1, <1>2, <1>3, <1>4, <1>5 DEF Next

LEMMA OwnedBefore ==
  ASSUME TypeOK, Hands, [Next]_vars, PipesOwned'
  PROVE  PipesOwned
BY PipesStay DEF PipesOwned

(* The steps that leave the pipes alone.                                     *)
LEMMA TalksStays ==
  ASSUME Talks, UNCHANGED <<pipe, Pipes>>,
         \A t \in Child : /\ writer'[t] \in {"loop", "write", "broken"}
                               => writer[t] \in {"loop", "write", "broken"}
                          /\ writer'[t] = "await" => writer[t] = "await" /\ holding'[t] = holding[t]
  PROVE  Talks'
BY DEF Talks, Silent, Carries, Pipes

(* The steps of one pipe.                                                    *)
Elsewhere(d) == \A c \in Child \ {d} : /\ inbox'[c] = inbox[c] /\ unacked'[c] = unacked[c]
                                       /\ acks'[c] = acks[c]
LEMMA TalksAt ==
  ASSUME Hands, PipesOwned, Talks, NEW t \in Child, Alone(t), pipe' = pipe, pipe[t] \in Child,
         Elsewhere(pipe[t]),
         writer'[t] \in {"loop", "write", "broken"} => Silent(pipe[t])',
         writer'[t] = "await" => Carries(pipe[t], holding[t])'
  PROVE  Talks'
<1>0. None \notin Child
  BY ConstantTypes
<1>1. \A u \in Child : u # t => pipe[u] # pipe[t]
  BY <1>0 DEF PipesOwned
<1>2. \A u \in Child \ {t} : writer[u] \in {"loop", "write", "await", "broken"}
                               => pipe[u] \in Child \ {pipe[t]}
  BY <1>1 DEF Hands
<1>3. \A u \in Child \ {t} : writer'[u] \in {"loop", "write", "broken"} => Silent(pipe[u])'
  BY <1>2 DEF Talks, Silent, Alone, Elsewhere
<1>4. \A u \in Child \ {t} : writer'[u] = "await" => Carries(pipe[u], holding[u])'
  <2> SUFFICES ASSUME NEW u \in Child \ {t}, writer'[u] = "await"
               PROVE  Carries(pipe[u], holding[u])'
    OBVIOUS
  <2>1. /\ writer[u] = "await" /\ pipe'[u] = pipe[u] /\ holding'[u] = holding[u]
        /\ pipe[u] \in Child \ {pipe[t]}
    BY <1>2 DEF Alone
  <2>2. Carries(pipe[u], holding[u])
    BY <2>1 DEF Talks
  <2> QED  BY <2>1, <2>2 DEF Carries, Elsewhere
<1>5. \A c \in Child : (\A u \in Child : pipe[u] # c) => Silent(c)'
  BY DEF Talks, Silent, Elsewhere
<1> QED  BY <1>3, <1>4, <1>5 DEF Talks, Silent, Carries

LEMMA OneLine ==
  ASSUME NEW e \in Envelopes
  PROVE  /\ Head(<<e>>) = e /\ Tail(<<e>>) = <<>> /\ <<e>> # <<>>
         /\ Append(<<>>, e) = <<e>>
OBVIOUS

LEMMA ExchangeStep ==
  ASSUME TypeOK, Hands, Exchange, [Next]_vars
  PROVE  Exchange'
<1> SUFFICES ASSUME PipesOwned'  PROVE Talks'
  BY DEF Exchange
<1> USE ConstantTypes
<1>a. PipesOwned /\ Talks
  BY OwnedBefore DEF Exchange
<1>b. \A t \in Child : writer[t] \in {"loop", "write", "await"} => pipe[t] \in Child
  BY DEF Hands
<1>c. /\ inbox \in [Child -> Seq(Envelopes)] /\ acks \in [Child -> Seq(Envelopes)]
      /\ unacked \in [Child -> Envelopes \cup {NoEnvelope}] /\ proc \in Child \cup {None}
  BY DEF TypeOK, Maybe
<1>1. ASSUME NEW e \in Envelopes, HookStep(e) \/ SpawnFails(e)  PROVE Talks'
  <2>1. UNCHANGED <<pipe, holding, Pipes>>
    BY <1>1, SpawnIs, SendIs, PutIs DEF HookStep, Threads
  <2>2. \A t \in Child : writer'[t] = writer[t] \/ writer'[t] = "starting"
    BY <1>1, SpawnIs, SendIs, PutIs DEF HookStep, Threads
  <2> QED  BY <1>a, <2>1, <2>2, TalksStays
<1>2. ASSUME NEW t \in Child, WriterStarts(t)  PROVE Talks'
  <2>1. CASE proc = None
    <3>1. pipe' = pipe /\ UNCHANGED Pipes /\ writer'[t] = "done" /\ Alone(t)
      BY <1>2, <2>1, StartsIs DEF Hands
    <3> QED  BY <1>a, <3>1, TalksStays DEF Alone
  <2>2. CASE proc # None
    <3>1. /\ pipe[t] = None /\ pipe'[t] = proc /\ writer'[t] = "loop" /\ proc \in Child
          /\ Alone(t) /\ UNCHANGED Pipes
      BY <1>2, <1>c, <2>2, StartsIs DEF Hands
    <3>2. \A u \in Child : pipe[u] # proc
      BY <2>2, <3>1 DEF PipesOwned, Alone
    <3>3. Silent(proc)
      BY <1>a, <3>1, <3>2 DEF Talks
    <3>4. \A c \in Child : Silent(c) => Silent(c)'
      BY <3>1 DEF Silent, Pipes
    <3>5. \A u \in Child \ {t} : writer'[u] \in {"loop", "write", "broken"} => Silent(pipe[u])'
      BY <1>a, <3>1 DEF Talks, Alone, Silent, Pipes
    <3>6. \A u \in Child \ {t} : writer'[u] = "await" => Carries(pipe[u], holding[u])'
      <4> SUFFICES ASSUME NEW u \in Child \ {t}, writer'[u] = "await"
                   PROVE  Carries(pipe[u], holding[u])'
        OBVIOUS
      <4>1. writer[u] = "await" /\ pipe'[u] = pipe[u] /\ holding'[u] = holding[u]
        BY <3>1 DEF Alone
      <4>2. Carries(pipe[u], holding[u])
        BY <1>a, <4>1 DEF Talks
      <4> QED  BY <3>1, <4>1, <4>2 DEF Carries, Pipes
    <3>7. \A c \in Child : (\A u \in Child : pipe'[u] # c) => Silent(c)'
      BY <1>a, <3>1, <3>4 DEF Talks, Alone
    <3>8. Silent(pipe[t])'
      BY <3>1, <3>3, <3>4 DEF Silent
    <3> QED  BY <3>1, <3>5, <3>6, <3>7, <3>8 DEF Talks
  <2> QED  BY <2>1, <2>2
<1>3. ASSUME NEW t \in Child, \/ Take(t) \/ WriterLeaves(t) \/ WriterBreaks(t)
                               \/ Retire(t) \/ Kill(t)
      PROVE  Talks'
  BY <1>3, <1>a, TakeIs, LeavesIs, BreaksIs, RetireIs, KillIs, TalksStays DEF Alone
<1>4. ASSUME NEW t \in Child, AckEof(t) \/ AckTimeout(t)  PROVE Talks'
  BY <1>4, <1>a, GivesUpIs, FailIs, TalksStays DEF Alone
<1>5. ASSUME NEW t \in Child, Write(t)  PROVE Talks'
  <2>1. CASE writer'[t] # "await"
    <3>1. Alone(t) /\ writer'[t] \in {"done", "retire"} /\ UNCHANGED <<pipe, inbox, unacked,
                                                                       acks>>
      BY <1>5, <2>1, WriteIs, FailIs
    <3> QED  BY <1>a, <3>1, TalksStays DEF Alone, Pipes
  <2>2. CASE writer'[t] = "await"
    <3>1. /\ writer[t] = "write" /\ pipe[t] \in Child /\ Silent(pipe[t])
          /\ Alone(t) /\ writer'[t] = "await" /\ holding'[t] = holding[t]
          /\ inbox' = [inbox EXCEPT ![pipe[t]] = Append(@, holding[t])]
          /\ UNCHANGED <<pipe, unacked, acks>>
      BY <1>5, <1>a, <1>b, <2>2, WriteIs, FailIs DEF Talks
    <3>2. inbox'[pipe[t]] = <<holding[t]>> /\ Elsewhere(pipe[t])
      BY <1>c, <3>1 DEF Silent, Elsewhere
    <3> QED  BY <1>a, <3>1, <3>2, TalksAt DEF Silent, Carries
  <2> QED  BY <2>1, <2>2
<1>6. ASSUME NEW t \in Child, ReadAck(t)  PROVE Talks'
  <2>1. /\ pipe[t] \in Child /\ Carries(pipe[t], holding[t]) /\ acks[pipe[t]] # <<>>
        /\ Alone(t) /\ writer'[t] = "loop" /\ acks' = [acks EXCEPT ![pipe[t]] = Tail(@)]
        /\ UNCHANGED <<pipe, inbox, unacked>>
    BY <1>6, <1>a, <1>b, ReadIs DEF Talks
  <2>2. Elsewhere(pipe[t]) /\ acks'[pipe[t]] = Tail(acks[pipe[t]])
    BY <1>c, <2>1 DEF Elsewhere
  <2>3. acks'[pipe[t]] = <<>> /\ inbox[pipe[t]] = <<>> /\ unacked[pipe[t]] = NoEnvelope
    <3>1. holding[t] \in Envelopes
      BY <1>6, ReadIs DEF Hands
    <3> QED  BY <2>1, <2>2, <3>1, OneLine DEF Carries
  <2>4. Silent(pipe[t])'
    BY <2>1, <2>3 DEF Silent
  <2> QED  BY <1>a, <2>1, <2>2, <2>4, TalksAt
<1>7. ASSUME NEW c \in Child, ChildStep(c)  PROVE Talks'
  <2>1. UNCHANGED Threads /\ Elsewhere(c) /\ ~Silent(c)
    BY <1>7, HandleIs, AcknowledgeIs DEF ChildStep, Elsewhere, Silent
  <2>2. PICK t \in Child : pipe[t] = c
    BY <1>a, <2>1 DEF Talks
  <2>3. writer[t] \notin {"loop", "write", "broken"} /\ (writer[t] = "await" => Carries(c, holding[t]))
    BY <1>a, <2>1, <2>2 DEF Talks
  <2>4. ASSUME writer[t] = "await"  PROVE Carries(c, holding[t])'
    <3>1. Carries(c, holding[t]) /\ holding[t] \in Envelopes /\ holding'[t] = holding[t]
      BY <2>1, <2>3, <2>4 DEF Hands, Threads
    <3>2. CASE Handle(c)
      <4>1. inbox[c] = <<holding[t]>> /\ acks[c] = <<>>
        BY <3>1, <3>2, HandleIs DEF Carries
      <4>2. inbox'[c] = <<>> /\ unacked'[c] = holding[t] /\ acks' = acks
        <5>1. inbox'[c] = Tail(inbox[c]) /\ unacked'[c] = Head(inbox[c]) /\ acks' = acks
          BY <3>2, HandleIs
        <5> QED  BY <3>1, <4>1, <5>1, OneLine
      <4> QED  BY <3>1, <4>1, <4>2 DEF Carries
    <3>3. CASE Acknowledge(c)
      BY <1>c, <3>1, <3>3, AcknowledgeIs DEF Carries
    <3> QED  BY <1>7, <3>2, <3>3 DEF ChildStep
  <2> QED  BY <1>a, <2>1, <2>2, <2>3, <2>4, TalksAt DEF Threads, Alone
<1>8. CASE (\E c \in Child : Dies(c)) \/ Close \/ CloseKill \/ UNCHANGED vars
  BY <1>8, <1>a, DiesIs, CloseIs, TalksStays DEF Threads
<1> QED  BY <1>1, <1>2, <1>3, <1>4, <1>5, <1>6, <1>7, <1>8 DEF Next, WriterStep
-------------------------------------------------------------------------------
(* An answer given is given for good.                                        *)
LEMMA AnsweredStep ==
  ASSUME TypeOK, Answered, [Next]_vars
  PROVE  Answered'
<1>c. /\ inbox \in [Child -> Seq(Envelopes)] /\ acks \in [Child -> Seq(Envelopes)]
      /\ recorded \in Seq(Envelopes) /\ NoEnvelope \notin Envelopes
      /\ \A c \in Child : unacked[c] # NoEnvelope => unacked[c] \in Envelopes
  BY ConstantTypes DEF TypeOK, Maybe
<1>0. ASSUME UNCHANGED <<unacked, acks, recorded, rejected>>  PROVE Answered'
  BY <1>0 DEF Answered, Answer, Stored
<1>1. ASSUME NEW e \in Envelopes, HookStep(e) \/ SpawnFails(e)  PROVE Answered'
  BY <1>0, <1>1, SpawnIs, SendIs, PutIs DEF HookStep, Pipes, Outcome
<1>2. ASSUME NEW t \in Child, WriterStep(t) \/ AckTimeout(t), ~ReadAck(t)  PROVE Answered'
  BY <1>0, <1>2, StartsIs, TakeIs, LeavesIs, WriteIs, BreaksIs, GivesUpIs, RetireIs, KillIs
     DEF WriterStep, Pipes, Outcome
<1>3. ASSUME NEW t \in Child, ReadAck(t)  PROVE Answered'
  <2>1. /\ acks' = [acks EXCEPT ![pipe[t]] = Tail(@)] /\ acks[pipe[t]] # <<>>
        /\ UNCHANGED <<unacked, recorded, rejected>>
    BY <1>3, ReadIs DEF Outcome
  <2>2. \A c \in Child : \A i \in DOMAIN acks'[c] : \E j \in DOMAIN acks[c] : acks'[c][i] = acks[c][j]
    <3> SUFFICES ASSUME NEW c \in Child, NEW i \in DOMAIN acks'[c]
                 PROVE  \E j \in DOMAIN acks[c] : acks'[c][i] = acks[c][j]
      OBVIOUS
    <3>1. CASE c = pipe[t]
      <4>1. acks[c] \in Seq(Envelopes) /\ acks[c] # <<>> /\ acks'[c] = Tail(acks[c])
        BY <1>c, <2>1, <3>1
      <4>2. i + 1 \in DOMAIN acks[c] /\ acks'[c][i] = acks[c][i + 1]
        BY <4>1, TailIs
      <4> QED  BY <4>2
    <3>2. CASE c # pipe[t]
      BY <1>c, <2>1, <3>2
    <3> QED  BY <3>1, <3>2
  <2> QED  BY <2>1, <2>2 DEF Answered, Answer, Stored
<1>4. ASSUME NEW c \in Child, Handle(c)  PROVE Answered'
  <2>1. PICK x \in Envelopes : x = Head(inbox[c])
    BY <1>4, <1>c, HandleIs
  <2>2. (\A e \in Envelopes : Answer(e) => Answer(e)') /\ Answer(x)'
    <3>1. CASE recorded' = recorded /\ rejected' = rejected \cup {x}
      BY <3>1 DEF Answer, Stored
    <3>2. CASE recorded' = Append(recorded, x) /\ rejected' = rejected
      <4>1. /\ DOMAIN recorded' = DOMAIN recorded \cup {Len(recorded) + 1}
            /\ recorded'[Len(recorded) + 1] = x
            /\ \A i \in DOMAIN recorded : recorded'[i] = recorded[i]
        BY <1>c, <3>2, AppendIs
      <4> QED  BY <3>2, <4>1 DEF Answer, Stored
    <3> QED  BY <1>4, <2>1, <3>1, <3>2, HandleIs
  <2>3. acks' = acks /\ \A d \in Child : unacked'[d] \in {unacked[d], x}
    BY <1>4, <2>1, HandleIs
  <2>4. \A d \in Child : \A i \in DOMAIN acks[d] : acks[d][i] \in Envelopes
    BY <1>c
  <2>5. (\A d \in Child : unacked[d] # NoEnvelope => Answer(unacked[d]))'
    <3> SUFFICES ASSUME NEW d \in Child, unacked'[d] # NoEnvelope  PROVE Answer(unacked[d])'
      OBVIOUS
    <3>1. CASE unacked'[d] = x
      BY <2>2, <3>1 DEF Answer, Stored
    <3>2. CASE unacked'[d] = unacked[d]
      BY <1>c, <2>2, <3>2 DEF Answered, Answer, Stored
    <3> QED  BY <2>3, <3>1, <3>2
  <2>6. (\A d \in Child : \A i \in DOMAIN acks[d] : Answer(acks[d][i]))'
    BY <2>2, <2>3, <2>4 DEF Answered, Answer, Stored
  <2> QED  BY <2>5, <2>6 DEF Answered
<1>5. ASSUME NEW c \in Child, Acknowledge(c)  PROVE Answered'
  <2>1. /\ unacked[c] # NoEnvelope /\ unacked'[c] = NoEnvelope
        /\ acks'[c] = Append(acks[c], unacked[c])
        /\ \A d \in Child \ {c} : unacked'[d] = unacked[d] /\ acks'[d] = acks[d]
        /\ UNCHANGED <<recorded, rejected>>
    BY <1>5, AcknowledgeIs DEF Outcome
  <2>2. acks[c] \in Seq(Envelopes) /\ unacked[c] \in Envelopes
    BY <1>c, <2>1
  <2>3. \A i \in DOMAIN acks'[c] : \/ acks'[c][i] = unacked[c]
                                   \/ i \in DOMAIN acks[c] /\ acks'[c][i] = acks[c][i]
    BY <2>1, <2>2, AppendIs
  <2> QED  BY <2>1, <2>3 DEF Answered, Answer, Stored
<1>6. CASE (\E c \in Child : Dies(c)) \/ Close \/ CloseKill \/ UNCHANGED vars
  BY <1>0, <1>6, DiesIs, CloseIs DEF Pipes, Outcome
<1> QED  BY <1>1, <1>2, <1>3, <1>4, <1>5, <1>6 DEF Next, ChildStep, WriterStep
-------------------------------------------------------------------------------
LEMMA LostIsFinite ==
  ASSUME TypeOK, NEW X \in SUBSET Envelopes
  PROVE  /\ IsFiniteSet(X) /\ Cardinality(X) \in Nat
         /\ \A Y \in SUBSET X : Cardinality(Y) <= Cardinality(X)
         /\ \A x \in Envelopes : /\ X \cup {x} \in SUBSET Envelopes
                                 /\ Cardinality(X \cup {x}) <= Cardinality(X) + 1
<1>1. IsFiniteSet(Envelopes)
  BY LimitAssumption, FS_Interval DEF Envelopes
<1>2. IsFiniteSet(X) /\ Cardinality(X) \in Nat
  BY <1>1, FS_Subset, FS_CardinalityType
<1> QED  BY <1>2, FS_Subset, FS_AddElement

LEMMA RangeOfAppend ==
  ASSUME NEW S, NEW s \in Seq(S), NEW x \in S
  PROVE  RangeOf(Append(s, x)) = RangeOf(s) \cup {x}
BY AppendIs DEF RangeOf

LEMMA RangeOfTail ==
  ASSUME NEW S, NEW s \in Seq(S), s # <<>>
  PROVE  RangeOf(s) = RangeOf(Tail(s)) \cup {Head(s)}
<1>1. \A i \in DOMAIN s : i = 1 \/ (i - 1 \in DOMAIN Tail(s) /\ Tail(s)[i - 1] = s[i])
  OBVIOUS
<1>2. RangeOf(s) \subseteq RangeOf(Tail(s)) \cup {Head(s)}
  <2> SUFFICES ASSUME NEW i \in DOMAIN s  PROVE s[i] \in RangeOf(Tail(s)) \cup {Head(s)}
    BY DEF RangeOf
  <2>1. CASE i = 1
    BY <2>1, TailIs
  <2>2. CASE i # 1
    BY <1>1, <2>2 DEF RangeOf
  <2> QED  BY <2>1, <2>2
<1>3. RangeOf(Tail(s)) \cup {Head(s)} \subseteq RangeOf(s)
  BY TailIs DEF RangeOf
<1> QED  BY <1>2, <1>3

LEMMA LostShrinks ==
  ASSUME TypeOK, NEW X,
         RangeOf(accepted)' \subseteq RangeOf(accepted) \cup Pending',
         Pending \cap Envelopes \subseteq Pending' \cup RangeOf(recorded)' \cup rejected'
                                            \cup unserializable' \cup X,
         RangeOf(recorded) \subseteq RangeOf(recorded)', rejected \subseteq rejected',
         unserializable \subseteq unserializable'
  PROVE  Lost' \subseteq Lost \cup X
<1>1. RangeOf(accepted) \subseteq Envelopes
  BY DEF TypeOK, RangeOf
<1> QED  BY <1>1 DEF Lost

(* An envelope that could be serialised is lost only when a writer fails, and *)
(* that is counted.                                                           *)
LEMMA LostIn ==
  ASSUME TypeOK, Hands, Answered, Exchange, PipesOwned, [Next]_vars, ~closed'
  PROVE  /\ ~closed
         /\ \/ Lost' \subseteq Lost /\ blamed' = blamed
            \/ \E x \in Envelopes : Lost' \subseteq Lost \cup {x} /\ blamed' = blamed + 1
<1> USE ConstantTypes
<1>c. /\ accepted \in Seq(Envelopes) /\ recorded \in Seq(Envelopes)
      /\ queue \in Seq(Envelopes \cup {Stop})
  BY DEF TypeOK
<1>0. ASSUME NEW t \in Child, \A u \in Child \ {t} : holding'[u] = holding[u],
             holding'[t] = holding[t] \/ holding[t] = NoEnvelope \/ Answer(holding[t]),
             UNCHANGED <<queue, Outcome, closed, blamed>>
      PROVE  ~closed /\ Lost' \subseteq Lost /\ blamed' = blamed
  <2>1. Pending \cap Envelopes \subseteq Pending' \cup RangeOf(recorded)' \cup rejected'
    BY <1>0 DEF Pending, Answer, Stored, RangeOf, Outcome
  <2> QED  BY <1>0, <2>1, LostShrinks DEF Outcome
<1>1. ASSUME UNCHANGED <<holding, queue, Outcome, closed, blamed>>
      PROVE  ~closed /\ Lost' \subseteq Lost /\ blamed' = blamed
  BY <1>1 DEF Lost, Pending, Outcome
<1>2. ASSUME NEW e \in Envelopes, HookStep(e) \/ SpawnFails(e), ~Put(e)
      PROVE  ~closed /\ Lost' \subseteq Lost /\ blamed' = blamed
  BY <1>1, <1>2, SpawnIs, SendIs DEF HookStep, Threads
<1>3. ASSUME NEW e \in Envelopes, Put(e)  PROVE ~closed /\ Lost' \subseteq Lost /\ blamed' = blamed
  <2>1. CASE UNCHANGED <<queue, accepted>>
    BY <1>1, <1>3, <2>1, PutIs DEF Threads, Outcome
  <2>2. CASE queue' = Append(queue, e) /\ accepted' = Append(accepted, e)
    <3>1. UNCHANGED <<holding, recorded, rejected, unserializable, closed, blamed>>
      BY <1>3, PutIs DEF Threads
    <3>2. RangeOf(queue)' = RangeOf(queue) \cup {e} /\ RangeOf(accepted)' = RangeOf(accepted) \cup {e}
      BY <1>c, <2>2, RangeOfAppend
    <3>3. Lost' \subseteq Lost \cup {}
      BY <3>1, <3>2, LostShrinks DEF Pending
    <3> QED  BY <3>1, <3>3
  <2> QED  BY <1>3, <2>1, <2>2, PutIs
<1>4. ASSUME NEW t \in Child, Take(t)  PROVE ~closed /\ Lost' \subseteq Lost /\ blamed' = blamed
  <2>1. UNCHANGED <<accepted, recorded, rejected, unserializable, closed, blamed>> /\ Alone(t)
    BY <1>4, TakeIs DEF Outcome
  <2>2. RangeOf(queue) \subseteq RangeOf(queue)' \cup {Head(queue)}
    BY <1>4, <1>c, TakeIs, RangeOfTail
  <2>3. holding[t] = NoEnvelope /\ (Head(queue) = Stop \/ holding'[t] = Head(queue))
    BY <1>4, TakeIs DEF Hands
  <2>4. Pending \cap Envelopes \subseteq Pending'
    BY <2>1, <2>2, <2>3 DEF Pending, Alone
  <2>5. Lost' \subseteq Lost \cup {}
    BY <2>1, <2>4, LostShrinks
  <2> QED  BY <2>1, <2>5
<1>5. ASSUME NEW t \in Child, ReadAck(t)  PROVE ~closed /\ Lost' \subseteq Lost /\ blamed' = blamed
  <2>1. /\ writer[t] = "await" /\ acks[pipe[t]] # <<>> /\ pipe[t] \in Child
        /\ Carries(pipe[t], holding[t])
    BY <1>5, ReadIs DEF Hands, Exchange, Talks
  <2>2. acks[pipe[t]] = <<holding[t]>> /\ 1 \in DOMAIN <<holding[t]>>
    BY <2>1 DEF Carries
  <2>3. Answer(holding[t])
    BY <2>1, <2>2 DEF Answered
  <2> QED  BY <1>0, <1>5, <2>3, ReadIs DEF Alone
<1>6. ASSUME NEW t \in Child, Fail(t), writer[t] \in {"write", "await"},
             UNCHANGED <<pipe, Outcome, closed>>
      PROVE  ~closed /\ \E x \in Envelopes : Lost' \subseteq Lost \cup {x} /\ blamed' = blamed + 1
  <2>1. /\ Alone(t) /\ queue' = queue /\ blamed' = blamed + 1 /\ ~closed
        /\ UNCHANGED <<accepted, recorded, rejected, unserializable>>
    BY <1>6, FailIs DEF Outcome
  <2>2. Pending \subseteq Pending' \cup {holding[t]}
    BY <2>1 DEF Pending, Alone
  <2>3. Lost' \subseteq Lost \cup {holding[t]}
    BY <2>1, <2>2, LostShrinks
  <2> QED  BY <1>6, <2>1, <2>3 DEF Hands
<1>7. ASSUME NEW t \in Child, Write(t), writer'[t] = "await"
      PROVE  ~closed /\ Lost' \subseteq Lost /\ blamed' = blamed
  BY <1>0, <1>7, WriteIs, FailIs DEF Alone
<1>13. ASSUME NEW t \in Child, WriterBreaks(t)  PROVE ~closed /\ Lost' \subseteq Lost /\ blamed' = blamed
  <2>1. /\ Alone(t) /\ unserializable' = unserializable \cup {holding[t]}
        /\ UNCHANGED <<accepted, recorded, rejected, queue, closed, blamed>>
    BY <1>13, BreaksIs
  <2>2. Pending \cap Envelopes \subseteq Pending' \cup unserializable'
    BY <2>1 DEF Pending, Alone
  <2>3. Lost' \subseteq Lost \cup {}
    BY <2>1, <2>2, LostShrinks
  <2> QED  BY <2>1, <2>3
<1>8. ASSUME NEW t \in Child, (Write(t) /\ writer'[t] # "await") \/ AckEof(t) \/ AckTimeout(t)
      PROVE  Fail(t) /\ writer[t] \in {"write", "await"} /\ UNCHANGED <<pipe, Outcome, closed>>
  BY <1>8, WriteIs, GivesUpIs
<1>9. ASSUME NEW t \in Child, WriterStarts(t) \/ WriterLeaves(t) \/ Retire(t) \/ Kill(t)
      PROVE  ~closed /\ Lost' \subseteq Lost /\ blamed' = blamed
  BY <1>0, <1>9, StartsIs, LeavesIs, RetireIs, KillIs DEF Alone
<1>10. ASSUME NEW c \in Child, Handle(c)  PROVE ~closed /\ Lost' \subseteq Lost /\ blamed' = blamed
  <2>1. /\ UNCHANGED <<holding, queue, accepted, unserializable, closed, blamed>>
        /\ rejected \subseteq rejected'
    BY <1>10, HandleIs DEF Threads
  <2>2. RangeOf(recorded) \subseteq RangeOf(recorded)'
    <3>1. inbox[c] \in Seq(Envelopes) /\ inbox[c] # <<>>
      BY <1>10, HandleIs DEF TypeOK
    <3>2. Head(inbox[c]) \in Envelopes
      BY <3>1
    <3>3. recorded' = recorded \/ recorded' = Append(recorded, Head(inbox[c]))
      BY <1>10, HandleIs
    <3>4. RangeOf(Append(recorded, Head(inbox[c]))) = RangeOf(recorded) \cup {Head(inbox[c])}
      BY <1>c, <3>2, RangeOfAppend
    <3> QED  BY <3>3, <3>4
  <2>3. Lost' \subseteq Lost \cup {}
    BY <2>1, <2>2, LostShrinks DEF Pending
  <2> QED  BY <2>1, <2>3
<1>11. ASSUME NEW c \in Child, Acknowledge(c) \/ Dies(c)
       PROVE  ~closed /\ Lost' \subseteq Lost /\ blamed' = blamed
  BY <1>1, <1>11, AcknowledgeIs, DiesIs DEF Threads
<1>12. CASE Close \/ CloseKill \/ UNCHANGED vars
  BY <1>1, <1>12, CloseIs DEF Threads
<1> QED  BY <1>2, <1>3, <1>4, <1>5, <1>6, <1>7, <1>8, <1>9, <1>10, <1>11, <1>12,
            <1>13
         DEF Next, HookStep, ChildStep, WriterStep

LEMMA CountedStep ==
  ASSUME TypeOK, TypeOK', Hands, Answered, Exchange, Counted, [Next]_vars
  PROVE  Counted'
<1> SUFFICES ASSUME PipesOwned', ~closed'  PROVE Cardinality(Lost') <= blamed'
  BY DEF Counted
<1>1. PipesOwned /\ ~closed /\ blamed \in Nat
  BY OwnedBefore, LostIn DEF TypeOK
<1>2. Lost \in SUBSET Envelopes /\ Cardinality(Lost) \in Nat /\ Cardinality(Lost) <= blamed
  <2>1. Lost \in SUBSET Envelopes
    BY DEF Lost, RangeOf, TypeOK
  <2> QED  BY <1>1, <2>1, LostIsFinite DEF Counted
<1>3. CASE Lost' \subseteq Lost /\ blamed' = blamed
  <2>1. Cardinality(Lost') <= Cardinality(Lost) /\ Cardinality(Lost') \in Nat
    BY <1>2, <1>3, LostIsFinite
  <2> QED  BY <1>1, <1>2, <1>3, <2>1
<1>4. ASSUME NEW x \in Envelopes, Lost' \subseteq Lost \cup {x}, blamed' = blamed + 1
      PROVE  Cardinality(Lost') <= blamed'
  <2>1. Lost \cup {x} \in SUBSET Envelopes /\ Cardinality(Lost \cup {x}) <= Cardinality(Lost) + 1
    BY <1>2, LostIsFinite
  <2>2. /\ Cardinality(Lost') <= Cardinality(Lost \cup {x})
        /\ Cardinality(Lost') \in Nat /\ Cardinality(Lost \cup {x}) \in Nat
    <3>1. Lost' \in SUBSET Envelopes
      BY <1>4, <2>1
    <3> QED  BY <1>4, <2>1, <3>1, LostIsFinite
  <2> QED  BY <1>1, <1>2, <1>4, <2>1, <2>2
<1> QED  BY <1>1, <1>3, <1>4, LostIn
-------------------------------------------------------------------------------
LEMMA DeliveryInit == Init => DeliveryInv
<1> SUFFICES ASSUME Init  PROVE DeliveryInv
  OBVIOUS
<1>1. Hands /\ Born
  BY ConstantTypes DEF Init, Hands, Born, Started
<1>2. Exchange
  BY DEF Init, Exchange, Talks, Silent
<1>3. Answered
  BY DEF Init, Answered
<1>4. Counted
  <2>1. Lost = {} /\ blamed = 0
    BY DEF Init, Lost, RangeOf
  <2> QED  BY <2>1, FS_EmptySet DEF Counted
<1> QED  BY <1>1, <1>2, <1>3, <1>4 DEF DeliveryInv

LEMMA DeliveryStep == TypeOK /\ TypeOK' /\ DeliveryInv /\ [Next]_vars => DeliveryInv'
BY HandsStep, ExchangeStep, AnsweredStep, CountedStep DEF DeliveryInv

THEOREM DeliveryInvariance == Spec => []DeliveryInv
BY DeliveryInit, DeliveryStep, TypeCorrect, PTL DEF Spec

(* Whatever child is slow, dies or is given up, no writer reads the ACK of   *)
(* another envelope than the one it waits for, unless two writers have got   *)
(* hold of one child (_read_ack, _retire_proc).                              *)
THEOREM AcksAreOwn == Spec => []AckMatches
<1>1. TypeOK /\ DeliveryInv => AckMatches
  <2> SUFFICES ASSUME TypeOK, DeliveryInv, PipesOwned, NEW t \in Child,
                      writer[t] = "await", acks[pipe[t]] # <<>>
               PROVE  Head(acks[pipe[t]]) = holding[t]
    BY DEF AckMatches
  <2>1. Carries(pipe[t], holding[t]) /\ holding[t] \in Envelopes
    BY DEF DeliveryInv, Exchange, Talks, Hands
  <2>2. acks[pipe[t]] = <<holding[t]>>
    BY <2>1 DEF Carries
  <2> QED  BY <2>1, <2>2, OneLine
<1> QED  BY <1>1, DeliveryInvariance, TypeCorrect, PTL

(* Of the envelopes send accepted, as many as were given up unanswered       *)
(* counted as failures, so that losses add up to the degraded state          *)
(* (_run_writer, _record_failure).                                           *)
THEOREM LossesAreCounted == Spec => []LossIsCounted
<1>1. DeliveryInv => LossIsCounted
  BY DEF DeliveryInv, Counted, Lost, LossIsCounted
<1> QED  BY <1>1, DeliveryInvariance, PTL
-------------------------------------------------------------------------------
(* An accepted envelope comes last, in the queue and in the order.           *)
LEMMA PutAccepts ==
  ASSUME TypeOK, NEW e \in Envelopes, Put(e), hook'[e] = "sent"
  PROVE  /\ DOMAIN accepted' = DOMAIN accepted \cup {Len(accepted) + 1}
         /\ Len(accepted) + 1 \notin DOMAIN accepted /\ accepted'[Len(accepted) + 1] = e
         /\ \A i \in DOMAIN accepted : accepted'[i] = accepted[i] /\ i < Len(accepted) + 1
         /\ DOMAIN queue' = DOMAIN queue \cup {Len(queue) + 1}
         /\ Len(queue) + 1 \notin DOMAIN queue /\ queue'[Len(queue) + 1] = e
         /\ \A i \in DOMAIN queue : queue'[i] = queue[i] /\ i < Len(queue) + 1
         /\ hook[e] = "put" /\ hook' = [hook EXCEPT ![e] = "sent"]
<1>1. /\ accepted \in Seq(Envelopes) /\ queue \in Seq(Envelopes \cup {Stop})
      /\ hook \in [Envelopes -> {"check", "start", "put", "sent", "dropped"}]
  BY DEF TypeOK
<1>2. accepted' = Append(accepted, e) /\ queue' = Append(queue, e)
  BY <1>1, PutIs
<1>3. (\A i \in DOMAIN accepted : i < Len(accepted) + 1) /\ \A i \in DOMAIN queue : i < Len(queue) + 1
  BY <1>1
<1>4. hook[e] = "put" /\ hook' = [hook EXCEPT ![e] = "sent"]
  BY <1>1, PutIs
<1> QED  BY <1>1, <1>2, <1>3, <1>4, AppendIs

LEMMA AcceptedStep ==
  ASSUME TypeOK, TypeOK', IInv, Hands, AcceptedOnce, [Next]_vars
  PROVE  AcceptedOnce'
<1> USE ConstantTypes
<1>c. /\ accepted \in Seq(Envelopes) /\ recorded \in Seq(Envelopes)
      /\ queue \in Seq(Envelopes \cup {Stop}) /\ inbox \in [Child -> Seq(Envelopes)]
      /\ hook \in [Envelopes -> {"check", "start", "put", "sent", "dropped"}]
  BY DEF TypeOK
<1>0. ASSUME accepted' = accepted, \A e \in Envelopes : InPlay(e)' => InPlay(e),
             \A e \in Envelopes : hook[e] = "sent" => hook'[e] = "sent"
      PROVE  AcceptedOnce'
  <2>1. \A e \in RangeOf(accepted) : e \in Envelopes
    BY <1>c DEF RangeOf
  <2> QED  BY <1>0, <2>1 DEF AcceptedOnce
<1>1. ASSUME UNCHANGED <<holding, inbox, queue, recorded, accepted>>,
             \A e \in Envelopes : hook[e] = "sent" => hook'[e] = "sent"
      PROVE  AcceptedOnce'
  BY <1>0, <1>1 DEF InPlay, Queued, Piped, Stored
<1>2. ASSUME NEW e \in Envelopes, Put(e), hook'[e] = "sent"  PROVE AcceptedOnce'
  <2>1. e \notin RangeOf(accepted)
    BY <1>2, PutAccepts DEF AcceptedOnce
  <2>2. \A f \in Envelopes : f \in RangeOf(accepted)' <=> f \in RangeOf(accepted) \/ f = e
    BY <1>2, PutAccepts DEF RangeOf
  <2>3. \A f \in Envelopes : InPlay(f)' => InPlay(f) \/ f = e
    BY <1>2, PutAccepts, PutIs DEF InPlay, Queued, Piped, Stored, Threads, Pipes
  <2>4. \A i, j \in DOMAIN accepted' : accepted'[i] = accepted'[j] => i = j
    BY <1>2, <2>1, PutAccepts DEF AcceptedOnce, RangeOf
  <2>5. \A f \in RangeOf(accepted)' : hook'[f] = "sent"
    BY <1>2, <1>c, PutAccepts DEF AcceptedOnce, RangeOf
  <2> QED  BY <2>2, <2>3, <2>4, <2>5 DEF AcceptedOnce
<1>3. ASSUME NEW e \in Envelopes, HookStep(e) \/ SpawnFails(e), ~(Put(e) /\ hook'[e] = "sent")
      PROVE  AcceptedOnce'
  BY <1>1, <1>3, <1>c, SpawnIs, SendIs, PutIs DEF HookStep, Threads, Pipes, Outcome
<1>4. ASSUME NEW t \in Child, Take(t)  PROVE AcceptedOnce'
  <2>1. queue' = Tail(queue) /\ queue # <<>> /\ Alone(t) /\ UNCHANGED <<inbox, recorded,
                                          accepted, hook>>
    BY <1>4, TakeIs DEF Pipes, Outcome
  <2>2. \A e \in Envelopes : Queued(e)' => Queued(e)
    BY <1>c, <2>1, TailIs DEF Queued
  <2>3. holding'[t] = holding[t] \/ (holding'[t] = queue[1] /\ 1 \in DOMAIN queue)
    BY <1>4, <1>c, TakeIs, TailIs
  <2> QED  BY <1>0, <2>1, <2>2, <2>3 DEF InPlay, Queued, Piped, Stored, Alone
<1>5. ASSUME NEW t \in Child, Write(t), writer'[t] = "await"  PROVE AcceptedOnce'
  <2>1. /\ inbox' = [inbox EXCEPT ![pipe[t]] = Append(@, holding[t])] /\ holding[t] \in Envelopes
        /\ UNCHANGED <<queue, recorded, accepted, hook>>
        /\ \A u \in Child : holding'[u] = holding[u]
        /\ pipe[t] \in Child
    BY <1>5, WriteIs, FailIs DEF Alone, Hands, Outcome
  <2>2. \A e \in Envelopes : Piped(e)' => Piped(e) \/ e = holding[t]
    <3>1. /\ inbox'[pipe[t]] = Append(inbox[pipe[t]], holding[t]) /\ inbox[pipe[t]] \in Seq(Envelopes)
          /\ \A c \in Child \ {pipe[t]} : inbox'[c] = inbox[c]
      BY <1>c, <2>1
    <3>2. \A i \in DOMAIN inbox'[pipe[t]] :
            \/ inbox'[pipe[t]][i] = holding[t]
            \/ i \in DOMAIN inbox[pipe[t]] /\ inbox'[pipe[t]][i] = inbox[pipe[t]][i]
      BY <2>1, <3>1, AppendIs
    <3> QED  BY <2>1, <3>1, <3>2 DEF Piped
  <2> QED  BY <1>0, <2>1, <2>2 DEF InPlay, Queued, Stored
<1>6. ASSUME NEW t \in Child, WriterStep(t) \/ AckTimeout(t), ~Take(t),
             ~(Write(t) /\ writer'[t] = "await")
      PROVE  AcceptedOnce'
  <2>1. /\ UNCHANGED <<inbox, queue, recorded, accepted, hook>> /\ Alone(t)
        /\ holding'[t] \in {holding[t], NoEnvelope}
    BY <1>6, StartsIs, LeavesIs, WriteIs, FailIs, BreaksIs, ReadIs, GivesUpIs, RetireIs, KillIs
       DEF WriterStep, Pipes, Outcome
  <2> QED  BY <1>0, <2>1 DEF InPlay, Queued, Piped, Stored, Alone
<1>7. ASSUME NEW c \in Child, Handle(c)  PROVE AcceptedOnce'
  <2>1. PICK x \in Envelopes : x = Head(inbox[c]) /\ inbox[c] \in Seq(Envelopes) /\ inbox[c] # <<>>
    BY <1>7, <1>c, HandleIs
  <2>2. /\ \A e \in Envelopes : Piped(e)' => Piped(e)
        /\ Piped(x)
    <3>1. inbox'[c] = Tail(inbox[c]) /\ \A d \in Child \ {c} : inbox'[d] = inbox[d]
      BY <1>7, HandleIs
    <3>2. 1 \in DOMAIN inbox[c] /\ inbox[c][1] = x
      BY <2>1, TailIs
    <3>3. \A i \in DOMAIN inbox'[c] : i + 1 \in DOMAIN inbox[c] /\ inbox'[c][i] = inbox[c][i + 1]
      BY <2>1, <3>1, TailIs
    <3> QED  BY <3>1, <3>2, <3>3 DEF Piped
  <2>3. \A e \in Envelopes : Stored(e)' => Stored(e) \/ e = x
    <3>1. recorded' = recorded \/ recorded' = Append(recorded, x)
      BY <1>7, <2>1, HandleIs
    <3>2. \A i \in DOMAIN Append(recorded, x) :
            \/ Append(recorded, x)[i] = x
            \/ i \in DOMAIN recorded /\ Append(recorded, x)[i] = recorded[i]
      BY <1>c, AppendIs
    <3> QED  BY <3>1, <3>2 DEF Stored
  <2>4. UNCHANGED <<holding, queue, accepted, hook>>
    BY <1>7, HandleIs DEF Threads
  <2> QED  BY <1>0, <2>2, <2>3, <2>4 DEF InPlay, Queued
<1>8. ASSUME NEW c \in Child, Acknowledge(c) \/ Dies(c)  PROVE AcceptedOnce'
  BY <1>1, <1>8, AcknowledgeIs, DiesIs DEF Threads, Pipes, Outcome
<1>9. CASE Close
  <2>1. UNCHANGED <<Threads, Pipes, Outcome, hook>>
    BY <1>9, CloseIs
  <2>2. \A e \in Envelopes : Queued(e)' => Queued(e)
    BY <1>9, <1>c, AppendIs DEF Close, Queued
  <2> QED  BY <1>0, <2>1, <2>2 DEF InPlay, Piped, Stored, Threads, Pipes, Outcome
<1>10. CASE CloseKill \/ UNCHANGED vars
  <2>1. UNCHANGED queue
    BY <1>10 DEF CloseKill, vars
  <2> QED  BY <1>1, <1>10, <2>1, CloseIs DEF Threads, Pipes, Outcome
<1> QED  BY <1>2, <1>3, <1>4, <1>5, <1>6, <1>7, <1>8, <1>9, <1>10
         DEF Next, HookStep, ChildStep, WriterStep
-------------------------------------------------------------------------------
(* What is disturbed stays so.                                               *)
LEMMA UndisturbedBefore ==
  ASSUME TypeOK, Hands, [Next]_vars, Undisturbed'
  PROVE  Undisturbed
<1>1. ASSUME NEW e \in Envelopes, HookStep(e) \/ SpawnFails(e)  PROVE ~impatient /\ ~closed
  BY <1>1, SpawnIs, SendIs, PutIs DEF HookStep, Undisturbed
<1>2. ASSUME NEW t \in Child, WriterStep(t) \/ AckTimeout(t)  PROVE ~impatient /\ ~closed
  BY <1>2, StartsIs, TakeIs, LeavesIs, WriteIs, BreaksIs, ReadIs, GivesUpIs, RetireIs, KillIs
     DEF WriterStep, Undisturbed
<1>3. ASSUME NEW c \in Child, ChildStep(c) \/ Dies(c)  PROVE ~impatient /\ ~closed
  BY <1>3, HandleIs, AcknowledgeIs, DiesIs DEF ChildStep, Undisturbed
<1>4. ASSUME Close \/ CloseKill \/ UNCHANGED vars  PROVE ~impatient /\ ~closed
  BY <1>4, CloseIs DEF Undisturbed
<1> QED  BY <1>1, <1>2, <1>3, <1>4, OwnedBefore DEF Next, Undisturbed

LEMMA OneUpStep ==
  ASSUME TypeOK, Hands, Born, OneUp, Undisturbed', [Next]_vars
  PROVE  OneUp'
<1> USE ConstantTypes
<1>a. /\ proc \in Child \cup {None} /\ \A t \in Child : pipe[t] \in Child \cup {None}
      /\ child \in [Child -> {"none", "up", "dead"}]
      /\ queue \in Seq(Envelopes \cup {Stop})
  BY DEF TypeOK
<1>b. ~closed /\ ~closed' /\ ~impatient'
  BY UndisturbedBefore DEF Undisturbed
<1>0. ASSUME UNCHANGED <<writer, pipe, queue>>, proc' = proc,
             \A c \in Child : child'[c] = child[c] \/ child'[c] = "dead"
      PROVE  OneUp'
  BY <1>0, <1>a DEF OneUp
<1>1. ASSUME NEW e \in Envelopes, NEW c \in Child, Spawn(e, c)  PROVE OneUp'
  <2>1. \A d \in Child : child[d] # "up"
    BY <1>1, SpawnIs DEF OneUp, ProcAlive
  <2>2. /\ proc' = c /\ UNCHANGED <<pipe, queue>> /\ child[c] = "none"
        /\ \A d \in Child \ {c} : child'[d] = child[d]
        /\ \A t \in Child : writer'[t] = writer[t] \/ writer'[t] = "starting"
    BY <1>1, SpawnIs
  <2> QED  BY <1>a, <2>1, <2>2 DEF OneUp
<1>2. ASSUME NEW e \in Envelopes, SendCheck(e) \/ AlreadyStarted(e) \/ SpawnFails(e)  PROVE OneUp'
  <2>1. UNCHANGED <<writer, pipe, queue, child>> /\ (proc' = proc \/ ~ProcAlive)
    BY <1>2, SendIs DEF Threads
  <2> QED  BY <2>1 DEF OneUp, ProcAlive
<1>3. ASSUME NEW e \in Envelopes, Put(e)  PROVE OneUp'
  <2>1. UNCHANGED <<writer, pipe, child, proc>>
    BY <1>3, PutIs DEF Threads
  <2>2. \A i \in DOMAIN queue' : queue'[i] # Stop
    <3>1. queue' = queue \/ queue' = Append(queue, e)
      BY <1>3, PutIs
    <3>2. e # Stop
      OBVIOUS
    <3> QED  BY <1>a, <3>1, <3>2, AppendIs DEF OneUp
  <2> QED  BY <2>1, <2>2 DEF OneUp
<1>4. ASSUME NEW t \in Child, WriterStarts(t)  PROVE OneUp'
  BY <1>4, <1>a, StartsIs DEF OneUp, Alone
<1>5. ASSUME NEW t \in Child, Take(t)  PROVE OneUp'
  <2>1. queue' = Tail(queue) /\ queue # <<>> /\ UNCHANGED <<pipe, child, proc>> /\ Alone(t)
    BY <1>5, TakeIs
  <2>2. writer'[t] = "write" /\ \A i \in DOMAIN queue' : queue'[i] # Stop
    BY <1>5, <1>a, <2>1, TakeIs, TailIs DEF OneUp
  <2> QED  BY <2>1, <2>2 DEF OneUp, Alone
<1>6. ASSUME NEW t \in Child, Write(t) \/ WriterBreaks(t) \/ ReadAck(t) \/ AckEof(t) \/ AckTimeout(t)
      PROVE  OneUp'
  <2>1. /\ UNCHANGED <<pipe, queue, child, proc>> /\ Alone(t)
        /\ writer'[t] \in {"retire", "done"} => child[pipe[t]] = "dead"
        /\ writer'[t] # "kill"
    BY <1>6, <1>b, WriteIs, BreaksIs, ReadIs, GivesUpIs, FailIs
  <2> QED  BY <2>1 DEF OneUp, Alone
<1>7. ASSUME NEW t \in Child, WriterLeaves(t)  PROVE OneUp'
  BY <1>7, <1>b, LeavesIs
<1>8. ASSUME NEW t \in Child, Retire(t)  PROVE OneUp'
  BY <1>8, <1>a, RetireIs DEF OneUp, Alone
<1>9. ASSUME NEW t \in Child, Kill(t)  PROVE OneUp'
  BY <1>9, <1>a, KillIs DEF OneUp, Alone
<1>10. ASSUME NEW c \in Child, ChildStep(c) \/ Dies(c)  PROVE OneUp'
  BY <1>0, <1>10, <1>a, HandleIs, AcknowledgeIs, DiesIs DEF ChildStep, Threads
<1>11. CASE Close \/ CloseKill \/ UNCHANGED vars
  BY <1>0, <1>11, <1>a, <1>b, CloseIs DEF Threads
<1> QED  BY <1>1, <1>2, <1>3, <1>4, <1>5, <1>6, <1>7, <1>8, <1>9, <1>10, <1>11
         DEF Next, HookStep, WriterStep

(* The steps that only take something away.                                  *)
LEMMA OrderedStays ==
  ASSUME Ordered, UNCHANGED <<queue, recorded, accepted>>,
         \A t \in Child : holding'[t] = holding[t] \/ holding'[t] = NoEnvelope,
         \A e \in Envelopes : Underway(e)' => Underway(e)
  PROVE  Ordered'
BY DEF Ordered, Before

(* The steps that add something, to the queue, to a writer, to the rows.     *)
LEMMA OrderedPut ==
  ASSUME TypeOK, Hands, OneUp, AcceptedOnce, Ordered, NEW e \in Envelopes, Put(e), hook'[e] = "sent"
  PROVE  Ordered'
<1>c. queue \in Seq(Envelopes \cup {Stop}) /\ recorded \in Seq(Envelopes)
  BY DEF TypeOK
<1>1. \A f, g \in Envelopes : Before(f, g) => Before(f, g)'
  BY PutAccepts DEF Before
<1>2. \A f \in Envelopes : f \in RangeOf(accepted) => Before(f, e)'
  BY PutAccepts DEF Before, RangeOf
<1>3. \A f \in Envelopes : InPlay(f) => Before(f, e)'
  BY <1>2 DEF AcceptedOnce
<1>4. \A i \in DOMAIN queue : queue[i] \in Envelopes /\ InPlay(queue[i])
  BY <1>c DEF OneUp, InPlay, Queued
<1>5. \A i \in DOMAIN recorded : recorded[i] \in Envelopes /\ InPlay(recorded[i])
  BY <1>c DEF InPlay, Stored
<1>6. \A t \in Child : holding[t] # NoEnvelope => holding[t] \in Envelopes /\ InPlay(holding[t])
  BY DEF Hands, InPlay
<1>7. UNCHANGED <<writer, pipe, holding, inbox, recorded, child>>
  BY PutIs DEF Threads, Pipes
<1>8. \A j \in DOMAIN queue' : \/ j \in DOMAIN queue /\ queue'[j] = queue[j]
                               \/ j = Len(queue) + 1 /\ queue'[j] = e
  <2>1. /\ DOMAIN queue' = DOMAIN queue \cup {Len(queue) + 1} /\ queue'[Len(queue) + 1] = e
        /\ \A i \in DOMAIN queue : queue'[i] = queue[i]
    BY PutAccepts
  <2> QED  BY <2>1
<1>9. ASSUME NEW i \in DOMAIN queue', NEW j \in DOMAIN queue', i < j
      PROVE  \E k, l \in DOMAIN accepted' : k < l /\ accepted'[k] = queue'[i] /\ accepted'[l] = queue'[j]
  <2>1. i \in DOMAIN queue /\ queue'[i] = queue[i]
    BY <1>c, <1>8, <1>9, PutAccepts
  <2>2. CASE j \in DOMAIN queue /\ queue'[j] = queue[j]
    BY <1>1, <1>4, <1>9, <2>1, <2>2 DEF Ordered, Before
  <2>3. CASE queue'[j] = e
    BY <1>3, <1>4, <2>1, <2>3 DEF Before
  <2> QED  BY <1>8, <2>2, <2>3
<1>10. ASSUME NEW f \in Envelopes, InPlay(f), \A j \in DOMAIN queue : Before(f, queue[j]),
              NEW j \in DOMAIN queue'
       PROVE  \E k, l \in DOMAIN accepted' : k < l /\ accepted'[k] = f /\ accepted'[l] = queue'[j]
  BY <1>1, <1>3, <1>4, <1>8, <1>10 DEF Before
<1>11. \A t \in Child : holding'[t] # NoEnvelope => \A j \in DOMAIN queue' :
          \E k, l \in DOMAIN accepted' : k < l /\ accepted'[k] = holding'[t] /\ accepted'[l] = queue'[j]
  BY <1>6, <1>7, <1>10 DEF Ordered
<1>12. \A i \in DOMAIN recorded' : \A j \in DOMAIN queue' :
          \E k, l \in DOMAIN accepted' : k < l /\ accepted'[k] = recorded'[i] /\ accepted'[l] = queue'[j]
  BY <1>5, <1>7, <1>10 DEF Ordered
<1>13. \A i \in DOMAIN recorded' : \A f \in Envelopes : Underway(f)' =>
          \E k, l \in DOMAIN accepted' : k < l /\ accepted'[k] = recorded'[i] /\ accepted'[l] = f
  BY <1>1, <1>5, <1>7 DEF Ordered, Underway, Before
<1>14. \A i, j \in DOMAIN recorded' : i < j =>
          \E k, l \in DOMAIN accepted' : k < l /\ accepted'[k] = recorded'[i] /\ accepted'[l] = recorded'[j]
  BY <1>1, <1>5, <1>7 DEF Ordered, Before
<1> QED  BY <1>9, <1>11, <1>12, <1>13, <1>14 DEF Ordered, Before

LEMMA OrderedTake ==
  ASSUME TypeOK, Hands, OneUp, Ordered, NEW t \in Child, Take(t)
  PROVE  Ordered'
<1> USE ConstantTypes
<1>c. queue \in Seq(Envelopes \cup {Stop}) /\ recorded \in Seq(Envelopes)
  BY DEF TypeOK
<1>1. /\ queue # <<>> /\ queue' = Tail(queue) /\ Alone(t)
      /\ UNCHANGED <<pipe, inbox, child, accepted, recorded>>
  BY TakeIs DEF Pipes, Outcome
<1>2. /\ 1 \in DOMAIN queue /\ queue[1] = Head(queue)
      /\ \A i \in DOMAIN queue' : /\ i \in Nat /\ i + 1 \in DOMAIN queue /\ 1 < i + 1
                                  /\ queue'[i] = queue[i + 1]
  <2>1. \A i \in DOMAIN Tail(queue) : 1 < i + 1
    BY <1>c, <1>1
  <2> QED  BY <1>c, <1>1, <2>1, TailIs
<1>3. queue[1] \in Envelopes /\ writer'[t] = "write" /\ holding'[t] = queue[1]
  BY <1>2, TakeIs DEF OneUp
<1>4. \A f \in Envelopes : Underway(f)' => Underway(f) \/ f = queue[1]
  BY <1>1, <1>3 DEF Underway, Alone
<1>5. \A i, j \in DOMAIN queue' : i < j => Before(queue[i + 1], queue[j + 1])
  BY <1>2 DEF Ordered
<1>6. \A u \in Child : holding'[u] # NoEnvelope => \A i \in DOMAIN queue' :
          (IF u = t THEN Before(queue[1], queue[i + 1]) ELSE Before(holding[u], queue[i + 1]))
  BY <1>1, <1>2 DEF Ordered, Alone
<1>7. \A i \in DOMAIN recorded : \A j \in DOMAIN queue' : Before(recorded[i], queue[j + 1])
  BY <1>2 DEF Ordered
<1>8. \A i \in DOMAIN recorded : \A f \in Envelopes : Underway(f)' => Before(recorded[i], f)
  BY <1>2, <1>3, <1>4 DEF Ordered
<1>9. (\A i, j \in DOMAIN queue : i < j => Before(queue[i], queue[j]))'
  BY <1>1, <1>2, <1>5 DEF Before
<1>10. (\A u \in Child : holding[u] # NoEnvelope => \A i \in DOMAIN queue : Before(holding[u], queue[i]))'
  BY <1>1, <1>2, <1>3, <1>6 DEF Before, Alone
<1>11. (\A i \in DOMAIN recorded : \A j \in DOMAIN queue : Before(recorded[i], queue[j]))'
  BY <1>1, <1>2, <1>7 DEF Before
<1>12. (\A i \in DOMAIN recorded : \A f \in Envelopes : Underway(f) => Before(recorded[i], f))'
  BY <1>1, <1>8 DEF Before
<1>13. (\A i, j \in DOMAIN recorded : i < j => Before(recorded[i], recorded[j]))'
  BY <1>1 DEF Ordered, Before
<1> QED  BY <1>9, <1>10, <1>11, <1>12, <1>13 DEF Ordered

LEMMA OrderedHandle ==
  ASSUME TypeOK, Hands, OneUp, Talks, PipesOwned, Ordered, NEW c \in Child, Handle(c)
  PROVE  Ordered'
<1> USE ConstantTypes
<1>c. /\ inbox \in [Child -> Seq(Envelopes)] /\ recorded \in Seq(Envelopes)
  BY DEF TypeOK
<1>1. PICK x \in Envelopes : x = Head(inbox[c])
  BY <1>c, HandleIs
<1>2. /\ inbox[c] # <<>> /\ inbox'[c] = Tail(inbox[c]) /\ child[c] = "up"
      /\ \A d \in Child \ {c} : inbox'[d] = inbox[d]
      /\ recorded' = recorded \/ recorded' = Append(recorded, x)
      /\ UNCHANGED <<writer, pipe, holding, child, queue, accepted>>
  BY <1>1, HandleIs DEF Threads
<1>3. PICK t \in Child : pipe[t] = c
  BY <1>2 DEF Talks, Silent
<1>4. writer[t] = "await" /\ inbox[c] = <<holding[t]>> /\ holding[t] \in Envelopes
  <2>1. writer[t] \notin {"loop", "write", "broken", "retire", "kill", "done"}
    BY <1>2, <1>3 DEF Talks, Silent, OneUp
  <2>2. writer[t] \notin {"none", "starting"}
    BY <1>3 DEF Hands
  <2>3. writer[t] = "await"
    BY <2>1, <2>2 DEF TypeOK
  <2> QED  BY <1>2, <1>3, <2>3 DEF Talks, Carries, Hands
<1>5. x = holding[t] /\ inbox'[c] = <<>>
  BY <1>1, <1>2, <1>4, OneLine
<1>6. \A f \in Envelopes : ~Underway(f)'
  <2>1. \A d \in Child : child'[d] = "up" => d = c
    BY <1>2 DEF OneUp
  <2>2. \A u \in Child : writer[u] = "write" => pipe[u] # c
    BY <1>3, <1>4 DEF PipesOwned
  <2> QED  BY <1>2, <1>5, <2>1, <2>2 DEF Underway, Hands
<1>7. \A j \in DOMAIN queue : Before(x, queue[j])
  BY <1>4, <1>5 DEF Ordered
<1>8. \A i \in DOMAIN recorded : Before(recorded[i], x)
  <2>1. 1 \in DOMAIN inbox[c] /\ inbox[c][1] = x
    BY <1>c, <1>1, <1>2, TailIs
  <2>2. Underway(x)
    BY <1>2, <2>1 DEF Underway
  <2> QED  BY <2>2 DEF Ordered
<1>9. CASE recorded' = recorded
  BY <1>2, <1>6, <1>9, OrderedStays
<1>10. CASE recorded' = Append(recorded, x)
  <2>1. \A i \in DOMAIN recorded' : \/ i \in DOMAIN recorded /\ recorded'[i] = recorded[i]
                                    \/ i = Len(recorded) + 1 /\ recorded'[i] = x
    BY <1>c, <1>10, AppendIs
  <2>2. \A i, j \in DOMAIN recorded' : i < j => i \in DOMAIN recorded
    BY <1>c, <1>10
  <2>3. (\A i \in DOMAIN recorded : \A j \in DOMAIN queue : Before(recorded[i], queue[j]))'
    BY <1>2, <1>7, <2>1 DEF Ordered, Before
  <2>4. (\A i, j \in DOMAIN recorded : i < j => Before(recorded[i], recorded[j]))'
    BY <1>2, <1>8, <2>1, <2>2 DEF Ordered, Before
  <2>5. /\ (\A i, j \in DOMAIN queue : i < j => Before(queue[i], queue[j]))'
        /\ (\A u \in Child : holding[u] # NoEnvelope
                               => \A i \in DOMAIN queue : Before(holding[u], queue[i]))'
    BY <1>2 DEF Ordered, Before
  <2> QED  BY <1>6, <2>3, <2>4, <2>5 DEF Ordered
<1> QED  BY <1>2, <1>9, <1>10

LEMMA OrderedStep ==
  ASSUME TypeOK, Hands, Born, Exchange, OneUp, AcceptedOnce, Ordered, PipesOwned, ~closed', [Next]_vars
  PROVE  Ordered'
<1> USE ConstantTypes
<1>a. /\ child \in [Child -> {"none", "up", "dead"}] /\ inbox \in [Child -> Seq(Envelopes)]
      /\ \A t \in Child : pipe[t] \in Child \cup {None}
      /\ closing \in Child \cup {None}
  BY DEF TypeOK
<1>b. Talks
  BY DEF Exchange
<1>0. ASSUME UNCHANGED <<writer, pipe, holding, inbox, queue, recorded, accepted>>,
             \A c \in Child : child'[c] = child[c] \/ child'[c] = "dead"
      PROVE  Ordered'
  <2>1. \A e \in Envelopes : Underway(e)' => Underway(e)
    <3> SUFFICES ASSUME NEW e \in Envelopes, Underway(e)'  PROVE Underway(e)
      OBVIOUS
    <3>1. \A t \in Child : writer[t] = "write" => pipe[t] \in Child
      BY DEF Hands
    <3> QED  BY <1>0, <3>1 DEF Underway
  <2> QED  BY <1>0, <2>1, OrderedStays
<1>1. ASSUME NEW e \in Envelopes, NEW c \in Child, Spawn(e, c)  PROVE Ordered'
  <2>1. /\ UNCHANGED <<pipe, holding, inbox, queue, recorded, accepted>>
        /\ child[c] = "none" /\ \A d \in Child \ {c} : child'[d] = child[d]
        /\ \A t \in Child : writer'[t] = "write" => writer[t] = "write"
    BY <1>1, SpawnIs DEF Pipes, Outcome
  <2>2. \A t \in Child : pipe[t] # c
    BY <2>1 DEF Born, Started
  <2>3. inbox[c] = <<>>
    BY <1>b, <2>2 DEF Talks, Silent
  <2>4. \A t \in Child : writer[t] = "write" => pipe[t] \in Child \ {c}
    BY <2>2 DEF Hands
  <2>5. \A f \in Envelopes : Underway(f)' => Underway(f)
    BY <2>1, <2>3, <2>4 DEF Underway
  <2> QED  BY <2>1, <2>5, OrderedStays
<1>2. ASSUME NEW e \in Envelopes, HookStep(e) \/ SpawnFails(e), ~\E c \in Child : Spawn(e, c),
             ~(Put(e) /\ hook'[e] = "sent")
      PROVE  Ordered'
  <2>1. UNCHANGED <<writer, pipe, holding, inbox, queue, recorded, accepted, child>>
    <3>1. hook \in [Envelopes -> {"check", "start", "put", "sent", "dropped"}]
      BY DEF TypeOK
    <3> QED  BY <1>2, <3>1, SendIs, PutIs DEF HookStep, Threads, Pipes, Outcome
  <2> QED  BY <1>0, <2>1
<1>3. ASSUME NEW t \in Child, Write(t), writer'[t] = "await"  PROVE Ordered'
  <2>1. /\ inbox' = [inbox EXCEPT ![pipe[t]] = Append(@, holding[t])] /\ child[pipe[t]] = "up"
        /\ UNCHANGED <<pipe, queue, recorded, accepted, child>>
        /\ \A u \in Child : holding'[u] = holding[u] /\ (writer'[u] = "write" => writer[u] = "write")
        /\ writer[t] = "write" /\ pipe[t] \in Child /\ Silent(pipe[t])
    BY <1>3, <1>b, WriteIs, FailIs DEF Alone, Hands, Outcome, Talks
  <2>2. /\ inbox'[pipe[t]] = <<holding[t]>>
        /\ \A c \in Child \ {pipe[t]} : inbox'[c] = inbox[c]
    BY <1>a, <2>1 DEF Silent
  <2>3. \A f \in Envelopes : Underway(f)' => Underway(f)
    <3> SUFFICES ASSUME NEW f \in Envelopes, Underway(f)'  PROVE Underway(f)
      OBVIOUS
    <3>1. CASE \E u \in Child : writer'[u] = "write" /\ holding'[u] = f /\ child'[pipe'[u]] = "up"
      BY <2>1, <3>1 DEF Underway
    <3>2. ASSUME NEW c \in Child, child'[c] = "up", NEW i \in DOMAIN inbox'[c], inbox'[c][i] = f
          PROVE  Underway(f)
      <4>1. CASE c = pipe[t]
        <5>1. f = holding[t]
          BY <2>2, <3>2, <4>1
        <5> QED  BY <2>1, <5>1 DEF Underway
      <4>2. CASE c # pipe[t]
        BY <2>1, <2>2, <3>2, <4>2 DEF Underway
      <4> QED  BY <4>1, <4>2
    <3> QED  BY <3>1, <3>2 DEF Underway
  <2> QED  BY <2>1, <2>3, OrderedStays
<1>4. ASSUME NEW t \in Child, WriterStep(t) \/ AckTimeout(t), ~Take(t), ~Kill(t),
             ~(Write(t) /\ writer'[t] = "await")
      PROVE  Ordered'
  <2>1. /\ UNCHANGED <<inbox, queue, recorded, accepted,
                       child>> /\ Alone(t) /\ writer'[t] # "write"
        /\ holding'[t] = holding[t] \/ holding'[t] = NoEnvelope
    BY <1>4, StartsIs, LeavesIs, WriteIs, FailIs, BreaksIs, ReadIs, GivesUpIs, RetireIs
       DEF WriterStep, Pipes, Outcome
  <2>2. \A f \in Envelopes : Underway(f)' => Underway(f)
    BY <2>1 DEF Underway, Alone
  <2> QED  BY <2>1, <2>2, OrderedStays DEF Alone
<1>5. ASSUME NEW t \in Child, Kill(t)  PROVE Ordered'
  <2>1. /\ UNCHANGED <<pipe, inbox, queue, recorded, accepted>> /\ Alone(t) /\ writer'[t] = "done"
        /\ holding'[t] = holding[t] /\ child' = [child EXCEPT ![pipe[t]] = "dead"]
    BY <1>5, KillIs DEF Pipes, Outcome
  <2>2. \A c \in Child : child'[c] = "up" => child[c] = "up"
    BY <1>a, <2>1
  <2>3. \A u \in Child : writer'[u] = "write" => /\ writer[u] = "write" /\ holding'[u] = holding[u]
                                                 /\ pipe[u] \in Child
    BY <2>1 DEF Alone, Hands
  <2>4. \A f \in Envelopes : Underway(f)' => Underway(f)
    BY <2>1, <2>2, <2>3 DEF Underway
  <2> QED  BY <2>1, <2>4, OrderedStays DEF Alone
<1>6. ASSUME NEW c \in Child, Acknowledge(c) \/ Dies(c)  PROVE Ordered'
  BY <1>0, <1>6, <1>a, AcknowledgeIs, DiesIs DEF Threads, Pipes, Outcome
<1>7. CASE Close \/ CloseKill \/ UNCHANGED vars
  BY <1>0, <1>7, <1>a, CloseIs DEF Threads, Pipes, Outcome
<1> QED  BY <1>b, <1>1, <1>2, <1>3, <1>4, <1>5, <1>6, <1>7, OrderedPut, OrderedTake, OrderedHandle
         DEF Next, HookStep, WriterStep, ChildStep

LEMMA OrderInit == Init => OrderInv
<1> SUFFICES ASSUME Init  PROVE OrderInv
  OBVIOUS
<1>1. AcceptedOnce
  <2>1. \A e \in Envelopes : ~InPlay(e)
    BY ConstantTypes DEF Init, InPlay, Queued, Piped, Stored
  <2> QED  BY <2>1 DEF Init, AcceptedOnce, RangeOf
<1>2. OneUp /\ Ordered
  BY DEF Init, OneUp, Ordered
<1> QED  BY <1>1, <1>2 DEF OrderInv

LEMMA OrderStep ==
  TypeOK /\ TypeOK' /\ IInv /\ DeliveryInv /\ OrderInv /\ [Next]_vars => OrderInv'
<1> SUFFICES ASSUME TypeOK, TypeOK', IInv, DeliveryInv, OrderInv, [Next]_vars  PROVE OrderInv'
  OBVIOUS
<1>1. AcceptedOnce'
  BY AcceptedStep DEF OrderInv, DeliveryInv
<1>2. ASSUME Undisturbed'  PROVE OneUp' /\ Ordered'
  <2>1. OneUp /\ Ordered /\ PipesOwned /\ ~closed'
    BY <1>2, UndisturbedBefore DEF OrderInv, DeliveryInv, Undisturbed
  <2> QED  BY <1>2, <2>1, OneUpStep, OrderedStep DEF OrderInv, DeliveryInv
<1> QED  BY <1>1, <1>2 DEF OrderInv

THEOREM OrderInvariance == Spec => []OrderInv
BY OrderInit, OrderStep, TypeCorrect, IngestInvariance, DeliveryInvariance, PTL DEF Spec

(* Rows are committed in the order their envelopes were queued, an intent    *)
(* before its result, over any number of children that die and are replaced, *)
(* until an ACK is not waited for or the client is closed (_run_writer,      *)
(* _ensure_started).                                                         *)
THEOREM RowsInOrder == Spec => []RecordedInOrder
<1>1. TypeOK /\ OrderInv => RecordedInOrder
  <2> SUFFICES ASSUME TypeOK, OrderInv, Undisturbed,
                      NEW i \in DOMAIN recorded, NEW j \in DOMAIN recorded, i < j
               PROVE  Position(recorded[i]) < Position(recorded[j])
    BY DEF RecordedInOrder, Undisturbed
  <2>1. PICK k \in DOMAIN accepted, l \in DOMAIN accepted :
          k < l /\ accepted[k] = recorded[i] /\ accepted[l] = recorded[j]
    BY DEF OrderInv, Ordered, Before
  <2>2. \A m \in DOMAIN accepted : Position(accepted[m]) = m
    BY DEF OrderInv, AcceptedOnce, Position
  <2> QED  BY <2>1, <2>2
<1> QED  BY <1>1, OrderInvariance, TypeCorrect, PTL
===============================================================================
