-------------------------- MODULE HermesHooksProofs --------------------------
(***************************************************************************)
(* Proofs about HermesHooks, for any finite set of calls, any ids, paths   *)
(* and arguments they are made with, any files, and any bounds.            *)
(*                                                                         *)
(* That no intent is used twice is not inductive: nothing in the log says  *)
(* that an entry of the pending table has an intent behind it that no      *)
(* result has used. Balance says so, and counts where such an intent can   *)
(* be: about to be stashed, in the table, or with the watcher.             *)
(*                                                                         *)
(* That no change goes unseen rests on Shown (a file the observer has no   *)
(* event for is as it was last hashed) and Told (the last result of a file *)
(* is the digest last seen, except while the watcher is on its way there). *)
(***************************************************************************)
EXTENDS HermesHooks, FiniteSetTheorems, TLAPS

Phases == {"new", "send", "stash", "ready", "ran", "wrote", "pop", "done"}

Row == [type : {"intent"}, source : {"hook"}, id : Id, key : {Key(c) : c \in Call},
        taken : BOOLEAN]
       \cup [type : {"result"}, source : {"hook"}, id : Id, taken : BOOLEAN]
       \cup [type : {"result"}, source : {"watcher"}, id : Id \cup {NoId}, file : File,
             digest : Content, taken : BOOLEAN]

Types == /\ TypeOK
         /\ repeats \in Nat /\ foreign \in Nat /\ refused \in Nat
         /\ log \in Seq(Row)
         /\ watcher \in {Idle} \cup [step : {"pair", "send"}, file : File,
                                     digest : Content, id : Id \cup {NoId}]

(* ------------------------------ intents used ---------------------------- *)

IsTaken(r, i) == r.type = "intent" /\ r.source = "hook" /\ r.id = i /\ r.taken
IsPair(r, i)  == r.type = "result" /\ r.source = "watcher" /\ r.id = i

Taken(l, j, i) == {k \in 1 .. j : IsTaken(l[k], i)}
Pairs(l, j, i) == {k \in 1 .. j : IsPair(l[k], i)}

UsedOnce(l) ==
    \A j \in DOMAIN l :
        l[j].source = "watcher" /\ l[j].id # NoId
          => Cardinality(Taken(l, j, l[j].id)) >= Cardinality(Pairs(l, j, l[j].id))

Stashing(ph, i) == {c \in Call : ph[c] = "stash" /\ Invocation[c].id = i}

(* The intents that were taken are more than the results that used them, by   *)
(* those on their way to the table, in it, and with the watcher.              *)
Balance ==
    \A i \in Id :
        Cardinality(Taken(log, Len(log), i))
          >= Cardinality(Pairs(log, Len(log), i)) + Cardinality(Stashing(phase, i))
             + (IF i \in DOMAIN pending THEN 1 ELSE 0)
              + (IF watcher.step = "send" /\ watcher.id = i THEN 1 ELSE 0)

(* A change is only paired with what is in the table.                         *)
Unpaired == watcher.step = "pair" => watcher.id = NoId

(* ------------------------------ changes seen ---------------------------- *)

IsChange(r, f) == r.source = "watcher" /\ r.file = f

LastSays(l, f, v) ==
    \A j \in DOMAIN l : /\ IsChange(l[j], f)
                        /\ \A k \in j + 1 .. Len(l) : ~IsChange(l[k], f)
                        => l[j].digest = v

Shown == \A f \in File : f \notin missed \cup events => lastSeen[f] = disk[f]
Told  == \A f \in File : watcher.step = "idle" \/ watcher.file # f
                           => LastSays(log, f, lastSeen[f])
Working == watcher.step # "idle" => watcher.digest = lastSeen[watcher.file]

IInv == Types /\ UsedOnce(log) /\ Balance /\ Unpaired /\ Shown /\ Told /\ Working
-------------------------------------------------------------------------------
(* Lemmas about the log and the phases of the calls.                          *)

LEMMA AppendIs ==
  ASSUME NEW l \in Seq(Row), NEW r \in Row
  PROVE  /\ Append(l, r) \in Seq(Row) /\ Len(Append(l, r)) = Len(l) + 1
         /\ DOMAIN Append(l, r) = 1 .. Len(l) + 1 /\ DOMAIN l = 1 .. Len(l)
         /\ Len(l) \in Nat
         /\ Append(l, r)[Len(l) + 1] = r
         /\ \A k \in 1 .. Len(l) : Append(l, r)[k] = l[k]
OBVIOUS

LEMMA Finite ==
  ASSUME NEW l, NEW j \in Nat, NEW i
  PROVE  /\ IsFiniteSet(Taken(l, j, i)) /\ Cardinality(Taken(l, j, i)) \in Nat
         /\ IsFiniteSet(Pairs(l, j, i)) /\ Cardinality(Pairs(l, j, i)) \in Nat
<1>1. IsFiniteSet(1 .. j)
  BY FS_Interval
<1>2. Taken(l, j, i) \in SUBSET (1 .. j) /\ Pairs(l, j, i) \in SUBSET (1 .. j)
  BY DEF Taken, Pairs
<1> QED
  BY <1>1, <1>2, FS_Subset, FS_CardinalityType

(* A row more counts for what it is, *)
LEMMA AppendCounts ==
  ASSUME NEW l \in Seq(Row), NEW r \in Row, NEW i
  PROVE  LET m == Append(l, r)
         IN  /\ Cardinality(Taken(m, Len(m), i))
                  = Cardinality(Taken(l, Len(l), i)) + (IF IsTaken(r, i) THEN 1 ELSE 0)
             /\ Cardinality(Pairs(m, Len(m), i))
                  = Cardinality(Pairs(l, Len(l), i)) + (IF IsPair(r, i) THEN 1 ELSE 0)
<1> DEFINE m == Append(l, r)
           n == Len(l) + 1
<1>1. Taken(m, Len(m), i) = IF IsTaken(r, i) THEN Taken(l, Len(l), i) \cup {n}
                                             ELSE Taken(l, Len(l), i)
  BY AppendIs DEF Taken, IsTaken
<1>2. Pairs(m, Len(m), i) = IF IsPair(r, i) THEN Pairs(l, Len(l), i) \cup {n}
                                            ELSE Pairs(l, Len(l), i)
  BY AppendIs DEF Pairs, IsPair
<1>3. n \notin Taken(l, Len(l), i) /\ n \notin Pairs(l, Len(l), i) /\ Len(l) \in Nat
  BY AppendIs DEF Taken, Pairs
<1>4. /\ IsFiniteSet(Taken(l, Len(l), i)) /\ Cardinality(Taken(l, Len(l), i)) \in Nat
      /\ IsFiniteSet(Pairs(l, Len(l), i)) /\ Cardinality(Pairs(l, Len(l), i)) \in Nat
  BY <1>3, Finite
<1>5. Cardinality(Taken(l, Len(l), i) \cup {n}) = Cardinality(Taken(l, Len(l), i)) + 1
  BY <1>3, <1>4, FS_AddElement
<1>6. Cardinality(Pairs(l, Len(l), i) \cup {n}) = Cardinality(Pairs(l, Len(l), i)) + 1
  BY <1>3, <1>4, FS_AddElement
<1> QED
  BY <1>1, <1>2, <1>4, <1>5, <1>6

(* and leaves the past as it was.                                             *)
LEMMA AppendUsedOnce ==
  ASSUME NEW l \in Seq(Row), UsedOnce(l), NEW r \in Row,
         r.source = "watcher" /\ r.id # NoId
           => Cardinality(Taken(Append(l, r), Len(Append(l, r)), r.id))
                >= Cardinality(Pairs(Append(l, r), Len(Append(l, r)), r.id))
  PROVE  UsedOnce(Append(l, r))
<1> DEFINE m == Append(l, r)
<1> SUFFICES ASSUME NEW j \in DOMAIN m, m[j].source = "watcher", m[j].id # NoId
             PROVE  Cardinality(Taken(m, j, m[j].id)) >= Cardinality(Pairs(m, j, m[j].id))
  BY DEF UsedOnce
<1>1. CASE j = Len(l) + 1
  BY <1>1, AppendIs
<1>2. CASE j \in 1 .. Len(l)
  <2>1. m[j] = l[j] /\ j \in DOMAIN l
    BY <1>2, AppendIs
  <2>2. /\ Taken(m, j, m[j].id) = Taken(l, j, l[j].id)
        /\ Pairs(m, j, m[j].id) = Pairs(l, j, l[j].id)
    BY <1>2, <2>1, AppendIs DEF Taken, Pairs
  <2> QED
    BY <2>1, <2>2 DEF UsedOnce
<1> QED
  BY <1>1, <1>2, AppendIs

LEMMA AppendSays ==
  ASSUME NEW l \in Seq(Row), NEW r \in Row, NEW f, NEW v,
         IsChange(r, f) => r.digest = v,
         IsChange(r, f) \/ LastSays(l, f, v)
  PROVE  LastSays(Append(l, r), f, v)
<1> DEFINE m == Append(l, r)
<1> SUFFICES ASSUME NEW j \in DOMAIN m, IsChange(m[j], f),
                    \A k \in j + 1 .. Len(m) : ~IsChange(m[k], f)
             PROVE  m[j].digest = v
  BY DEF LastSays
<1>1. CASE j = Len(l) + 1
  BY <1>1, AppendIs
<1>2. CASE j \in 1 .. Len(l)
  <2>1. ~IsChange(r, f)
    BY <1>2, AppendIs
  <2>2. j \in DOMAIN l /\ m[j] = l[j] /\ \A k \in j + 1 .. Len(l) : ~IsChange(l[k], f)
    BY <1>2, AppendIs
  <2> QED
    BY <2>1, <2>2 DEF LastSays
<1> QED
  BY <1>1, <1>2, AppendIs

(* A call that goes on is counted where it is now.                            *)
LEMMA PhaseCounts ==
  ASSUME NEW ph \in [Call -> Phases], NEW c \in Call, NEW new \in [Call -> Phases],
         \A d \in Call \ {c} : new[d] = ph[d], NEW i
  PROVE  /\ Cardinality(Stashing(ph, i)) \in Nat
         /\ Invocation[c].id # i \/ (ph[c] = "stash" <=> new[c] = "stash")
              => Cardinality(Stashing(new, i)) = Cardinality(Stashing(ph, i))
         /\ Invocation[c].id = i /\ ph[c] # "stash" /\ new[c] = "stash"
              => Cardinality(Stashing(new, i)) = Cardinality(Stashing(ph, i)) + 1
         /\ Invocation[c].id = i /\ ph[c] = "stash" /\ new[c] # "stash"
              => Cardinality(Stashing(new, i)) = Cardinality(Stashing(ph, i)) - 1
<1> DEFINE rest == Stashing(ph, i) \ {c}
<1>1. /\ Stashing(ph, i)  = IF ph[c] = "stash" /\ Invocation[c].id = i THEN rest \cup {c} ELSE rest
      /\ Stashing(new, i) = IF new[c] = "stash" /\ Invocation[c].id = i THEN rest \cup {c} ELSE rest
  BY DEF Stashing
<1>2. IsFiniteSet(rest)
  <2>1. rest \in SUBSET Call
    BY DEF Stashing
  <2> QED
    BY <2>1, CallAssumption, FS_Subset
<1>3. Cardinality(rest) \in Nat /\ Cardinality(rest \cup {c}) = Cardinality(rest) + 1
  BY <1>2, FS_CardinalityType, FS_AddElement
<1>4. Cardinality(Stashing(ph, i))
        = Cardinality(rest) + (IF ph[c] = "stash" /\ Invocation[c].id = i THEN 1 ELSE 0)
  <2>1. CASE ph[c] = "stash" /\ Invocation[c].id = i
    BY <1>1, <1>3, <2>1
  <2>2. CASE ~(ph[c] = "stash" /\ Invocation[c].id = i)
    BY <1>1, <1>3, <2>2
  <2> QED
    BY <2>1, <2>2
<1>5. Cardinality(Stashing(new, i))
        = Cardinality(rest) + (IF new[c] = "stash" /\ Invocation[c].id = i THEN 1 ELSE 0)
  <2>1. CASE new[c] = "stash" /\ Invocation[c].id = i
    BY <1>1, <1>3, <2>1
  <2>2. CASE ~(new[c] = "stash" /\ Invocation[c].id = i)
    BY <1>1, <1>3, <2>2
  <2> QED
    BY <2>1, <2>2
<1> HIDE DEF rest
<1> QED
  BY <1>3, <1>4, <1>5

LEMMA StashingIsFinite ==
  ASSUME NEW ph \in [Call -> Phases], NEW i
  PROVE  Cardinality(Stashing(ph, i)) \in Nat
<1>1. Stashing(ph, i) \in SUBSET Call
  BY DEF Stashing
<1> QED
  BY <1>1, CallAssumption, FS_Subset, FS_CardinalityType
-------------------------------------------------------------------------------
LEMMA InitHolds == Init => IInv
<1> SUFFICES ASSUME Init PROVE IInv
  OBVIOUS
<1>1. Types
  <2>1. /\ now \in 0 .. MaxTime /\ repeats + foreign + refused \in 0 .. MaxTrouble
        /\ repeats \in Nat /\ foreign \in Nat /\ refused \in Nat
    BY BoundAssumption DEF Init
  <2>2. /\ disk \in [File -> Content] /\ lastSeen \in [File -> Content]
        /\ phase \in [Call -> {"new", "send", "stash", "ready", "ran", "wrote", "pop", "done"}]
    BY InvocationAssumption DEF Init
  <2>3. DOMAIN pending = {}
    BY DEF Init
  <2>4. log \in Seq(Row)
    BY DEF Init
  <2> QED
    BY <2>1, <2>2, <2>3, <2>4 DEF Init, Types, TypeOK, Idle
<1>2. UsedOnce(log) /\ Shown /\ Told /\ Working /\ Unpaired
  BY DEF Init, UsedOnce, Shown, Told, Working, Unpaired, LastSays, Idle
<1>3. Balance
  <2> SUFFICES ASSUME NEW i \in Id
               PROVE  Cardinality(Taken(log, Len(log), i))
                        >= Cardinality(Pairs(log, Len(log), i)) + Cardinality(Stashing(phase, i))
                           + (IF i \in DOMAIN pending THEN 1 ELSE 0)
                           + (IF watcher.step = "send" /\ watcher.id = i THEN 1 ELSE 0)
    BY DEF Balance
  <2>1. /\ Taken(log, Len(log), i) = {} /\ Pairs(log, Len(log), i) = {}
        /\ Stashing(phase, i) = {} /\ DOMAIN pending = {} /\ watcher.step = "idle"
    BY DEF Init, Taken, Pairs, Stashing, Idle
  <2> QED
    BY <2>1, FS_EmptySet
<1> QED
  BY <1>1, <1>2, <1>3 DEF IInv

(* The hooks.                                                                 *)
LEMMA PreToolCallStep ==
  ASSUME IInv, NEW c \in Call, PreToolCall(c)
  PROVE  IInv'
<1>1. /\ phase' \in [Call -> Phases] /\ \A d \in Call \ {c} : phase'[d] = phase[d]
      /\ phase \in [Call -> Phases] /\ phase[c] # "stash" /\ phase'[c] # "stash"
  BY DEF IInv, Types, TypeOK, Phases, PreToolCall
<1>2. UNCHANGED <<now, disk, events, missed, foreign, pending, started, lastSeen, watcher,
                  log, refused>>
  BY DEF PreToolCall, diskVars, watcherVars
<1>3. Types'
  <2>1. dedupe' \subseteq {Key(d) : d \in Call}
    BY DEF IInv, Types, TypeOK, PreToolCall
  <2>2. repeats' + foreign + refused \in 0 .. MaxTrouble /\ repeats' \in Nat
    BY BoundAssumption, SMTT(20) DEF IInv, Types, TypeOK, PreToolCall, Trouble
  <2> QED
    BY <1>1, <1>2, <2>1, <2>2 DEF IInv, Types, TypeOK, Phases
<1>4. Balance'
  <2>1. ASSUME NEW i \in Id
        PROVE  Cardinality(Stashing(phase', i)) = Cardinality(Stashing(phase, i))
    BY <1>1, PhaseCounts
  <2> QED
    BY <1>2, <2>1 DEF IInv, Balance
<1>5. (UsedOnce(log) /\ Shown /\ Told /\ Working /\ Unpaired)'
  BY <1>2 DEF IInv, Shown, Told, Working, Unpaired
<1> QED
  BY <1>3, <1>4, <1>5 DEF IInv

LEMMA SendIntentStep ==
  ASSUME IInv, NEW c \in Call, SendIntent(c)
  PROVE  IInv'
<1> DEFINE Intent(taken) == [type |-> "intent", source |-> "hook", id |-> Invocation[c].id,
                             key |-> Key(c), taken |-> taken]
<1>1. PICK taken \in BOOLEAN : /\ Offer(Intent(taken))
                               /\ phase' = [phase EXCEPT ![c] = IF taken THEN "stash" ELSE "ready"]
  BY DEF SendIntent
<1> DEFINE r == Intent(taken)
           p == IF taken THEN "stash" ELSE "ready"
<1>2. /\ r \in Row /\ r.source = "hook" /\ r.taken = taken
      /\ \A i : IsTaken(r, i) <=> (taken /\ Invocation[c].id = i)
      /\ \A i : ~IsPair(r, i)
  BY DEF Row, Id, IsTaken, IsPair
<1>3. /\ log' = Append(log, r) /\ refused' = IF r.taken THEN refused ELSE refused + 1
      /\ r.taken \/ Trouble
  BY <1>1 DEF Offer
<1>4. /\ phase[c] = "send" /\ phase' = [phase EXCEPT ![c] = p]
      /\ UNCHANGED <<now, disk, events, missed, foreign, repeats, dedupe, pending,
                     started, lastSeen, watcher>>
  BY <1>1 DEF SendIntent, diskVars, watcherVars
<1>5. log \in Seq(Row) /\ phase \in [Call -> Phases] /\ p \in Phases
  BY DEF IInv, Types, TypeOK, Phases
<1> HIDE DEF r, p
<1>6. Types'
  <2>1. log' \in Seq(Row)
    BY <1>2, <1>3, <1>5, AppendIs
  <2>2. phase' \in [Call -> Phases]
    BY <1>4, <1>5
  <2>3. repeats + foreign + refused' \in 0 .. MaxTrouble /\ refused' \in Nat
    BY <1>3, BoundAssumption DEF IInv, Types, TypeOK, Trouble
  <2> QED
    BY <1>4, <2>1, <2>2, <2>3 DEF IInv, Types, TypeOK, Phases
<1>7. UsedOnce(log')
  BY <1>2, <1>3, <1>5, AppendUsedOnce DEF IInv
<1>8. Balance'
  <2> SUFFICES ASSUME NEW i \in Id
               PROVE  (Cardinality(Taken(log, Len(log), i))
                         >= Cardinality(Pairs(log, Len(log), i)) + Cardinality(Stashing(phase, i))
                            + (IF i \in DOMAIN pending THEN 1 ELSE 0)
                            + (IF watcher.step = "send" /\ watcher.id = i THEN 1 ELSE 0))'
    BY DEF Balance
  <2>1. /\ Cardinality(Taken(log', Len(log'), i))
              = Cardinality(Taken(log, Len(log), i))
                + (IF taken /\ Invocation[c].id = i THEN 1 ELSE 0)
        /\ Cardinality(Pairs(log', Len(log'), i)) = Cardinality(Pairs(log, Len(log), i)) + 0
    BY <1>2, <1>3, <1>5, AppendCounts
  <2>2. Cardinality(Stashing(phase', i))
          = Cardinality(Stashing(phase, i)) - 0 + (IF taken /\ Invocation[c].id = i THEN 1 ELSE 0)
    <3>1. /\ phase' \in [Call -> Phases] /\ phase'[c] = p
          /\ \A d \in Call \ {c} : phase'[d] = phase[d]
      BY <1>4, <1>5
    <3>2. phase[c] # "stash" /\ Cardinality(Stashing(phase, i)) \in Nat
      BY <1>4, <1>5, StashingIsFinite
    <3>3. CASE taken
      <4>1. phase'[c] = "stash"
        BY <3>1, <3>3 DEF p
      <4> QED
        BY <1>5, <3>1, <3>2, <3>3, <4>1, PhaseCounts
    <3>4. CASE ~taken
      <4>1. phase'[c] # "stash"
        BY <3>1, <3>4 DEF p
      <4> QED
        BY <1>5, <3>1, <3>2, <3>4, <4>1, PhaseCounts
    <3> QED
      BY <3>3, <3>4
  <2>3. /\ Cardinality(Taken(log, Len(log), i)) \in Nat
        /\ Cardinality(Pairs(log, Len(log), i)) \in Nat
        /\ Cardinality(Stashing(phase, i)) \in Nat
    BY <1>5, Finite, AppendIs, <1>2, PhaseCounts
  <2> QED
    BY <1>4, <2>1, <2>2, <2>3 DEF IInv, Balance
<1>9. (Shown /\ Told /\ Working /\ Unpaired)'
  <2>1. \A f, v : LastSays(log, f, v) => LastSays(log', f, v)
    BY <1>2, <1>3, <1>5, AppendSays DEF IsChange
  <2> QED
    BY <1>4, <2>1 DEF IInv, Shown, Told, Working, Unpaired
<1> QED
  BY <1>6, <1>7, <1>8, <1>9 DEF IInv

LEMMA StashStep ==
  ASSUME IInv, NEW c \in Call, Stash(c)
  PROVE  IInv'
<1>1. /\ phase' \in [Call -> Phases] /\ \A d \in Call \ {c} : phase'[d] = phase[d]
      /\ phase \in [Call -> Phases] /\ phase[c] = "stash" /\ phase'[c] # "stash"
  BY DEF IInv, Types, TypeOK, Phases, Stash
<1>2. UNCHANGED <<now, disk, events, missed, foreign, repeats, dedupe, started, lastSeen,
                  watcher, log, refused>>
  BY DEF Stash, diskVars, watcherVars
<1>3. DOMAIN pending' = DOMAIN pending \cup {Invocation[c].id}
  BY DEF Stash
<1>4. Types'
  <2>1. Invocation[c].id \in Id /\ now \in 0 .. now
    BY DEF IInv, Types, TypeOK, Id
  <2>2. DOMAIN pending' \subseteq Id
    BY <1>3, <2>1 DEF IInv, Types, TypeOK
  <2>3. \A i \in DOMAIN pending' : pending'[i].at \in 0 .. now
    BY <1>3, <2>1 DEF IInv, Types, TypeOK, Stash
  <2> QED
    BY <1>1, <1>2, <2>2, <2>3 DEF IInv, Types, TypeOK, Phases
<1>5. Balance'
  <2> SUFFICES ASSUME NEW i \in Id
               PROVE  (Cardinality(Taken(log, Len(log), i))
                         >= Cardinality(Pairs(log, Len(log), i)) + Cardinality(Stashing(phase, i))
                            + (IF i \in DOMAIN pending THEN 1 ELSE 0)
                            + (IF watcher.step = "send" /\ watcher.id = i THEN 1 ELSE 0))'
    BY DEF Balance
  <2>1. /\ log \in Seq(Row) /\ Len(log) \in Nat
    BY DEF IInv, Types
  <2>2. /\ Cardinality(Taken(log, Len(log), i)) \in Nat
        /\ Cardinality(Pairs(log, Len(log), i)) \in Nat
        /\ Cardinality(Stashing(phase, i)) \in Nat
    BY <1>1, <2>1, Finite, PhaseCounts
  <2>3. CASE Invocation[c].id = i
    <3>1. Cardinality(Stashing(phase', i)) = Cardinality(Stashing(phase, i)) - 1
      BY <1>1, <2>3, PhaseCounts
    <3> QED
      BY <1>2, <1>3, <2>2, <2>3, <3>1 DEF IInv, Balance
  <2>4. CASE Invocation[c].id # i
    <3>1. Cardinality(Stashing(phase', i)) = Cardinality(Stashing(phase, i))
      BY <1>1, <2>4, PhaseCounts
    <3> QED
      BY <1>2, <1>3, <2>2, <2>4, <3>1 DEF IInv, Balance
  <2> QED
    BY <2>3, <2>4
<1>6. (UsedOnce(log) /\ Shown /\ Told /\ Working /\ Unpaired)'
  BY <1>2 DEF IInv, Shown, Told, Working, Unpaired
<1> QED
  BY <1>4, <1>5, <1>6 DEF IInv

LEMMA SendResultStep ==
  ASSUME IInv, NEW c \in Call, SendResult(c)
  PROVE  IInv'
<1> DEFINE Result(taken) == [type |-> "result", source |-> "hook", id |-> Invocation[c].id,
                             taken |-> taken]
<1>1. PICK taken \in BOOLEAN : Offer(Result(taken))
  BY DEF SendResult
<1> DEFINE r == Result(taken)
<1>2. /\ r \in Row /\ r.source = "hook"
      /\ \A i : ~IsTaken(r, i) /\ ~IsPair(r, i)
  BY DEF Row, Id, IsTaken, IsPair
<1>3. /\ log' = Append(log, r) /\ refused' = IF r.taken THEN refused ELSE refused + 1
      /\ r.taken \/ Trouble
  BY <1>1 DEF Offer
<1>4. /\ phase' \in [Call -> Phases] /\ \A d \in Call \ {c} : phase'[d] = phase[d]
      /\ phase \in [Call -> Phases] /\ phase[c] # "stash" /\ phase'[c] # "stash"
      /\ log \in Seq(Row)
  BY DEF IInv, Types, TypeOK, Phases, SendResult
<1>5. UNCHANGED <<now, disk, events, missed, foreign, repeats, dedupe, pending, started,
                  lastSeen, watcher>>
  BY DEF SendResult, diskVars, watcherVars
<1> HIDE DEF r
<1>6. Types'
  <2>1. log' \in Seq(Row)
    BY <1>2, <1>3, <1>4, AppendIs
  <2>2. repeats + foreign + refused' \in 0 .. MaxTrouble /\ refused' \in Nat
    BY <1>3, BoundAssumption DEF IInv, Types, TypeOK, Trouble
  <2> QED
    BY <1>4, <1>5, <2>1, <2>2 DEF IInv, Types, TypeOK, Phases
<1>7. UsedOnce(log')
  BY <1>2, <1>3, <1>4, AppendUsedOnce DEF IInv
<1>8. Balance'
  <2>1. ASSUME NEW i \in Id
        PROVE  /\ Cardinality(Taken(log', Len(log'), i)) = Cardinality(Taken(log, Len(log), i))
               /\ Cardinality(Pairs(log', Len(log'), i)) = Cardinality(Pairs(log, Len(log), i))
               /\ Cardinality(Stashing(phase', i)) = Cardinality(Stashing(phase, i))
    <3>1. Len(log) \in Nat
      BY <1>4
    <3>2. /\ Cardinality(Taken(log, Len(log), i)) \in Nat
          /\ Cardinality(Pairs(log, Len(log), i)) \in Nat
      BY <3>1, Finite
    <3> QED
      BY <1>2, <1>3, <1>4, <3>2, AppendCounts, PhaseCounts
  <2> QED
    BY <1>5, <2>1 DEF IInv, Balance
<1>9. (Shown /\ Told /\ Working /\ Unpaired)'
  <2>1. \A f, v : LastSays(log, f, v) => LastSays(log', f, v)
    BY <1>2, <1>3, <1>4, AppendSays DEF IsChange
  <2> QED
    BY <1>5, <2>1 DEF IInv, Shown, Told, Working, Unpaired
<1> QED
  BY <1>6, <1>7, <1>8, <1>9 DEF IInv

LEMMA PopIntentStep ==
  ASSUME IInv, NEW c \in Call, PopIntent(c)
  PROVE  IInv'
<1>1. /\ phase' \in [Call -> Phases] /\ \A d \in Call \ {c} : phase'[d] = phase[d]
      /\ phase \in [Call -> Phases] /\ phase[c] # "stash" /\ phase'[c] # "stash"
  BY DEF IInv, Types, TypeOK, Phases, PopIntent
<1>2. UNCHANGED <<now, disk, events, missed, foreign, repeats, dedupe, started, lastSeen,
                  watcher, log, refused>>
  BY DEF PopIntent, diskVars, watcherVars
<1>3. /\ DOMAIN pending' \subseteq DOMAIN pending
      /\ \A i \in DOMAIN pending' : pending'[i] = pending[i]
  BY DEF PopIntent, Forget
<1>4. Types'
  BY <1>1, <1>2, <1>3 DEF IInv, Types, TypeOK, Phases
<1>5. Balance'
  <2> SUFFICES ASSUME NEW i \in Id
               PROVE  (Cardinality(Taken(log, Len(log), i))
                         >= Cardinality(Pairs(log, Len(log), i)) + Cardinality(Stashing(phase, i))
                            + (IF i \in DOMAIN pending THEN 1 ELSE 0)
                            + (IF watcher.step = "send" /\ watcher.id = i THEN 1 ELSE 0))'
    BY DEF Balance
  <2>1. Cardinality(Stashing(phase', i)) = Cardinality(Stashing(phase, i))
    BY <1>1, PhaseCounts
  <2>2. Len(log) \in Nat
    BY DEF IInv, Types
  <2>3. /\ Cardinality(Taken(log, Len(log), i)) \in Nat
        /\ Cardinality(Pairs(log, Len(log), i)) \in Nat
        /\ Cardinality(Stashing(phase, i)) \in Nat
    BY <1>1, <2>2, Finite, PhaseCounts
  <2> QED
    BY <1>2, <1>3, <2>1, <2>3 DEF IInv, Balance
<1>6. (UsedOnce(log) /\ Shown /\ Told /\ Working /\ Unpaired)'
  BY <1>2 DEF IInv, Shown, Told, Working, Unpaired
<1> QED
  BY <1>4, <1>5, <1>6 DEF IInv

(* The files.                                                                 *)
LEMMA WriteShows ==
  ASSUME IInv, NEW f \in File, NEW v \in Content, Write(f, v), UNCHANGED lastSeen
  PROVE  /\ disk' \in [File -> Content] /\ events' \subseteq File /\ missed' \subseteq File
         /\ Shown'
<1>1. /\ disk \in [File -> Content] /\ events \subseteq File /\ missed \subseteq File
      /\ disk' = [disk EXCEPT ![f] = v]
  BY DEF IInv, Types, TypeOK, Write
<1>2. /\ f \in missed' \cup events'
      /\ \A g \in File \ {f} : g \notin missed' \cup events' => g \notin missed \cup events
      /\ events' \subseteq File /\ missed' \subseteq File
  BY <1>1, InvocationAssumption DEF Write, Event, Concerned
<1> QED
  BY <1>1, <1>2 DEF IInv, Shown

LEMMA RunToolStep ==
  ASSUME IInv, NEW c \in Call, RunTool(c)
  PROVE  IInv'
<1>1. /\ phase' \in [Call -> Phases] /\ \A d \in Call \ {c} : phase'[d] = phase[d]
      /\ phase \in [Call -> Phases] /\ phase[c] # "stash" /\ phase'[c] # "stash"
  BY DEF IInv, Types, TypeOK, Phases, RunTool
<1>2. UNCHANGED <<now, foreign, repeats, dedupe, pending, started, lastSeen, watcher, log,
                  refused>>
  BY DEF RunTool, diskVars, watcherVars
<1>3. /\ disk' \in [File -> Content] /\ events' \subseteq File /\ missed' \subseteq File
      /\ Shown'
  <2>1. CASE UNCHANGED diskVars
    BY <1>2, <2>1 DEF IInv, Types, TypeOK, Shown, diskVars
  <2>2. CASE Memory(c) /\ \E v \in Content : Write(Invocation[c].path, v)
    BY <1>2, <2>2, InvocationAssumption, WriteShows
  <2> QED
    BY <2>1, <2>2 DEF RunTool
<1>4. Types'
  BY <1>1, <1>2, <1>3 DEF IInv, Types, TypeOK, Phases
<1>5. Balance'
  <2>1. ASSUME NEW i \in Id
        PROVE  Cardinality(Stashing(phase', i)) = Cardinality(Stashing(phase, i))
    BY <1>1, PhaseCounts
  <2> QED
    BY <1>2, <2>1 DEF IInv, Balance
<1>6. (UsedOnce(log) /\ Told /\ Working /\ Unpaired)'
  BY <1>2 DEF IInv, Told, Working, Unpaired
<1> QED
  BY <1>3, <1>4, <1>5, <1>6 DEF IInv

LEMMA RenameShows ==
  ASSUME IInv, NEW f \in File, NEW g \in File \cup {Elsewhere}, Rename(f, g)
  PROVE  /\ disk' \in [File -> Content] /\ events' \subseteq File /\ missed' \subseteq File
         /\ Shown'
<1>1. /\ disk \in [File -> Content] /\ events \subseteq File /\ missed \subseteq File
      /\ disk' \in [File -> Content] /\ lastSeen' = lastSeen
      /\ \A h \in File \ {f, g} : disk'[h] = disk[h]
  BY InvocationAssumption DEF IInv, Types, TypeOK, Rename, watcherVars
<1>2. /\ f \in missed' /\ (g \in File => g \in missed' \cup events')
      /\ \A h \in File \ {f, g} : h \notin missed' \cup events' => h \notin missed \cup events
      /\ events' \subseteq File /\ missed' \subseteq File
  BY <1>1, InvocationAssumption DEF Rename, Event, Concerned
<1> QED
  BY <1>1, <1>2 DEF IInv, Shown

LEMMA ForeignSteps ==
  ASSUME IInv, NEW f \in File,
         \/ \E v \in Content : ForeignWrite(f, v)
         \/ \E g \in File \cup {Elsewhere} : Rename(f, g)
  PROVE  IInv'
<1>1. UNCHANGED <<now, phase, repeats, dedupe, pending, started, lastSeen, watcher, log,
                  refused>>
  BY DEF ForeignWrite, Rename, hookVars, watcherVars
<1>2. /\ disk' \in [File -> Content] /\ events' \subseteq File /\ missed' \subseteq File
      /\ Shown'
  BY <1>1, WriteShows, RenameShows DEF ForeignWrite
<1>3. repeats + foreign' + refused \in 0 .. MaxTrouble /\ foreign' \in Nat
  BY BoundAssumption DEF IInv, Types, TypeOK, ForeignWrite, Rename, Trouble
<1>4. Types'
  BY <1>1, <1>2, <1>3 DEF IInv, Types, TypeOK
<1>5. (UsedOnce(log) /\ Balance /\ Told /\ Working /\ Unpaired)'
  BY <1>1 DEF IInv, Balance, Told, Working, Unpaired
<1> QED
  BY <1>2, <1>4, <1>5 DEF IInv

(* The watcher.                                                               *)
LEMMA OnChangeStep ==
  ASSUME IInv, NEW f \in File, OnChange(f)
  PROVE  IInv'
<1>1. UNCHANGED <<now, disk, missed, foreign, phase, repeats, dedupe, pending, started, log,
                  refused>>
  BY DEF OnChange, hookVars
<1>2. /\ watcher = Idle /\ events' = events \ {f}
      /\ \/ lastSeen[f] = disk[f] /\ lastSeen' = lastSeen /\ watcher' = watcher
         \/ /\ lastSeen' = [lastSeen EXCEPT ![f] = disk[f]]
            /\ watcher' = [step |-> "pair", file |-> f, digest |-> disk[f], id |-> NoId]
  BY DEF OnChange, SameDigest
<1>3. disk \in [File -> Content] /\ lastSeen \in [File -> Content] /\ events \subseteq File
  BY DEF IInv, Types, TypeOK
<1>4. Types'
  BY <1>1, <1>2, <1>3 DEF IInv, Types, TypeOK, Idle
<1>5. Shown' /\ Working'
  BY <1>1, <1>2, <1>3 DEF IInv, Shown, Working, Idle
<1>6. Told'
  BY <1>1, <1>2, <1>3 DEF IInv, Told, Idle
<1>7. (UsedOnce(log) /\ Balance /\ Unpaired)'
  <2>1. watcher.step # "send" /\ watcher'.step # "send"
    BY <1>2 DEF Idle
  <2>2. Unpaired'
    BY <1>2 DEF Unpaired, Idle
  <2> QED
    BY <1>1, <2>1, <2>2 DEF IInv, Balance
<1> QED
  BY <1>4, <1>5, <1>6, <1>7 DEF IInv

LEMMA PairStep ==
  ASSUME IInv, Pair
  PROVE  IInv'
<1>1. UNCHANGED <<now, disk, events, missed, foreign, phase, repeats, dedupe, started,
                  lastSeen, log, refused>>
  BY DEF Pair, hookVars, diskVars
<1>2. /\ watcher.step = "pair" /\ watcher.id = NoId
      /\ watcher \in [step : {"pair", "send"}, file : File, digest : Content,
                      id : Id \cup {NoId}]
  <2>1. watcher.step = "pair"
    BY DEF Pair
  <2> QED
    BY <2>1 DEF IInv, Types, Unpaired, Idle
<1>3. PICK i \in Id \cup {NoId} :
         /\ watcher' = [watcher EXCEPT !.step = "send", !.id = i]
         /\ \/ i = NoId /\ pending' = pending
            \/ i \in DOMAIN pending /\ pending' = [j \in DOMAIN pending \ {i} |-> pending[j]]
  <2>1. CASE UNCHANGED pending /\ watcher' = [watcher EXCEPT !.step = "send"]
    <3>1. watcher' = [watcher EXCEPT !.step = "send", !.id = NoId]
      BY <1>2, <2>1
    <3> QED
      BY <2>1, <3>1
  <2>2. ASSUME NEW i \in Newest(Candidates(watcher.file)),
               watcher' = [watcher EXCEPT !.step = "send", !.id = i], Forget(i)
        PROVE  i \in DOMAIN pending /\ i \in Id
    BY DEF Newest, Candidates, Exact, Recent, IInv, Types, TypeOK
  <2> QED
    BY <2>1, <2>2 DEF Pair, Forget
<1>4. /\ watcher'.step = "send" /\ watcher'.id = i /\ watcher'.file = watcher.file
      /\ watcher'.digest = watcher.digest
      /\ watcher' \in [step : {"pair", "send"}, file : File, digest : Content,
                       id : Id \cup {NoId}]
  BY <1>2, <1>3
<1>5. /\ DOMAIN pending' \subseteq DOMAIN pending
      /\ \A j \in DOMAIN pending' : pending'[j] = pending[j]
      /\ i # NoId => i \in DOMAIN pending /\ i \notin DOMAIN pending'
  BY <1>3
<1>6. Types'
  BY <1>1, <1>4, <1>5 DEF IInv, Types, TypeOK
<1>7. Balance'
  <2> SUFFICES ASSUME NEW j \in Id
               PROVE  (Cardinality(Taken(log, Len(log), j))
                         >= Cardinality(Pairs(log, Len(log), j)) + Cardinality(Stashing(phase, j))
                            + (IF j \in DOMAIN pending THEN 1 ELSE 0)
                            + (IF watcher.step = "send" /\ watcher.id = j THEN 1 ELSE 0))'
    BY DEF Balance
  <2>1. j # NoId /\ Len(log) \in Nat /\ phase \in [Call -> Phases]
    BY InvocationAssumption DEF IInv, Types, TypeOK, Phases
  <2>2. /\ Cardinality(Taken(log, Len(log), j)) \in Nat
        /\ Cardinality(Pairs(log, Len(log), j)) \in Nat
    BY <2>1, Finite
  <2>3. Cardinality(Stashing(phase, j)) \in Nat
    BY <2>1, StashingIsFinite
  <2> QED
    BY <1>1, <1>2, <1>4, <1>5, <2>1, <2>2, <2>3 DEF IInv, Balance
<1>8. (UsedOnce(log) /\ Shown /\ Told /\ Working /\ Unpaired)'
  BY <1>1, <1>2, <1>4 DEF IInv, Shown, Told, Working, Unpaired
<1> QED
  BY <1>6, <1>7, <1>8 DEF IInv

LEMMA SendChangeStep ==
  ASSUME IInv, SendChange
  PROVE  IInv'
<1> DEFINE Change(taken) == [type |-> "result", source |-> "watcher", id |-> watcher.id,
                             file |-> watcher.file, digest |-> watcher.digest, taken |-> taken]
<1>1. PICK taken \in BOOLEAN : Offer(Change(taken))
  BY DEF SendChange
<1> DEFINE r == Change(taken)
<1>2. /\ watcher.step = "send" /\ watcher.digest = lastSeen[watcher.file]
      /\ watcher.file \in File /\ watcher.digest \in Content
      /\ watcher.id \in Id \cup {NoId} /\ log \in Seq(Row)
  BY DEF SendChange, IInv, Types, Working, Idle
<1>3. /\ r \in Row /\ r.source = "watcher" /\ r.id = watcher.id
      /\ r.file = watcher.file /\ r.digest = watcher.digest
      /\ \A i : ~IsTaken(r, i)
      /\ \A i : IsPair(r, i) <=> watcher.id = i
  BY <1>2 DEF Row, IsTaken, IsPair
<1>4. /\ log' = Append(log, r) /\ refused' = IF r.taken THEN refused ELSE refused + 1
      /\ r.taken \/ Trouble
  BY <1>1 DEF Offer
<1>5. /\ UNCHANGED <<now, disk, events, missed, foreign, phase, repeats, dedupe, pending,
                     started, lastSeen>>
      /\ watcher' = Idle
  BY DEF SendChange, hookVars, diskVars
<1> HIDE DEF r
<1>6. Types'
  <2>1. log' \in Seq(Row)
    BY <1>2, <1>3, <1>4, AppendIs
  <2>2. repeats + foreign + refused' \in 0 .. MaxTrouble /\ refused' \in Nat
    BY <1>4, BoundAssumption DEF IInv, Types, TypeOK, Trouble
  <2> QED
    BY <1>5, <2>1, <2>2 DEF IInv, Types, TypeOK, Idle
<1>7. ASSUME NEW i \in Id
      PROVE  /\ Cardinality(Taken(log', Len(log'), i)) = Cardinality(Taken(log, Len(log), i))
             /\ watcher.id # i
                  => Cardinality(Pairs(log', Len(log'), i)) = Cardinality(Pairs(log, Len(log), i))
             /\ watcher.id = i
                  => Cardinality(Pairs(log', Len(log'), i))
                       = Cardinality(Pairs(log, Len(log), i)) + 1
             /\ Cardinality(Taken(log, Len(log), i)) \in Nat
             /\ Cardinality(Pairs(log, Len(log), i)) \in Nat
             /\ Cardinality(Stashing(phase, i)) \in Nat
  <2>1. Len(log) \in Nat /\ phase \in [Call -> Phases]
    BY <1>2 DEF IInv, Types, TypeOK, Phases
  <2>2. Cardinality(Taken(log, Len(log), i)) \in Nat /\ Cardinality(Pairs(log, Len(log), i)) \in Nat
    BY <2>1, Finite
  <2>3. Cardinality(Stashing(phase, i)) \in Nat
    BY <2>1, StashingIsFinite
  <2> QED
    BY <1>2, <1>3, <1>4, <2>2, <2>3, AppendCounts
<1>8. UsedOnce(log')
  <2>1. CASE watcher.id = NoId
    BY <1>2, <1>3, <1>4, <2>1, AppendUsedOnce DEF IInv
  <2>2. CASE watcher.id \in Id
    <3>1. Cardinality(Taken(log, Len(log), watcher.id))
            >= Cardinality(Pairs(log, Len(log), watcher.id)) + 1
      <4>1. Cardinality(Taken(log, Len(log), watcher.id))
              >= Cardinality(Pairs(log, Len(log), watcher.id))
                 + Cardinality(Stashing(phase, watcher.id))
                 + (IF watcher.id \in DOMAIN pending THEN 1 ELSE 0) + 1
        BY <1>2, <2>2 DEF IInv, Balance
      <4> QED
        BY <1>7, <2>2, <4>1
    <3>2. Cardinality(Taken(log', Len(log'), watcher.id))
            >= Cardinality(Pairs(log', Len(log'), watcher.id))
      BY <1>7, <2>2, <3>1
    <3> QED
      BY <1>2, <1>3, <1>4, <3>2, AppendUsedOnce DEF IInv
  <2> QED
    BY <1>2, <2>1, <2>2
<1>9. Balance'
  <2> SUFFICES ASSUME NEW i \in Id
               PROVE  (Cardinality(Taken(log, Len(log), i))
                         >= Cardinality(Pairs(log, Len(log), i)) + Cardinality(Stashing(phase, i))
                            + (IF i \in DOMAIN pending THEN 1 ELSE 0)
                            + (IF watcher.step = "send" /\ watcher.id = i THEN 1 ELSE 0))'
    BY DEF Balance
  <2> QED
    BY <1>2, <1>5, <1>7 DEF IInv, Balance, Idle
<1>10. (Shown /\ Told /\ Working /\ Unpaired)'
  <2>1. \A f \in File : LastSays(log', f, lastSeen[f])
    BY <1>2, <1>3, <1>4, AppendSays DEF IInv, Told, IsChange
  <2> QED
    BY <1>5, <2>1 DEF IInv, Shown, Told, Working, Unpaired, Idle
<1> QED
  BY <1>6, <1>8, <1>9, <1>10 DEF IInv

LEMMA OtherSteps ==
  ASSUME IInv, StartObserver \/ Tick \/ UNCHANGED vars
  PROVE  IInv'
<1>1. UNCHANGED <<disk, events, missed, foreign, phase, repeats, dedupe, pending, lastSeen,
                  watcher, log, refused>>
  BY DEF StartObserver, Tick, vars, hookVars, diskVars, watcherVars
<1>2. started' \in BOOLEAN /\ now' \in 0 .. MaxTime /\ now' >= now /\ now \in 0 .. MaxTime
  <2> USE DEF IInv, Types, TypeOK
  <2>1. CASE StartObserver
    BY <2>1 DEF StartObserver
  <2>2. CASE Tick
    BY <2>2, BoundAssumption DEF Tick, watcherVars
  <2>3. CASE UNCHANGED vars
    BY <2>3 DEF vars
  <2> QED
    BY <2>1, <2>2, <2>3
<1>3. \A i \in DOMAIN pending : pending[i].at \in 0 .. now'
  BY <1>2, BoundAssumption DEF IInv, Types, TypeOK
<1>4. Types'
  BY <1>1, <1>2, <1>3 DEF IInv, Types, TypeOK
<1>5. (UsedOnce(log) /\ Balance /\ Shown /\ Told /\ Working /\ Unpaired)'
  BY <1>1 DEF IInv, Balance, Shown, Told, Working, Unpaired
<1> QED
  BY <1>4, <1>5 DEF IInv

LEMMA NextKeeps == IInv /\ [Next]_vars => IInv'
<1> SUFFICES ASSUME IInv, [Next]_vars PROVE IInv'
  OBVIOUS
<1>1. ASSUME NEW c \in Call,
             \/ PreToolCall(c) \/ SendIntent(c) \/ Stash(c)
             \/ RunTool(c) \/ SendResult(c) \/ PopIntent(c)
      PROVE  IInv'
  BY <1>1, PreToolCallStep, SendIntentStep, StashStep, RunToolStep, SendResultStep,
     PopIntentStep
<1>2. ASSUME NEW f \in File,
             \/ \E v \in Content : ForeignWrite(f, v)
             \/ \E g \in File \cup {Elsewhere} : Rename(f, g)
      PROVE  IInv'
  BY <1>2, ForeignSteps
<1>3. ASSUME NEW f \in File, OnChange(f)
      PROVE  IInv'
  BY <1>3, OnChangeStep
<1>4. CASE Pair
  BY <1>4, PairStep
<1>5. CASE SendChange
  BY <1>5, SendChangeStep
<1>6. CASE StartObserver \/ Tick \/ UNCHANGED vars
  BY <1>6, OtherSteps
<1> QED
  BY <1>1, <1>2, <1>3, <1>4, <1>5, <1>6 DEF Next

(* Every reachable state satisfies the inductive invariant.                   *)
THEOREM HooksInvariance == Spec => []IInv
BY InitHolds, NextKeeps, PTL DEF Spec
-------------------------------------------------------------------------------
(* Every variable keeps its type, and the table of pending intents holds ids  *)
(* of calls with times that have been.                                        *)
THEOREM TypeCorrect == Spec => []TypeOK
<1>1. IInv => TypeOK
  BY DEF IInv, Types
<1> QED
  BY <1>1, HooksInvariance, PTL

(* No result of the watcher uses an intent that another one used: the hooks   *)
(* stash an intent after it was sent and the watcher pops what it matches.    *)
THEOREM IntentsAreUsedOnce == Spec => []EachIntentIsUsedOnce
<1>1. IInv => EachIntentIsUsedOnce
  <2> SUFFICES ASSUME IInv, NEW j \in DOMAIN log,
                      log[j].source = "watcher", log[j].id # NoId
               PROVE  Cardinality({k \in {m \in 1 .. j : /\ log[m].id = log[j].id
                                                         /\ log[m].type = "intent"
                                                         /\ log[m].source = "hook"} :
                                      log[k].taken})
                        >= Cardinality({m \in 1 .. j : /\ log[m].id = log[j].id
                                                       /\ log[m].type = "result"
                                                       /\ log[m].source = "watcher"})
    BY DEF EachIntentIsUsedOnce
  <2>1. {k \in {m \in 1 .. j : /\ log[m].id = log[j].id
                               /\ log[m].type = "intent" /\ log[m].source = "hook"} :
            log[k].taken}
          = Taken(log, j, log[j].id)
    BY DEF Taken, IsTaken
  <2>2. {m \in 1 .. j : /\ log[m].id = log[j].id
                        /\ log[m].type = "result" /\ log[m].source = "watcher"}
          = Pairs(log, j, log[j].id)
    BY DEF Pairs, IsPair
  <2>3. Cardinality(Taken(log, j, log[j].id)) >= Cardinality(Pairs(log, j, log[j].id))
    BY DEF IInv, UsedOnce
  <2> QED
    BY <2>1, <2>2, <2>3
<1> QED
  BY <1>1, HooksInvariance, PTL

(* Once the watcher has caught up, the log ends with what every file holds,   *)
(* whatever was written, deleted or moved while it hashed, paired and sent.   *)
(* What a rename took away, or changed before the observer ran, is excepted:  *)
(* no handler is called for it.                                               *)
THEOREM ChangesAreSeen == Spec => []NoChangeIsUnseen
<1>1. IInv => NoChangeIsUnseen
  <2> SUFFICES ASSUME IInv, Quiet, NEW f \in File \ missed
               PROVE  /\ lastSeen[f] = disk[f]
                      /\ LastSays(log, f, disk[f])
    BY DEF NoChangeIsUnseen, LastSays, IsChange, ChangeOf
  <2>1. lastSeen[f] = disk[f]
    BY DEF IInv, Shown, Quiet
  <2>2. LastSays(log, f, lastSeen[f])
    BY DEF IInv, Told, Quiet, Idle
  <2> QED
    BY <2>1, <2>2
<1> QED
  BY <1>1, HooksInvariance, PTL
-------------------------------------------------------------------------------
(* A memory call that nothing disturbs: no other memory call has begun, no    *)
(* foreign write was made, no envelope refused, and its intent is recent.     *)
Lone(c) == /\ Memory(c) /\ now <= Window /\ foreign = 0 /\ refused = 0
           /\ \A d \in Call \ {c} : Memory(d) => phase[d] = "new"

(* A skill call has an id of its own: hooks.py:229 audits one only if Hermes  *)
(* gave it a tool_call_id. (One with a memory call's id would pop its entry.) *)
IdsApart ==
    \A c, d \in Call : Memory(c) /\ ~Memory(d) => Invocation[c].id # Invocation[d].id

Stashed(c) == /\ Invocation[c].id \in DOMAIN pending
              /\ pending[Invocation[c].id].path = Invocation[c].path

Untold    == \A k \in DOMAIN log : log[k].source = "hook"
Settled   == events = {} /\ disk = lastSeen
Untouched == Settled /\ watcher = Idle /\ missed = {} /\ Untold

OneChange(c) == events = {Invocation[c].path} /\ \A f \in File \ events : disk[f] = lastSeen[f]

Answered(c) == \E j \in DOMAIN log :
                  /\ log[j].source = "watcher" /\ log[j].id = Invocation[c].id
                  /\ \A k \in DOMAIN log : log[k].source = "watcher" => k = j

(* The change such a call makes has an event, then it is with the watcher,    *)
(* unpaired and paired, and then there is a row about it.                     *)
OnItsWay(c) ==
    \/ /\ watcher = Idle /\ OneChange(c) /\ Stashed(c) /\ Untold
       /\ disk[Invocation[c].path] # lastSeen[Invocation[c].path]
    \/ /\ Settled /\ watcher.step = "pair" /\ watcher.file = Invocation[c].path
       /\ Stashed(c) /\ Untold
    \/ Settled /\ watcher.step = "send" /\ watcher.id = Invocation[c].id /\ Untold
    \/ Settled /\ watcher = Idle /\ Answered(c)

(* Until it writes nothing moves; it is stashed when it gets to run, no other *)
(* entry has its path, and no post hook pops its own.                         *)
Alone(c) ==
    /\ phase[c] = "new" <=> Key(c) \notin dedupe
    /\ phase[c] = "ready" => Stashed(c)
    /\ \A i \in DOMAIN pending \ {Invocation[c].id} : pending[i].path # Invocation[c].path
    /\ phase[c] # "pop"
    /\ phase[c] # "wrote" => Untouched
    /\ phase[c] = "wrote" /\ Invocation[c].path \notin missed => OnItsWay(c)

LoneInv == IdsApart /\ IInv /\ \A c \in Call : Lone(c) => Alone(c)

Forward == /\ now <= now' /\ foreign <= foreign' /\ refused <= refused'
           /\ \A d \in Call : phase'[d] = "new" => phase[d] = "new"

LEMMA Numbers ==
  ASSUME IInv
  PROVE  now \in Nat /\ foreign \in Nat /\ refused \in Nat /\ repeats \in Nat
         /\ phase \in [Call -> Phases] /\ log \in Seq(Row)
BY BoundAssumption DEF IInv, Types, TypeOK, Phases

LEMMA OffersGoForward ==
  ASSUME IInv, NEW row, Offer(row)
  PROVE  refused <= refused'
BY Numbers DEF Offer

LEMMA StepsGoForward ==
  ASSUME IInv, [Next]_vars
  PROVE  Forward
<1>1. ASSUME NEW c \in Call, PreToolCall(c) \/ Stash(c) \/ RunTool(c) \/ PopIntent(c)
      PROVE  Forward
  <2>1. UNCHANGED <<now, foreign, refused>>
    BY <1>1 DEF PreToolCall, Stash, RunTool, PopIntent, diskVars
  <2>2. \A d \in Call : phase'[d] = "new" => phase[d] = "new"
    BY <1>1, Numbers DEF PreToolCall, Stash, RunTool, PopIntent
  <2> QED
    BY <2>1, <2>2, Numbers DEF Forward
<1>2. ASSUME NEW c \in Call, SendIntent(c) \/ SendResult(c)
      PROVE  Forward
  <2>1. UNCHANGED <<now, foreign>>
    BY <1>2 DEF SendIntent, SendResult, diskVars
  <2>2. \A d \in Call : phase'[d] = "new" => phase[d] = "new"
    BY <1>2, Numbers DEF SendIntent, SendResult
  <2>3. refused <= refused'
    BY <1>2, OffersGoForward DEF SendIntent, SendResult
  <2> QED
    BY <2>1, <2>2, <2>3, Numbers DEF Forward
<1>3. ASSUME NEW f \in File,
             \/ \E v \in Content : ForeignWrite(f, v)
             \/ \E g \in File \cup {Elsewhere} : Rename(f, g)
      PROVE  Forward
  BY <1>3, Numbers DEF ForeignWrite, Rename, hookVars, Forward
<1>4. ASSUME NEW f \in File, OnChange(f)
      PROVE  Forward
  BY <1>4, Numbers DEF OnChange, hookVars, Forward
<1>5. CASE StartObserver \/ Pair \/ UNCHANGED vars
  <2>1. UNCHANGED <<now, foreign, phase, refused>>
    BY <1>5 DEF StartObserver, Pair, vars, hookVars, diskVars
  <2> QED
    BY <2>1, Numbers DEF Forward
<1>7. CASE Tick
  BY <1>7, Numbers DEF Tick, hookVars, diskVars, Forward
<1>6. CASE SendChange
  <2>1. refused <= refused'
    BY <1>6, OffersGoForward DEF SendChange
  <2> QED
    BY <1>6, <2>1, Numbers DEF SendChange, hookVars, diskVars, Forward
<1> QED
  BY <1>1, <1>2, <1>3, <1>4, <1>5, <1>6, <1>7 DEF Next

(* Who is undisturbed was so before.                                          *)
LEMMA LoneBefore ==
  ASSUME IInv, IInv', [Next]_vars, NEW c \in Call, Lone(c)'
  PROVE  /\ Lone(c) /\ refused' = refused /\ foreign' = foreign
         /\ \A d \in Call \ {c} : Memory(d) => phase[d] = "new" /\ phase'[d] = "new"
<1>1. Forward
  BY StepsGoForward
<1>2. /\ now' <= Window /\ foreign' = 0 /\ refused' = 0 /\ Memory(c)
      /\ \A d \in Call \ {c} : Memory(d) => phase'[d] = "new"
  BY DEF Lone, Memory
<1>3. now \in Nat /\ foreign \in Nat /\ refused \in Nat /\ now' \in Nat
  BY Numbers, BoundAssumption DEF IInv, Types, TypeOK
<1>4. now <= Window /\ foreign = 0 /\ refused = 0
  BY <1>1, <1>2, <1>3, BoundAssumption DEF Forward
<1> QED
  BY <1>1, <1>2, <1>4 DEF Forward, Lone

(* What a hook has to keep, for a call not to be disturbed.                   *)
LEMMA HookKeeps ==
  ASSUME NEW c \in Call, Alone(c),
         UNCHANGED <<disk, events, missed, lastSeen, watcher>>,
         phase[c] = "wrote" <=> phase'[c] = "wrote",
         phase'[c] = "pop" => phase[c] = "pop",
         phase'[c] = "new" <=> Key(c) \notin dedupe',
         phase'[c] = "ready" => Stashed(c)',
         Stashed(c) => Stashed(c)',
         \A i \in DOMAIN pending' \ {Invocation[c].id} : pending'[i].path # Invocation[c].path,
         Untold => Untold', Answered(c) => Answered(c)'
  PROVE  Alone(c)'
<1>1. Settled => Settled'
  BY DEF Settled
<1>2. Untouched => Untouched'
  BY <1>1 DEF Untouched
<1>3. OneChange(c) => OneChange(c)'
  BY DEF OneChange
<1>4. OnItsWay(c) => OnItsWay(c)'
  BY <1>1, <1>3 DEF OnItsWay
<1> QED
  BY <1>2, <1>4 DEF Alone, Key

LEMMA RowsStay ==
  ASSUME NEW c \in Call, log \in Seq(Row), NEW r \in Row, log' = Append(log, r),
         r.source = "hook"
  PROVE  (Untold => Untold') /\ (Answered(c) => Answered(c)')
<1>1. Untold => Untold'
  BY AppendIs DEF Untold
<1>2. ASSUME Answered(c) PROVE Answered(c)'
  <2>1. PICK j \in DOMAIN log :
           /\ log[j].source = "watcher" /\ log[j].id = Invocation[c].id
           /\ \A k \in DOMAIN log : log[k].source = "watcher" => k = j
    BY <1>2 DEF Answered
  <2>2. /\ j \in DOMAIN log' /\ log'[j] = log[j]
        /\ \A k \in DOMAIN log' : log'[k].source = "watcher" => k = j
    BY <2>1, AppendIs
  <2> QED
    BY <2>1, <2>2 DEF Answered
<1> QED
  BY <1>1, <1>2

LEMMA LonePreToolCall ==
  ASSUME LoneInv, NEW c \in Call, Lone(c), Lone(c)', NEW d \in Call, PreToolCall(d)
  PROVE  Alone(c)'
<1>1. Alone(c) /\ phase \in [Call -> Phases]
  BY Numbers DEF LoneInv
<1>2. UNCHANGED <<disk, events, missed, lastSeen, watcher, pending, log>>
  BY DEF PreToolCall, diskVars, watcherVars
<1>3. /\ phase[d] \in {"new", "ready"} /\ dedupe' = dedupe \cup {Key(d)}
      /\ phase' = [phase EXCEPT ![d] = IF Key(d) \in dedupe THEN "ready" ELSE "send"]
  BY DEF PreToolCall, Seen
<1>4. CASE d = c
  <2>1. /\ Key(c) \in dedupe' /\ phase'[c] \in {"ready", "send"}
        /\ phase'[c] = "ready" => Stashed(c)
        /\ phase[c] # "wrote"
    BY <1>1, <1>3, <1>4 DEF Alone
  <2>2. \A i \in DOMAIN pending' \ {Invocation[c].id} : pending'[i].path # Invocation[c].path
    BY <1>1, <1>2 DEF Alone
  <2>3. (Stashed(c) => Stashed(c)') /\ (Untold => Untold') /\ (Answered(c) => Answered(c)')
    BY <1>2 DEF Stashed, Untold, Answered
  <2> QED
    BY <1>1, <1>2, <2>1, <2>2, <2>3, HookKeeps
<1>5. CASE d # c
  <2>1. ~Memory(d) /\ Memory(c) /\ phase'[c] = phase[c]
    BY <1>1, <1>3, <1>5 DEF Lone, Memory
  <2>2. Key(d) # Key(c)
    BY <2>1 DEF Key, Memory
  <2>3. \A i \in DOMAIN pending' \ {Invocation[c].id} : pending'[i].path # Invocation[c].path
    BY <1>1, <1>2 DEF Alone
  <2>4. (Stashed(c) => Stashed(c)') /\ (Untold => Untold') /\ (Answered(c) => Answered(c)')
    BY <1>2 DEF Stashed, Untold, Answered
  <2>5. /\ phase'[c] = "new" <=> Key(c) \notin dedupe'
        /\ phase'[c] = "ready" => Stashed(c)
    BY <1>1, <1>3, <2>1, <2>2 DEF Alone
  <2> QED
    BY <1>1, <1>2, <2>1, <2>3, <2>4, <2>5, HookKeeps
<1> QED
  BY <1>4, <1>5

LEMMA LoneSendIntent ==
  ASSUME LoneInv, NEW c \in Call, Lone(c), Lone(c)', NEW d \in Call, SendIntent(d)
  PROVE  Alone(c)'
<1> DEFINE Intent(taken) == [type |-> "intent", source |-> "hook", id |-> Invocation[d].id,
                             key |-> Key(d), taken |-> taken]
<1>1. PICK taken \in BOOLEAN :
         /\ Offer(Intent(taken))
         /\ phase' = [phase EXCEPT ![d] = IF taken THEN "stash" ELSE "ready"]
  BY DEF SendIntent
<1> DEFINE r == Intent(taken)
<1>2. r \in Row /\ r.source = "hook" /\ r.taken = taken
  BY DEF Row, Id
<1>3. log' = Append(log, r) /\ refused' = IF r.taken THEN refused ELSE refused + 1
  BY <1>1 DEF Offer
<1>4. taken
  BY <1>2, <1>3 DEF Lone
<1>5. Alone(c) /\ phase \in [Call -> Phases] /\ log \in Seq(Row)
  BY Numbers DEF LoneInv
<1>6. UNCHANGED <<disk, events, missed, lastSeen, watcher, pending, dedupe>>
  BY DEF SendIntent, diskVars, watcherVars
<1>7. (Untold => Untold') /\ (Answered(c) => Answered(c)')
  BY <1>2, <1>3, <1>5, RowsStay
<1>8. /\ phase[d] = "send" /\ phase'[d] = "stash"
      /\ d # c => phase'[c] = phase[c]
  BY <1>1, <1>4, <1>5 DEF SendIntent
<1>9. /\ phase'[c] = "new" <=> Key(c) \notin dedupe
      /\ phase'[c] = "ready" => Stashed(c)
      /\ phase[c] = "wrote" <=> phase'[c] = "wrote"
      /\ phase'[c] = "pop" => phase[c] = "pop"
  <2>1. CASE d = c
    BY <1>5, <1>8, <2>1 DEF Alone
  <2>2. CASE d # c
    BY <1>5, <1>8, <2>2 DEF Alone
  <2> QED
    BY <2>1, <2>2
<1>10. /\ Stashed(c) => Stashed(c)'
       /\ \A i \in DOMAIN pending' \ {Invocation[c].id} : pending'[i].path # Invocation[c].path
  BY <1>5, <1>6 DEF Stashed, Alone
<1> QED
  BY <1>5, <1>6, <1>7, <1>9, <1>10, HookKeeps

LEMMA LoneStash ==
  ASSUME LoneInv, NEW c \in Call, Lone(c), Lone(c)', NEW d \in Call, Stash(d)
  PROVE  Alone(c)'
<1>1. Alone(c) /\ phase \in [Call -> Phases]
  BY Numbers DEF LoneInv
<1>2. UNCHANGED <<disk, events, missed, lastSeen, watcher, log, dedupe>>
  BY DEF Stash, diskVars, watcherVars
<1>3. /\ phase[d] = "stash" /\ phase' = [phase EXCEPT ![d] = "ready"]
      /\ DOMAIN pending' = DOMAIN pending \cup {Invocation[d].id}
      /\ pending'[Invocation[d].id].path = Invocation[d].path
      /\ \A i \in DOMAIN pending \ {Invocation[d].id} : pending'[i] = pending[i]
  BY DEF Stash
<1>4. (Untold => Untold') /\ (Answered(c) => Answered(c)')
  BY <1>2 DEF Untold, Answered
<1>5. CASE d = c
  <2>1. Stashed(c)'
    BY <1>3, <1>5 DEF Stashed
  <2>2. \A i \in DOMAIN pending' \ {Invocation[c].id} : pending'[i].path # Invocation[c].path
    BY <1>1, <1>3, <1>5 DEF Alone
  <2>3. phase'[c] = "ready" /\ phase[c] = "stash" /\ Key(c) \in dedupe
    BY <1>1, <1>3, <1>5 DEF Alone
  <2> QED
    BY <1>1, <1>2, <1>4, <2>1, <2>2, <2>3, HookKeeps
<1>6. CASE d # c
  <2>1. ~Memory(d) /\ Memory(c) /\ phase'[c] = phase[c]
    BY <1>1, <1>3, <1>6 DEF Lone, Memory
  <2>2. Invocation[c].id # Invocation[d].id /\ Invocation[d].path # Invocation[c].path
    BY <2>1, InvocationAssumption DEF LoneInv, IdsApart
  <2>3. Stashed(c) => Stashed(c)'
    BY <1>3, <2>2 DEF Stashed
  <2>4. \A i \in DOMAIN pending' \ {Invocation[c].id} : pending'[i].path # Invocation[c].path
    BY <1>1, <1>3, <2>2 DEF Alone
  <2>5. /\ phase'[c] = "new" <=> Key(c) \notin dedupe'
        /\ phase'[c] = "ready" => Stashed(c)
    BY <1>1, <1>2, <2>1 DEF Alone
  <2> QED
    BY <1>1, <1>2, <1>4, <2>1, <2>3, <2>4, <2>5, HookKeeps
<1> QED
  BY <1>5, <1>6

(* Only skills have post hooks, and their ids are others.                     *)
LEMMA LoneSendResult ==
  ASSUME LoneInv, NEW c \in Call, Lone(c), Lone(c)', NEW d \in Call, SendResult(d)
  PROVE  Alone(c)'
<1> DEFINE Result(taken) == [type |-> "result", source |-> "hook", id |-> Invocation[d].id,
                             taken |-> taken]
<1>1. PICK taken \in BOOLEAN : Offer(Result(taken))
  BY DEF SendResult
<1> DEFINE r == Result(taken)
<1>2. r \in Row /\ r.source = "hook"
  BY DEF Row, Id
<1>3. log' = Append(log, r)
  BY <1>1 DEF Offer
<1>4. Alone(c) /\ phase \in [Call -> Phases] /\ log \in Seq(Row)
  BY Numbers DEF LoneInv
<1>5. UNCHANGED <<disk, events, missed, lastSeen, watcher, pending, dedupe>>
  BY DEF SendResult, diskVars, watcherVars
<1>6. (Untold => Untold') /\ (Answered(c) => Answered(c)')
  BY <1>2, <1>3, <1>4, RowsStay
<1>7. d # c /\ phase'[c] = phase[c]
  BY <1>4 DEF SendResult, Lone
<1>8. /\ Stashed(c) => Stashed(c)'
      /\ \A i \in DOMAIN pending' \ {Invocation[c].id} : pending'[i].path # Invocation[c].path
  BY <1>4, <1>5 DEF Stashed, Alone
<1>9. /\ phase'[c] = "new" <=> Key(c) \notin dedupe'
      /\ phase'[c] = "ready" => Stashed(c)
  BY <1>4, <1>5, <1>7 DEF Alone
<1> QED
  BY <1>4, <1>5, <1>6, <1>7, <1>8, <1>9, HookKeeps

LEMMA LonePopIntent ==
  ASSUME LoneInv, NEW c \in Call, Lone(c), Lone(c)', NEW d \in Call, PopIntent(d)
  PROVE  Alone(c)'
<1>1. Alone(c) /\ phase \in [Call -> Phases]
  BY Numbers DEF LoneInv
<1>2. UNCHANGED <<disk, events, missed, lastSeen, watcher, log, dedupe>>
  BY DEF PopIntent, diskVars, watcherVars
<1>3. /\ phase[d] = "pop" /\ phase' = [phase EXCEPT ![d] = "done"]
      /\ pending' = [j \in DOMAIN pending \ {Invocation[d].id} |-> pending[j]]
  BY DEF PopIntent, Forget
<1>4. (Untold => Untold') /\ (Answered(c) => Answered(c)')
  BY <1>2 DEF Untold, Answered
<1>5. CASE Memory(d)
  <2>1. d = c
    BY <1>3, <1>5 DEF Lone
  <2> QED
    BY <1>1, <1>3, <2>1 DEF Alone
<1>6. CASE ~Memory(d)
  <2>1. d # c /\ Memory(c) /\ phase'[c] = phase[c]
    BY <1>1, <1>3, <1>6 DEF Lone, Memory
  <2>2. Invocation[c].id # Invocation[d].id
    BY <1>6, <2>1 DEF LoneInv, IdsApart
  <2>3. Stashed(c) => Stashed(c)'
    BY <1>3, <2>2 DEF Stashed
  <2>4. \A i \in DOMAIN pending' \ {Invocation[c].id} : pending'[i].path # Invocation[c].path
    BY <1>1, <1>3 DEF Alone
  <2>5. /\ phase'[c] = "new" <=> Key(c) \notin dedupe'
        /\ phase'[c] = "ready" => Stashed(c)
    BY <1>1, <1>2, <2>1 DEF Alone
  <2> QED
    BY <1>1, <1>2, <1>4, <2>1, <2>3, <2>4, <2>5, HookKeeps
<1> QED
  BY <1>5, <1>6

(* The call's own write is the only one: its file gets an event or, before    *)
(* the observer runs, none.                                                   *)
LEMMA LoneRunTool ==
  ASSUME LoneInv, NEW c \in Call, Lone(c), Lone(c)', NEW d \in Call, RunTool(d)
  PROVE  Alone(c)'
<1>1. Alone(c) /\ phase \in [Call -> Phases]
  BY Numbers DEF LoneInv
<1>2. /\ UNCHANGED <<dedupe, pending, lastSeen, watcher, log>>
      /\ phase[d] = "ready"
  BY DEF RunTool, watcherVars
<1>3. /\ Stashed(c) => Stashed(c)'
      /\ (Untold => Untold') /\ (Answered(c) => Answered(c)')
      /\ \A i \in DOMAIN pending' \ {Invocation[c].id} : pending'[i].path # Invocation[c].path
  BY <1>1, <1>2 DEF Stashed, Untold, Answered, Alone
<1>4. CASE UNCHANGED diskVars /\ phase' = [phase EXCEPT ![d] = "ran"]
  <2>1. UNCHANGED <<disk, events, missed>>
    BY <1>4 DEF diskVars
  <2>2. /\ phase[c] = "wrote" <=> phase'[c] = "wrote"
        /\ phase'[c] = "pop" => phase[c] = "pop"
        /\ phase'[c] = "ready" => phase[c] = "ready"
        /\ phase'[c] = "new" <=> phase[c] = "new"
    BY <1>1, <1>2, <1>4
  <2>3. /\ phase'[c] = "new" <=> Key(c) \notin dedupe'
        /\ phase'[c] = "ready" => Stashed(c)'
    BY <1>1, <1>2, <1>3, <2>2 DEF Alone
  <2> QED
    BY <1>1, <1>2, <1>3, <2>1, <2>2, <2>3, HookKeeps
<1>5. ASSUME NEW v \in Content \ {disk[Invocation[d].path]}, Memory(d),
             Write(Invocation[d].path, v), phase' = [phase EXCEPT ![d] = "wrote"]
      PROVE  Alone(c)'
  <2>1. d = c
    BY <1>2, <1>5 DEF Lone
  <2> DEFINE f == Invocation[c].path
  <2>2. phase'[c] = "wrote" /\ phase[c] = "ready" /\ Stashed(c) /\ Untouched /\ Key(c) \in dedupe
    BY <1>1, <1>2, <1>5, <2>1 DEF Alone
  <2>3. /\ f \in File /\ disk \in [File -> Content] /\ lastSeen \in [File -> Content]
        /\ disk' = [disk EXCEPT ![f] = v] /\ v # disk[f]
    BY <1>5, <2>1, InvocationAssumption DEF Write, LoneInv, IInv, Types, TypeOK
  <2>4. disk'[f] # lastSeen'[f] /\ \A g \in File \ {f} : disk'[g] = lastSeen'[g]
    BY <1>2, <2>2, <2>3 DEF Untouched, Settled
  <2>5. f \notin missed' => events' = {f}
    BY <1>5, <2>1, <2>2, <2>3 DEF Write, Event, Concerned, Untouched, Settled
  <2>6. watcher' = Idle /\ Untold' /\ Stashed(c)'
    BY <1>2, <1>3, <2>2 DEF Untouched
  <2>7. f \notin missed' => OnItsWay(c)'
    BY <2>4, <2>5, <2>6 DEF OnItsWay, OneChange
  <2> QED
    BY <1>2, <1>3, <2>2, <2>7 DEF Alone, Key
<1> QED
  BY <1>4, <1>5 DEF RunTool

(* The watcher hashes the file the event is for,                              *)
LEMMA LoneOnChange ==
  ASSUME LoneInv, NEW c \in Call, Lone(c), Lone(c)', NEW f \in File, OnChange(f)
  PROVE  Alone(c)'
<1> DEFINE g == Invocation[c].path
<1>1. Alone(c)
  BY DEF LoneInv
<1>2. /\ UNCHANGED <<disk, missed, phase, dedupe, pending, log>>
      /\ watcher = Idle /\ f \in events /\ events' = events \ {f}
  BY DEF OnChange, hookVars
<1>3. /\ Stashed(c) => Stashed(c)'
      /\ Untold => Untold'
      /\ \A i \in DOMAIN pending' \ {Invocation[c].id} : pending'[i].path # Invocation[c].path
  BY <1>1, <1>2 DEF Stashed, Untold, Alone
<1>4. phase[c] = "wrote" /\ events # {}
  BY <1>1, <1>2 DEF Alone, Untouched, Settled
<1>5. ASSUME g \notin missed PROVE OnItsWay(c)'
  <2>1. OneChange(c) /\ Stashed(c) /\ Untold /\ disk[g] # lastSeen[g]
    BY <1>1, <1>2, <1>4, <1>5 DEF Alone, OnItsWay, Settled, Idle
  <2>2. f = g /\ events' = {}
    BY <1>2, <2>1 DEF OneChange
  <2>3. /\ lastSeen' = [lastSeen EXCEPT ![g] = disk[g]]
        /\ watcher'.step = "pair" /\ watcher'.file = g
    BY <2>1, <2>2 DEF OnChange, SameDigest
  <2>4. disk \in [File -> Content] /\ lastSeen \in [File -> Content]
    BY DEF LoneInv, IInv, Types, TypeOK
  <2>5. disk' = lastSeen'
    BY <1>2, <2>1, <2>2, <2>3, <2>4 DEF OneChange
  <2> QED
    BY <1>3, <2>1, <2>2, <2>3, <2>5 DEF OnItsWay, Settled
<1> QED
  BY <1>1, <1>2, <1>3, <1>4, <1>5 DEF Alone, Key

(* finds the call's entry, the one with the exact path,                       *)
LEMMA LonePair ==
  ASSUME LoneInv, NEW c \in Call, Lone(c), Lone(c)', Pair
  PROVE  Alone(c)'
<1> DEFINE f == Invocation[c].path
           i == Invocation[c].id
<1>1. Alone(c)
  BY DEF LoneInv
<1>2. UNCHANGED <<now, disk, events, missed, phase, dedupe, lastSeen, log>>
      /\ watcher.step = "pair"
  BY DEF Pair, hookVars, diskVars
<1>3. phase[c] = "wrote"
  BY <1>1, <1>2 DEF Alone, Untouched, Idle
<1>4. \A j \in DOMAIN pending' \ {i} : pending'[j].path # f
  BY <1>1 DEF Pair, Alone, Forget
<1>5. ASSUME f \notin missed PROVE OnItsWay(c)'
  <2>1. Settled /\ watcher.file = f /\ Stashed(c) /\ Untold
    BY <1>1, <1>2, <1>3, <1>5 DEF Alone, OnItsWay, Idle
  <2>2. pending[i].at \in Nat /\ now \in Nat /\ now <= Window
    <3>1. pending[i].at \in 0 .. now /\ now \in 0 .. MaxTime
      BY <2>1 DEF LoneInv, IInv, Types, TypeOK, Stashed
    <3> QED
      BY <3>1, BoundAssumption DEF Lone
  <2>3. i \in Recent
    BY <2>1, <2>2, BoundAssumption DEF Recent, Stashed
  <2>4. Exact(f) = {i}
    BY <1>1, <2>1, <2>3 DEF Exact, Stashed, Alone, Recent
  <2>5. Candidates(watcher.file) = {i}
    BY <2>1, <2>4 DEF Candidates
  <2>6. watcher' = [watcher EXCEPT !.step = "send", !.id = i]
    BY <2>5 DEF Pair, Newest
  <2>7. watcher \in [step : {"pair", "send"}, file : File, digest : Content,
                     id : Id \cup {NoId}]
    BY <1>2 DEF LoneInv, IInv, Types, Idle
  <2>8. watcher'.step = "send" /\ watcher'.id = i
    BY <2>6, <2>7
  <2> QED
    BY <1>2, <2>1, <2>8 DEF OnItsWay, Settled, Untold
<1> QED
  BY <1>1, <1>2, <1>3, <1>4, <1>5 DEF Alone, Key

(* and offers the one row there is about it.                                  *)
LEMMA LoneSendChange ==
  ASSUME LoneInv, NEW c \in Call, Lone(c), Lone(c)', SendChange
  PROVE  Alone(c)'
<1> DEFINE Change(taken) == [type |-> "result", source |-> "watcher", id |-> watcher.id,
                             file |-> watcher.file, digest |-> watcher.digest, taken |-> taken]
<1>1. PICK taken \in BOOLEAN : Offer(Change(taken))
  BY DEF SendChange
<1> DEFINE r == Change(taken)
<1>2. Alone(c) /\ log \in Seq(Row)
  BY Numbers DEF LoneInv
<1>3. /\ UNCHANGED <<disk, events, missed, phase, dedupe, pending, lastSeen>>
      /\ watcher.step = "send" /\ watcher' = Idle
  BY DEF SendChange, hookVars, diskVars
<1>4. log' = Append(log, r)
  BY <1>1 DEF Offer
<1>5. phase[c] = "wrote"
  BY <1>2, <1>3 DEF Alone, Untouched, Idle
<1>6. ASSUME Invocation[c].path \notin missed PROVE OnItsWay(c)'
  <2>1. Settled /\ watcher.id = Invocation[c].id /\ Untold
    BY <1>2, <1>3, <1>5, <1>6 DEF Alone, OnItsWay, Idle
  <2>2. r.source = "watcher" /\ r.id = Invocation[c].id /\ r \in Row
    <3>1. watcher \in [step : {"pair", "send"}, file : File, digest : Content,
                       id : Id \cup {NoId}]
      BY <1>3 DEF LoneInv, IInv, Types, Idle
    <3> QED
      BY <2>1, <3>1 DEF Row
  <2> HIDE DEF r
  <2>3. /\ Len(log) + 1 \in DOMAIN log' /\ log'[Len(log) + 1] = r
        /\ \A k \in DOMAIN log' : log'[k].source = "watcher" => k = Len(log) + 1
    <3>1. \A k \in 1 .. Len(log) : log[k].source = "hook"
      BY <1>2, <2>1, <2>2, AppendIs DEF Untold
    <3> QED
      BY <1>2, <1>4, <2>2, <3>1, AppendIs
  <2>4. Answered(c)'
    BY <2>2, <2>3 DEF Answered
  <2> QED
    BY <1>3, <2>1, <2>4 DEF OnItsWay, Settled
<1>7. \A j \in DOMAIN pending' \ {Invocation[c].id} : pending'[j].path # Invocation[c].path
  BY <1>2, <1>3 DEF Alone
<1> QED
  BY <1>2, <1>3, <1>5, <1>6, <1>7 DEF Alone, Key

LEMMA LoneSteps ==
  ASSUME LoneInv, IInv', [Next]_vars
  PROVE  LoneInv'
<1> SUFFICES ASSUME NEW c \in Call, Lone(c)' PROVE Alone(c)'
  BY DEF LoneInv, IdsApart, Memory
<1>1. /\ Lone(c) /\ foreign' = foreign
      /\ \A d \in Call \ {c} : Memory(d) => phase[d] = "new" /\ phase'[d] = "new"
  BY LoneBefore DEF LoneInv
<1>2. ASSUME NEW d \in Call,
             \/ PreToolCall(d) \/ SendIntent(d) \/ Stash(d)
             \/ RunTool(d) \/ SendResult(d) \/ PopIntent(d)
      PROVE  Alone(c)'
  BY <1>1, <1>2, LonePreToolCall, LoneSendIntent, LoneStash, LoneRunTool, LoneSendResult,
     LonePopIntent
<1>3. ASSUME NEW f \in File,
             \/ \E v \in Content : ForeignWrite(f, v)
             \/ \E g \in File \cup {Elsewhere} : Rename(f, g)
      PROVE  Alone(c)'
  BY <1>1, <1>3, Numbers DEF ForeignWrite, Rename, LoneInv
<1>4. ASSUME NEW f \in File, OnChange(f)
      PROVE  Alone(c)'
  BY <1>1, <1>4, LoneOnChange
<1>5. CASE Pair
  BY <1>1, <1>5, LonePair
<1>6. CASE SendChange
  BY <1>1, <1>6, LoneSendChange
<1>7. CASE StartObserver \/ Tick \/ UNCHANGED vars
  <2>1. UNCHANGED <<disk, events, missed, phase, dedupe, pending, lastSeen, watcher, log>>
    BY <1>7 DEF StartObserver, Tick, vars, hookVars, diskVars, watcherVars
  <2>2. Alone(c)
    BY <1>1 DEF LoneInv
  <2>3. /\ (Untold => Untold') /\ (Answered(c) => Answered(c)')
        /\ Stashed(c) => Stashed(c)'
        /\ \A i \in DOMAIN pending' \ {Invocation[c].id} : pending'[i].path # Invocation[c].path
        /\ phase'[c] = "new" <=> Key(c) \notin dedupe'
        /\ phase'[c] = "ready" => Stashed(c)
    BY <2>1, <2>2 DEF Untold, Answered, Stashed, Alone
  <2> QED
    BY <2>1, <2>2, <2>3, HookKeeps
<1> QED
  BY <1>2, <1>3, <1>4, <1>5, <1>6, <1>7 DEF Next

(* The change that an undisturbed memory call made has, once the watcher has  *)
(* caught up, one row, and the row has the call's id: the intent is stashed   *)
(* before the tool runs, and no other entry has its path.                     *)
THEOREM LoneCallsArePaired == IdsApart /\ Spec => []UndisturbedCallIsPaired
<1>1. Init /\ IdsApart => LoneInv
  <2> SUFFICES ASSUME Init, IdsApart, NEW c \in Call PROVE Alone(c)
    BY InitHolds DEF LoneInv
  <2>1. Untouched
    BY DEF Init, Untouched, Settled, Untold
  <2>2. phase[c] = "new" /\ dedupe = {} /\ DOMAIN pending = {}
    BY DEF Init
  <2> QED
    BY <2>1, <2>2 DEF Alone
<1>2. LoneInv /\ IInv' /\ [Next]_vars => LoneInv'
  BY LoneSteps
<1>3. LoneInv => UndisturbedCallIsPaired
  <2> SUFFICES ASSUME LoneInv, NEW c \in Call,
                      Quiet /\ Memory(c) /\ phase[c] = "wrote",
                      now <= Window /\ foreign = 0 /\ refused = 0,
                      Invocation[c].path \notin missed,
                      \A d \in Call \ {c} : Memory(d) => phase[d] = "new"
               PROVE  Answered(c)
    BY DEF UndisturbedCallIsPaired, Answered
  <2>1. Alone(c)
    BY DEF LoneInv, Lone
  <2> QED
    BY <2>1 DEF Alone, OnItsWay, OneChange, Quiet, Idle
<1> QED
  BY <1>1, <1>2, <1>3, HooksInvariance, PTL DEF Spec
=============================================================================
