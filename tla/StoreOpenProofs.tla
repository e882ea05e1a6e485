--------------------------- MODULE StoreOpenProofs ---------------------------
(* That all processes work with one seal key, that the meta table describes  *)
(* the rows once the store is open, and that the config only ever hardens    *)
(* but by an init another one has passed by: for any number of processes, of *)
(* any kinds and in any order but for the condition PluginOpensFirst that    *)
(* one theorem names.                                                        *)
EXTENDS StoreOpen, FiniteSetTheorems, TLAPS

KeyInv == /\ key \in [Proc -> Proc \cup {NoKey}]
          /\ OneSealKey

(* The steps that look for the key or publish one: a process takes the key   *)
(* that is on disk, or puts its own where none is (Sealer.bootstrap,         *)
(* writeKeyFile).                                                            *)
LEMMA KeySteps ==
    ASSUME KeyInv, NEW p \in Proc, FindKey(p) \/ PublishKey(p),
           keyFile \in Proc \cup {NoKey}
    PROVE  KeyInv' /\ keyFile' \in Proc \cup {NoKey}
<1>1. CASE FindKey(p) /\ keyFile = NoKey
  BY <1>1 DEF KeyInv, OneSealKey, FindKey
<1>2. CASE /\ keyFile # NoKey /\ keyFile' = keyFile
           /\ FindKey(p) \/ PublishKey(p)
  <2>1. key' = [key EXCEPT ![p] = keyFile]
    BY <1>2 DEF FindKey, PublishKey, HasKey
  <2> QED BY <1>2, <2>1 DEF KeyInv, OneSealKey
<1>3. CASE PublishKey(p) /\ keyFile = NoKey
  <2>1. keyFile' = p /\ key' = [key EXCEPT ![p] = p]
    BY <1>3 DEF PublishKey, HasKey
  <2>2. \A q \in Proc : key[q] = NoKey
    BY <1>3 DEF KeyInv, OneSealKey
  <2> QED BY <2>1, <2>2 DEF KeyInv, OneSealKey
<1> QED BY <1>1, <1>2, <1>3 DEF FindKey, PublishKey

(* No other step touches the key file or anybody's key.                      *)
LEMMA OtherSteps ==
    ASSUME NEW p \in Proc,
           \/ StartWithout(p) \/ LoadConfig(p) \/ ReadConfig(p) \/ WriteConfig(p)
           \/ CheckMeta(p) \/ SetMeta(p) \/ ReadMeta(p) \/ WriteMeta(p)
           \/ MarkRequired(p) \/ AppendOnce(p)
    PROVE  UNCHANGED <<key, keyFile>>
BY DEF StartWithout, LoadConfig, ReadConfig, WriteConfig, CheckMeta, SetMeta, ReadMeta,
       WriteMeta, MarkRequired, AppendOnce

(* However many processes look for the seal key and make one, all work with  *)
(* the one that reached the disk first (Sealer.bootstrap, bootstrapSealKey). *)
THEOREM OneKeyForAll == Spec => []OneSealKey
<1> DEFINE Inv == KeyInv /\ keyFile \in Proc \cup {NoKey}
<1>1. Init => Inv
  BY DEF Init, KeyInv, OneSealKey
<1>2. Inv /\ [Next]_vars => Inv'
  <2> SUFFICES ASSUME Inv, [Next]_vars PROVE Inv'
    OBVIOUS
  <2>1. CASE UNCHANGED vars
    BY <2>1 DEF KeyInv, OneSealKey, vars
  <2>2. ASSUME NEW p \in Proc, FindKey(p) \/ PublishKey(p) PROVE Inv'
    BY <2>2, KeySteps
  <2>3. ASSUME NEW p \in Proc,
               \/ StartWithout(p) \/ LoadConfig(p) \/ ReadConfig(p) \/ WriteConfig(p)
               \/ CheckMeta(p) \/ SetMeta(p) \/ ReadMeta(p) \/ WriteMeta(p)
               \/ MarkRequired(p) \/ AppendOnce(p)
        PROVE  Inv'
    BY <2>3, OtherSteps DEF KeyInv, OneSealKey
  <2> QED BY <2>1, <2>2, <2>3 DEF Next
<1>3. Inv => OneSealKey
  BY DEF KeyInv
<1> QED BY <1>1, <1>2, <1>3, PTL DEF Spec
-------------------------------------------------------------------------------
(* Nothing is appended while the plugin opens the store: of the processes    *)
(* that append, the plugin is the first, and the others open it after. The   *)
(* run plugin_rewinds shows what happens otherwise.                          *)
PluginOpensFirst ==
    \A p, q \in Proc : Kind[p] = "plugin" /\ Kind[q] # "init" /\ q # p => p \in After[q]

Labels == {"start", "failed", "write", "load", "check", "set", "readMeta", "writeMeta",
           "key", "publish", "mark", "ready"}

Live(p)   == pc[p] \notin {"start", "failed", "write", "load"}
Filled(n) == {MetaKeys[i] : i \in 1 .. n}

(* Where a process is says at which meta key it is, and only the plugin      *)
(* takes its own way through the table.                                      *)
Places ==
    /\ pc \in [Proc -> Labels] /\ next \in [Proc -> 1 .. 5]
    /\ DOMAIN mine = Proc /\ DOMAIN read = Proc
    /\ \A p \in Proc :
          /\ pc[p] \in {"start", "failed", "write", "load", "readMeta"} => next[p] = 1
          /\ pc[p] \in {"check", "set", "writeMeta"} => next[p] \in 1 .. 4
          /\ pc[p] \in {"readMeta", "writeMeta"} => Kind[p] = "plugin"
          /\ pc[p] \in {"check", "set"} => Kind[p] # "plugin"
          /\ pc[p] \in {"write", "load", "mark"} => Kind[p] = "init"

(* Who has begun was preceded by those it had to wait for.                   *)
InOrder == \A p \in Proc : pc[p] # "start" => \A q \in After[p] : Through(q)

(* Until the meta table is complete one process is at it, and what is in     *)
(* the table is what that process put there, from its own nonce.             *)
Filling ==
    /\ events = {}
    /\ \A p, q \in Proc : Live(p) /\ Live(q) => p = q
    /\ (\A p \in Proc : ~Live(p)) => DOMAIN meta = {}
    /\ \A p \in Proc : Live(p) =>
          /\ pc[p] \in {"check", "set", "readMeta", "writeMeta"}
          /\ DOMAIN meta = Filled(next[p] - 1)
          /\ \A k \in DOMAIN meta : meta[k] = Fresh(k, mine[p].nonce)
          /\ pc[p] = "writeMeta" => DOMAIN read[p] = {}

(* The rows are numbered 1 .. last_seq and linked from the genesis, and meta *)
(* describes the last one.                                                   *)
RowsLinked ==
    /\ IsFiniteSet(events) /\ meta.last_seq \in Nat
    /\ Cardinality(events) = meta.last_seq
    /\ \A r \in events : r.seq \in 1 .. meta.last_seq
    /\ \A i \in 1 .. meta.last_seq : \E r \in events : r.seq = i
    /\ \A r, s \in events : r.seq = s.seq => r = s
    /\ \A r \in events : r.seq = 1 => r.prev = meta.genesis_hash
    /\ \A r, s \in events : s.seq = r.seq + 1 => s.prev = r
    /\ meta.last_seq = 0 => meta.chain_head_hash = meta.genesis_hash
    /\ \A r \in events : r.seq = meta.last_seq => meta.chain_head_hash = r

SameMeta(M, N) == /\ DOMAIN M = DOMAIN N
                  /\ \A k \in DOMAIN N : M[k] = N[k]

(* From then on nobody sets a key it found missing, and what a plugin still  *)
(* has to write back is what the table holds.                                *)
Complete ==
    /\ meta.genesis_hash = GenesisHash(meta.genesis_nonce)
    /\ RowsLinked
    /\ \A p \in Proc : /\ pc[p] # "set"
                       /\ pc[p] = "writeMeta" => SameMeta(read[p], meta)

OpenInv == /\ Places /\ InOrder
           /\ IF MetaComplete THEN Complete ELSE Filling

Act(p) == \/ StartWithout(p) \/ LoadConfig(p) \/ ReadConfig(p) \/ WriteConfig(p)
          \/ CheckMeta(p) \/ SetMeta(p) \/ ReadMeta(p) \/ WriteMeta(p)
          \/ FindKey(p) \/ PublishKey(p) \/ MarkRequired(p) \/ AppendOnce(p)

LEMMA Keys ==
    /\ Len(MetaKeys) = 4 /\ DOMAIN MetaKeys = 1 .. 4
    /\ MetaKeys[1] = "genesis_nonce" /\ MetaKeys[2] = "genesis_hash"
    /\ MetaKeys[3] = "chain_head_hash" /\ MetaKeys[4] = "last_seq"
BY DEF MetaKeys

LEMMA FilledIs ==
    /\ Filled(0) = {} /\ Filled(4) = {MetaKeys[i] : i \in DOMAIN MetaKeys}
    /\ \A n \in 1 .. 4 : /\ Filled(n) = Filled(n - 1) \cup {MetaKeys[n]}
                         /\ MetaKeys[n] \notin Filled(n - 1)
                         /\ Filled(n - 1) # Filled(4)
<1>1. Filled(0) = {} /\ Filled(4) = {MetaKeys[i] : i \in DOMAIN MetaKeys}
  BY Keys DEF Filled
<1>2. ASSUME NEW n \in 1 .. 4 PROVE Filled(n) = Filled(n - 1) \cup {MetaKeys[n]}
  <2>1. \A i : i \in 1 .. n <=> (i \in 1 .. n - 1 \/ i = n)
    OBVIOUS
  <2> QED BY <2>1 DEF Filled
<1>3. ASSUME NEW n \in 1 .. 4, NEW i \in 1 .. n - 1 PROVE MetaKeys[i] # MetaKeys[n]
  BY <1>3, Keys
<1>4. ASSUME NEW n \in 1 .. 4 PROVE MetaKeys[n] \notin Filled(n - 1)
  BY <1>3 DEF Filled
<1>5. ASSUME NEW n \in 1 .. 4 PROVE MetaKeys[n] \in Filled(4)
  BY DEF Filled
<1> QED BY <1>1, <1>2, <1>4, <1>5

(* Every step keeps every process in its place.                              *)
LEMMA PlacesStep ==
    ASSUME Places, NEW p \in Proc, Act(p)
    PROVE  Places'
<1> USE OpenerAssumption, Keys
<1>1. CASE StartWithout(p) \/ LoadConfig(p) \/ ReadConfig(p) \/ WriteConfig(p)
  BY <1>1 DEF Places, Labels, StartWithout, LoadConfig, ReadConfig, WriteConfig, MayStart, Open, Goto
<1>2. CASE CheckMeta(p) \/ SetMeta(p)
  BY <1>2 DEF Places, Labels, CheckMeta, SetMeta, NextKey, Open, Goto
<1>3. CASE ReadMeta(p) \/ WriteMeta(p)
  BY <1>3 DEF Places, Labels, ReadMeta, WriteMeta, Goto
<1>4. CASE FindKey(p) \/ PublishKey(p) \/ MarkRequired(p) \/ AppendOnce(p)
  BY <1>4 DEF Places, Labels, FindKey, PublishKey, MarkRequired, AppendOnce, HasKey, Goto
<1> QED BY <1>1, <1>2, <1>3, <1>4 DEF Act

LEMMA ThroughStays ==
    ASSUME Places, NEW p \in Proc, Act(p), NEW q \in Proc, Through(q)
    PROVE  Through(q)'
<1> USE OpenerAssumption
<1>1. CASE \/ StartWithout(p) \/ LoadConfig(p) \/ ReadConfig(p) \/ WriteConfig(p)
           \/ CheckMeta(p) \/ SetMeta(p) \/ ReadMeta(p) \/ WriteMeta(p) \/ MarkRequired(p)
  <2>1. /\ pc[p] \notin {"ready", "failed", "key", "publish"}
        /\ \A r \in Proc \ {p} : pc'[r] = pc[r]
    BY <1>1 DEF Places, StartWithout, LoadConfig, ReadConfig, WriteConfig, MayStart, Open, Goto,
       CheckMeta, SetMeta, NextKey, ReadMeta, WriteMeta, MarkRequired
  <2> QED BY <2>1 DEF Through
<1>2. CASE FindKey(p) \/ PublishKey(p)
  BY <1>2 DEF Places, Through, FindKey, PublishKey, HasKey, Goto
<1>3. CASE AppendOnce(p)
  BY <1>3 DEF Through, AppendOnce
<1> QED BY <1>1, <1>2, <1>3 DEF Act

LEMMA InOrderStep ==
    ASSUME Places, InOrder, NEW p \in Proc, Act(p)
    PROVE  InOrder'
<1> SUFFICES ASSUME NEW q \in Proc, pc'[q] # "start", NEW r \in After[q]
             PROVE  Through(r)'
  BY DEF InOrder
<1>1. r \in Proc
  BY OpenerAssumption
<1>2. CASE pc[q] # "start"
  BY <1>1, <1>2, ThroughStays DEF InOrder
<1>3. CASE pc[q] = "start"
  <2>1. p = q /\ MayStart(p)
    BY <1>3 DEF Act, Places, StartWithout, LoadConfig, ReadConfig, WriteConfig, Open, Goto,
       CheckMeta, SetMeta, NextKey, ReadMeta, WriteMeta, FindKey, PublishKey, MarkRequired,
       AppendOnce, HasKey
  <2> QED BY <1>1, <2>1, ThroughStays DEF MayStart
<1> QED BY <1>2, <1>3

Described == IF MetaComplete THEN Complete ELSE Filling

LEMMA CompleteIs == MetaComplete <=> DOMAIN meta = Filled(4)
BY FilledIs DEF MetaComplete

(* Coming and going before the meta table leaves the table alone.            *)
LEMMA ConfigSteps ==
    ASSUME OpenInv, NEW p \in Proc,
           StartWithout(p) \/ LoadConfig(p) \/ ReadConfig(p) \/ WriteConfig(p)
    PROVE  Described'
<1>1. /\ UNCHANGED <<meta, events, read, next>>
      /\ \A q \in Proc \ {p} : pc'[q] = pc[q] /\ mine'[q] = mine[q]
      /\ pc'[p] \in {"failed", "write", "load", "check", "readMeta"}
      /\ pc[p] \in {"start", "write", "load"} /\ next[p] = 1
      /\ pc'[p] \in {"check", "readMeta"} => MayOpen(p)
  <2>1. /\ pc[p] \in {"start", "write", "load"}
        /\ UNCHANGED <<meta, events, read, next>>
    BY DEF StartWithout, LoadConfig, ReadConfig, WriteConfig, MayStart
  <2>2. next[p] = 1
    BY <2>1 DEF OpenInv, Places
  <2>3. /\ \A q \in Proc \ {p} : mine'[q] = mine[q]
    BY DEF StartWithout, LoadConfig, ReadConfig, WriteConfig, OpenInv, Places
  <2>4. /\ \A q \in Proc \ {p} : pc'[q] = pc[q]
        /\ pc'[p] \in {"failed", "write", "load", "check", "readMeta"}
        /\ pc'[p] \in {"check", "readMeta"} => MayOpen(p)
    BY DEF StartWithout, LoadConfig, ReadConfig, WriteConfig, Open, Goto, OpenInv, Places
  <2> QED BY <2>1, <2>2, <2>3, <2>4
<1>2. MetaComplete' <=> MetaComplete
  BY <1>1 DEF MetaComplete
<1>3. CASE MetaComplete
  <2>1. Complete
    BY <1>3 DEF OpenInv
  <2>2. RowsLinked'
    BY <1>1, <2>1 DEF Complete, RowsLinked
  <2> QED BY <1>1, <1>2, <1>3, <2>1, <2>2 DEF Complete, Described, SameMeta
<1>4. CASE ~MetaComplete
  <2>1. Filling
    BY <1>4 DEF OpenInv
  <2>2. Filling'
    <3>1. CASE pc'[p] \in {"failed", "write", "load"}
      <4>1. /\ \A q \in Proc : Live(q)' <=> Live(q)
            /\ \A q \in Proc : Live(q) => pc'[q] = pc[q] /\ mine'[q] = mine[q]
        BY <1>1, <3>1 DEF Live
      <4> QED BY <1>1, <2>1, <4>1 DEF Filling
    <3>2. CASE pc'[p] \in {"check", "readMeta"}
      <4>1. \A q \in Proc : ~Live(q)
        BY <1>1, <1>4, <3>2 DEF Live, MayOpen
      <4>2. DOMAIN meta = {} /\ next[p] - 1 = 0 /\ events = {}
        BY <1>1, <2>1, <4>1 DEF Filling
      <4>3. \A q \in Proc \ {p} : ~Live(q)'
        BY <1>1, <4>1 DEF Live
      <4> QED BY <1>1, <3>2, <4>2, <4>3, FilledIs DEF Filling
    <3> QED BY <1>1, <3>1, <3>2
  <2> QED BY <1>2, <1>4, <2>2 DEF Described
<1> QED BY <1>3, <1>4

(* One key is put where the process has come to.                             *)
LEMMA PutFills ==
    ASSUME OpenInv, ~MetaComplete, NEW p \in Proc, Live(p),
           Put(MetaKeys[next[p]], Fresh(MetaKeys[next[p]], mine[p].nonce)),
           next[p] \in 1 .. 4, next' = [next EXCEPT ![p] = @ + 1],
           UNCHANGED <<events, mine, read>>,
           \A q \in Proc \ {p} : pc'[q] = pc[q],
           IF next[p] = 4 THEN pc'[p] = "key"
                          ELSE \/ pc'[p] = "check"
                               \/ pc'[p] = "writeMeta" /\ pc[p] = "writeMeta"
    PROVE  Described'
<1> DEFINE n == next[p]
           k == MetaKeys[n]
<1>1. Filling
  BY DEF OpenInv
<1>2. /\ DOMAIN meta = Filled(n - 1)
      /\ \A j \in DOMAIN meta : meta[j] = Fresh(j, mine[p].nonce)
      /\ \A q \in Proc \ {p} : ~Live(q)
      /\ events = {}
      /\ pc[p] = "writeMeta" => DOMAIN read[p] = {}
  BY <1>1 DEF Filling
<1>3. /\ DOMAIN meta' = Filled(n)
      /\ \A j \in DOMAIN meta' : meta'[j] = Fresh(j, mine[p].nonce)
  BY <1>2, FilledIs DEF Put
<1>4. \A q \in Proc \ {p} : ~Live(q)'
  BY <1>2 DEF Live
<1>5. next'[p] = n + 1
  BY DEF OpenInv, Places
<1>6. CASE n = 4
  <2>1. MetaComplete'
    BY <1>3, <1>6, FilledIs, Keys DEF MetaComplete
  <2>2. {"genesis_nonce", "genesis_hash", "chain_head_hash", "last_seq"} \subseteq DOMAIN meta'
    <3>1. \A i \in 1 .. 4 : MetaKeys[i] \in Filled(4)
      BY DEF Filled
    <3> QED BY <3>1, <1>3, <1>6, Keys
  <2>3. /\ meta'.genesis_nonce = mine[p].nonce
        /\ meta'.genesis_hash = GenesisHash(mine[p].nonce)
        /\ meta'.chain_head_hash = GenesisHash(mine[p].nonce)
        /\ meta'.last_seq = 0
    BY <1>3, <2>2 DEF Fresh
  <2>4. RowsLinked'
    BY <1>2, <2>3, FS_EmptySet DEF RowsLinked
  <2>5. Complete'
    BY <1>4, <1>6, <2>3, <2>4 DEF Complete, Live
  <2> QED BY <2>1, <2>5 DEF Described
<1>7. CASE n # 4
  <2>1. ~MetaComplete'
    <3>1. DOMAIN meta' # Filled(4)
      <4>1. n + 1 \in 1 .. 4 /\ (n + 1) - 1 = n
        BY <1>7
      <4> QED BY <1>3, <4>1, FilledIs
    <3> QED BY <3>1, FilledIs, Keys DEF MetaComplete
  <2>2. Live(p)' /\ pc'[p] \in {"check", "writeMeta"}
    BY <1>7 DEF Live
  <2>3. (n + 1) - 1 = n
    OBVIOUS
  <2>4. Filling'
    BY <1>2, <1>3, <1>4, <1>5, <1>7, <2>2, <2>3 DEF Filling
  <2> QED BY <2>1, <2>4 DEF Described
<1> QED BY <1>6, <1>7

(* Filling the table, one statement at a time (ensureSchema).                *)
LEMMA FillSteps ==
    ASSUME OpenInv, ~MetaComplete, NEW p \in Proc,
           CheckMeta(p) \/ SetMeta(p) \/ ReadMeta(p) \/ WriteMeta(p)
    PROVE  Described'
<1>1. Filling /\ Places
  BY DEF OpenInv
<1>2. /\ pc[p] \in {"check", "set", "readMeta", "writeMeta"} /\ Live(p)
      /\ next[p] \in 1 .. 4
      /\ \A q \in Proc \ {p} : ~Live(q)
      /\ DOMAIN meta = Filled(next[p] - 1)
      /\ MetaKeys[next[p]] \notin DOMAIN meta
  <2>1. pc[p] \in {"check", "set", "readMeta", "writeMeta"} /\ Live(p)
    BY DEF CheckMeta, SetMeta, ReadMeta, WriteMeta, Live
  <2> QED BY <1>1, <2>1, FilledIs DEF Places, Filling
<1>3. CASE CheckMeta(p)
  <2>1. /\ UNCHANGED <<meta, events, mine, read, next>>
        /\ \A q \in Proc \ {p} : pc'[q] = pc[q]
        /\ pc'[p] = "set"
    BY <1>1, <1>2, <1>3 DEF CheckMeta, Goto, Places
  <2>2. Filling'
    BY <1>1, <1>2, <2>1 DEF Filling, Live
  <2> QED BY <2>1, <2>2 DEF Described, MetaComplete
<1>4. CASE SetMeta(p)
  <2>1. IF next[p] = 4 THEN pc'[p] = "key" ELSE pc'[p] = "check"
    BY <1>1, <1>4, Keys DEF SetMeta, NextKey, Goto, Open, Places
  <2>2. \A q \in Proc \ {p} : pc'[q] = pc[q]
    BY <1>1, <1>4 DEF SetMeta, NextKey, Goto, Open, Places
  <2> QED BY <1>2, <1>4, <2>1, <2>2, PutFills DEF SetMeta, NextKey
<1>5. CASE ReadMeta(p)
  <2>1. next[p] = 1 /\ next[p] - 1 = 0
    BY <1>1, <1>5 DEF ReadMeta, Places
  <2>2. DOMAIN meta = {}
    BY <1>2, <2>1, FilledIs
  <2>3. /\ UNCHANGED <<meta, events, next>>
        /\ \A q \in Proc \ {p} : pc'[q] = pc[q] /\ read'[q] = read[q]
        /\ pc'[p] = "writeMeta" /\ read'[p] = meta
    BY <1>1, <1>5 DEF ReadMeta, Goto, Places
  <2>4. Filling'
    BY <1>1, <1>2, <2>2, <2>3 DEF Filling, Live
  <2> QED BY <2>3, <2>4 DEF Described, MetaComplete
<1>6. CASE WriteMeta(p)
  <2>1. DOMAIN read[p] = {}
    BY <1>1, <1>2, <1>6 DEF Filling, WriteMeta
  <2>2. Put(MetaKeys[next[p]], Fresh(MetaKeys[next[p]], mine[p].nonce))
    BY <1>6, <2>1 DEF WriteMeta
  <2>3. \A q \in Proc \ {p} : pc'[q] = pc[q]
    BY <1>1, <1>6 DEF WriteMeta, Goto, Places
  <2>4. IF next[p] = 4 THEN pc'[p] = "key" ELSE pc'[p] = "writeMeta" /\ pc[p] = "writeMeta"
    BY <1>1, <1>6, Keys DEF WriteMeta, Goto, Places
  <2> QED BY <1>2, <1>6, <2>2, <2>3, <2>4, PutFills DEF WriteMeta
<1> QED BY <1>3, <1>4, <1>5, <1>6

(* Once the table is complete every opener leaves it as it is.               *)
LEMMA OpenSteps ==
    ASSUME OpenInv, MetaComplete, NEW p \in Proc,
           CheckMeta(p) \/ SetMeta(p) \/ ReadMeta(p) \/ WriteMeta(p)
    PROVE  Described'
<1>1. Complete /\ Places
  BY DEF OpenInv
<1>2. \A i \in 1 .. 4 : MetaKeys[i] \in DOMAIN meta
  BY Keys DEF MetaComplete
<1>3. {"genesis_nonce", "genesis_hash", "chain_head_hash", "last_seq"} \subseteq DOMAIN meta
  BY <1>2, Keys
<1>4. next[p] \in 1 .. 4
  BY <1>1 DEF Places, CheckMeta, SetMeta, ReadMeta, WriteMeta
<1>5. /\ SameMeta(meta', meta) /\ events' = events
      /\ \A q \in Proc \ {p} : pc'[q] = pc[q] /\ read'[q] = read[q]
      /\ pc'[p] # "set"
      /\ pc'[p] = "writeMeta" => SameMeta(read'[p], meta)
  <2>1. CASE CheckMeta(p)
    BY <1>1, <1>2, <1>4, <2>1 DEF CheckMeta, NextKey, Goto, Open, Places, SameMeta
  <2>2. ~SetMeta(p)
    BY <1>1 DEF Complete, SetMeta
  <2>3. CASE ReadMeta(p)
    BY <1>1, <2>3 DEF ReadMeta, Goto, Places, SameMeta
  <2>4. CASE WriteMeta(p)
    <3>1. SameMeta(read[p], meta)
      BY <1>1, <2>4 DEF Complete, WriteMeta
    <3>2. SameMeta(meta', meta)
      BY <1>2, <1>4, <2>4, <3>1 DEF WriteMeta, Put, SameMeta
    <3>3. /\ \A q \in Proc \ {p} : pc'[q] = pc[q]
          /\ pc'[p] # "set"
      BY <1>1, <2>4 DEF WriteMeta, Goto, Places
    <3> QED BY <2>4, <3>1, <3>2, <3>3 DEF WriteMeta
  <2> QED BY <2>1, <2>2, <2>3, <2>4
<1>6. MetaComplete'
  BY <1>5 DEF MetaComplete, SameMeta
<1>7. /\ meta'.genesis_nonce = meta.genesis_nonce /\ meta'.genesis_hash = meta.genesis_hash
      /\ meta'.chain_head_hash = meta.chain_head_hash /\ meta'.last_seq = meta.last_seq
  BY <1>3, <1>5 DEF SameMeta
<1>8. RowsLinked'
  BY <1>1, <1>5, <1>7 DEF Complete, RowsLinked
<1>9. \A q \in Proc : pc'[q] = "writeMeta" => SameMeta(read'[q], meta')
  BY <1>1, <1>5 DEF Complete, SameMeta
<1>10. Complete'
  BY <1>1, <1>5, <1>7, <1>8, <1>9 DEF Complete
<1> QED BY <1>6, <1>10 DEF Described

(* A row is appended when the table is complete and no plugin is between its *)
(* read of the table and its last write to it.                               *)
LEMMA AppendStep ==
    ASSUME PluginOpensFirst, OpenInv, NEW p \in Proc, AppendOnce(p)
    PROVE  Described'
<1>1. pc[p] = "ready" /\ Kind[p] # "init"
  BY DEF AppendOnce
<1>2. MetaComplete /\ Complete /\ Places /\ InOrder
  BY <1>1 DEF OpenInv, Filling, Live
<1>3. {"genesis_nonce", "genesis_hash", "chain_head_hash", "last_seq"} \subseteq DOMAIN meta
  BY <1>2, FilledIs, Keys DEF MetaComplete
<1>4. \A q \in Proc : pc[q] # "writeMeta"
  <2> SUFFICES ASSUME NEW q \in Proc, pc[q] = "writeMeta" PROVE FALSE
    OBVIOUS
  <2>1. q # p /\ Kind[q] = "plugin"
    BY <1>1, <1>2 DEF Places
  <2>2. q \in After[p]
    BY <1>1, <2>1 DEF PluginOpensFirst
  <2>3. Through(q)
    BY <1>1, <1>2, <2>2 DEF InOrder
  <2> QED BY <2>3 DEF Through
<1> DEFINE row == [seq |-> meta.last_seq + 1, prev |-> meta.chain_head_hash, by |-> p]
<1>5. RowsLinked /\ meta.last_seq \in Nat /\ \A r \in events : r.seq \in 1 .. meta.last_seq
  BY <1>2 DEF Complete, RowsLinked
<1>6. \A r \in events : r.seq # row.seq
  BY <1>5
<1>7. /\ events' = events \cup {row}
      /\ meta' = [meta EXCEPT !.last_seq = row.seq, !.chain_head_hash = row]
      /\ pc' = pc
  BY <1>6 DEF AppendOnce
<1>8. /\ DOMAIN meta' = DOMAIN meta
      /\ meta'.genesis_nonce = meta.genesis_nonce /\ meta'.genesis_hash = meta.genesis_hash
      /\ meta'.last_seq = meta.last_seq + 1 /\ meta'.chain_head_hash = row
  BY <1>3, <1>7
<1>9. MetaComplete'
  BY <1>2, <1>8 DEF MetaComplete
<1>10. row.seq = meta.last_seq + 1 /\ row.prev = meta.chain_head_hash /\ row \notin events
  BY <1>6
<1> HIDE DEF row
<1>11. RowsLinked'
  <2>1. IsFiniteSet(events') /\ Cardinality(events') = meta.last_seq + 1
    BY <1>5, <1>7, <1>10, FS_AddElement DEF RowsLinked
  <2>2. \A r \in events' : r = row \/ (r \in events /\ r.seq \in 1 .. meta.last_seq)
    BY <1>5, <1>7
  <2>3. /\ \A r \in events' : r.seq \in 1 .. meta'.last_seq
        /\ \A r, s \in events' : r.seq = s.seq => r = s
    BY <1>5, <1>8, <1>10, <2>2 DEF RowsLinked
  <2>4. \A i \in 1 .. meta'.last_seq : \E r \in events' : r.seq = i
    BY <1>5, <1>7, <1>8, <1>10 DEF RowsLinked
  <2>5. \A r \in events' : r.seq = 1 => r.prev = meta'.genesis_hash
    BY <1>5, <1>8, <1>10, <2>2 DEF RowsLinked
  <2>6. \A r, s \in events' : s.seq = r.seq + 1 => s.prev = r
    <3> SUFFICES ASSUME NEW r \in events', NEW s \in events', s.seq = r.seq + 1
                 PROVE  s.prev = r
      OBVIOUS
    <3>1. r # row
      BY <1>5, <1>10, <2>2
    <3>2. CASE s = row
      BY <1>5, <1>10, <2>2, <3>1, <3>2 DEF RowsLinked
    <3>3. CASE s # row
      BY <1>5, <2>2, <3>1, <3>3 DEF RowsLinked
    <3> QED BY <3>2, <3>3
  <2>7. \A r \in events' : r.seq = meta'.last_seq => meta'.chain_head_hash = r
    BY <1>5, <1>8, <1>10, <2>2
  <2>8. meta'.last_seq \in Nat /\ meta'.last_seq # 0
    BY <1>5, <1>8
  <2> QED BY <1>8, <2>1, <2>3, <2>4, <2>5, <2>6, <2>7, <2>8 DEF RowsLinked
<1>12. Complete'
  BY <1>2, <1>4, <1>7, <1>8, <1>11 DEF Complete
<1> QED BY <1>9, <1>12 DEF Described

(* What comes after the meta table happens when it is complete.              *)
LEMMA KeyAndMark ==
    ASSUME OpenInv, NEW p \in Proc, FindKey(p) \/ PublishKey(p) \/ MarkRequired(p)
    PROVE  Described'
<1>1. pc[p] \in {"key", "publish", "mark"}
  BY DEF FindKey, PublishKey, MarkRequired
<1>2. MetaComplete /\ Complete /\ Places
  BY <1>1 DEF OpenInv, Filling, Live
<1>3. /\ UNCHANGED <<meta, events, read>>
      /\ \A q \in Proc \ {p} : pc'[q] = pc[q]
      /\ pc'[p] \in {"publish", "mark", "ready"}
  BY <1>2 DEF FindKey, PublishKey, MarkRequired, HasKey, Goto, Places
<1>4. RowsLinked'
  BY <1>2, <1>3 DEF Complete, RowsLinked
<1> QED BY <1>2, <1>3, <1>4 DEF Described, Complete, MetaComplete, SameMeta

LEMMA OpenInit == Init => OpenInv
<1> SUFFICES ASSUME Init PROVE OpenInv
  OBVIOUS
<1>1. Places /\ InOrder
  BY DEF Init, Places, InOrder, Labels
<1>2. ~MetaComplete
  BY FilledIs, Keys DEF Init, MetaComplete
<1>3. Filling
  BY DEF Init, Filling, Live
<1> QED BY <1>1, <1>2, <1>3 DEF OpenInv

LEMMA OpenNext == PluginOpensFirst /\ OpenInv /\ [Next]_vars => OpenInv'
<1> SUFFICES ASSUME PluginOpensFirst, OpenInv, [Next]_vars PROVE OpenInv'
  OBVIOUS
<1>1. CASE UNCHANGED vars
  BY <1>1 DEF vars, OpenInv, Places, InOrder, Through, MetaComplete, Complete, RowsLinked,
              SameMeta, Filling, Live
<1>2. ASSUME NEW p \in Proc, Act(p) PROVE OpenInv'
  <2>1. Places' /\ InOrder'
    BY <1>2, PlacesStep, InOrderStep DEF OpenInv
  <2>2. Described'
    BY <1>2, ConfigSteps, FillSteps, OpenSteps, KeyAndMark, AppendStep DEF Act
  <2> QED BY <2>1, <2>2 DEF OpenInv, Described
<1> QED BY <1>1, <1>2 DEF Next, Act

(* Of a complete table with linked rows, StoreIsSound is what the invariant  *)
(* says with Row(k) for the one row numbered k.                              *)
LEMMA OpenInvSuffices == OpenInv => StoreIsSound
<1> SUFFICES ASSUME OpenInv, Opened PROVE StoreIsSound
  BY DEF StoreIsSound
<1>1. Complete
  BY DEF OpenInv, Opened, Filling, Live
<1>2. /\ RowsLinked /\ meta.last_seq \in Nat /\ Cardinality(events) = meta.last_seq
      /\ meta.genesis_hash = GenesisHash(meta.genesis_nonce)
  BY <1>1 DEF Complete, RowsLinked
<1>3. ASSUME NEW i \in 1 .. meta.last_seq PROVE Row(i) \in events /\ Row(i).seq = i
  BY <1>2 DEF RowsLinked, Row
<1>4. {r.seq : r \in events} = 1 .. meta.last_seq
  BY <1>2 DEF RowsLinked
<1>5. meta.chain_head_hash = IF meta.last_seq = 0 THEN meta.genesis_hash ELSE Row(meta.last_seq)
  BY <1>2, <1>3 DEF RowsLinked
<1>6. ASSUME NEW k \in 1 .. meta.last_seq
      PROVE  Row(k).prev = IF k - 1 = 0 THEN meta.genesis_hash ELSE Row(k - 1)
  <2>1. CASE k = 1
    BY <1>2, <1>3, <2>1 DEF RowsLinked
  <2>2. CASE k # 1
    <3>1. k - 1 \in 1 .. meta.last_seq /\ k = (k - 1) + 1 /\ k - 1 # 0
      BY <1>2, <2>2
    <3> QED BY <1>2, <1>3, <3>1 DEF RowsLinked
  <2> QED BY <2>1, <2>2
<1> QED BY <1>2, <1>4, <1>5, <1>6 DEF StoreIsSound

(* Once the store has been opened its meta table describes it, whoever opens *)
(* it later with whatever nonce (ensureSchema of store.ts and of             *)
(* ingest-client.js), when the plugin opens before anybody appends.          *)
THEOREM StoreStaysSound == PluginOpensFirst /\ Spec => []StoreIsSound
<1> SUFFICES ASSUME PluginOpensFirst PROVE Spec => []StoreIsSound
  OBVIOUS
<1>1. OpenInv /\ [Next]_vars => OpenInv'
  BY OpenNext
<1> QED BY OpenInit, <1>1, OpenInvSuffices, PTL DEF Spec
-------------------------------------------------------------------------------
(* A psy init at work has in hand what the file says, or the file is not     *)
(* there yet, unless another init's write to the file has passed it by: what *)
(* it writes back is what it read.                                           *)
InHand ==
    \A p \in Proc : Kind[p] = "init" =>
       /\ mine[p] \in ConfigSet
       /\ p \notin stale =>
          /\ pc[p] = "write" => config \in {NoConfig, mine[p]}
          /\ pc[p] \in {"load", "check", "set", "key", "publish", "mark"} => config = mine[p]

ConfigInv == Places /\ InHand /\ config \in ConfigSet \cup {NoConfig}

Kept == config # NoConfig => /\ config'.nonce = config.nonce
                             /\ config.seal = "required" => config'.seal = "required"

Written(p) == pc[p] \in {"write", "mark"} /\ pc'[p] # pc[p]

(* Each step keeps the config of the inits at work in their hands, and only  *)
(* an init that was passed by can do worse than harden the file.             *)
LEMMA ConfigStep ==
    ASSUME ConfigInv, NEW p \in Proc, Act(p)
    PROVE  /\ InHand' /\ config' \in ConfigSet \cup {NoConfig}
           /\ Kept \/ (p \in stale /\ Written(p))
<1> USE OpenerAssumption
<1>1. Places /\ InHand /\ config \in ConfigSet \cup {NoConfig}
  BY DEF ConfigInv, InHand
<1>2. CASE StartWithout(p) \/ FindKey(p) \/ PublishKey(p) \/ AppendOnce(p)
  <2>1. /\ UNCHANGED <<config, mine, stale>>
        /\ \A q \in Proc \ {p} : pc'[q] = pc[q]
        /\ Kind[p] = "init" => \/ pc[p] \in {"key", "publish"}
                               \/ pc'[p] = "ready"
    BY <1>1, <1>2 DEF StartWithout, FindKey, PublishKey, HasKey, AppendOnce, Goto, Open, Places
  <2> QED BY <1>1, <2>1 DEF InHand, Kept
<1>3. CASE CheckMeta(p) \/ SetMeta(p) \/ WriteMeta(p)
  <2>1. /\ UNCHANGED <<config, mine, stale>>
        /\ \A q \in Proc \ {p} : pc'[q] = pc[q]
        /\ Kind[p] = "init" => pc[p] \in {"check", "set"} /\ pc'[p] \in {"check", "set", "key"}
    BY <1>1, <1>3 DEF CheckMeta, SetMeta, WriteMeta, NextKey, Goto, Open, Places
  <2> QED BY <1>1, <2>1 DEF InHand, Kept
<1>4. CASE LoadConfig(p)
  <2>1. CASE config = NoConfig
    <3>1. /\ UNCHANGED <<config, mine>> /\ pc' = [pc EXCEPT ![p] = "failed"]
          /\ stale' = stale \ {p}
      BY <1>4, <2>1 DEF LoadConfig, Goto
    <3> QED BY <1>1, <3>1 DEF InHand, Kept, Places
  <2>2. CASE config # NoConfig
    <3>1. /\ config' = config /\ mine' = [mine EXCEPT ![p] = config] /\ config \in ConfigSet
          /\ stale' = stale \ {p}
      BY <1>1, <1>4, <2>2 DEF LoadConfig
    <3>2. /\ \A q \in Proc \ {p} : pc'[q] = pc[q] /\ mine'[q] = mine[q]
          /\ pc'[p] \in {"check", "readMeta"} /\ mine'[p] = config
      BY <1>1, <1>4, <2>2, <3>1 DEF LoadConfig, Open, Goto, Places
    <3> QED BY <1>1, <3>1, <3>2 DEF InHand, Kept
  <2> QED BY <2>1, <2>2
<1>5. CASE ReadConfig(p)
  <2>1. /\ config' = config /\ pc' = [pc EXCEPT ![p] = "write"] /\ stale' = stale \ {p}
        /\ IF config = NoConfig THEN mine' = mine ELSE mine' = [mine EXCEPT ![p] = config]
    BY <1>5 DEF ReadConfig, Goto, Normalized
  <2> QED BY <1>1, <2>1 DEF InHand, Kept, Places
<1>6. CASE WriteConfig(p)
  <2>1. /\ config' = mine[p] /\ mine' = mine /\ pc' = [pc EXCEPT ![p] = "load"]
        /\ Kind[p] = "init" /\ pc[p] = "write" /\ stale' = stale \cup (Proc \ {p})
    BY <1>1, <1>6 DEF WriteConfig, Goto, Places
  <2>2. mine[p] \in ConfigSet /\ (p \notin stale => config \in {NoConfig, mine[p]})
    BY <1>1, <2>1 DEF InHand
  <2>3. Kept \/ (p \in stale /\ Written(p))
    BY <1>1, <2>1, <2>2 DEF Kept, Written, Places
  <2>4. InHand'
    BY <1>1, <2>1, <2>2 DEF InHand, Places
  <2> QED BY <2>1, <2>2, <2>3, <2>4
<1>7. CASE ReadMeta(p)
  <2>1. /\ config' = config /\ stale' = stale /\ Kind[p] # "init"
        /\ \A q \in Proc \ {p} : pc'[q] = pc[q] /\ mine'[q] = mine[q]
    BY <1>1, <1>7 DEF ReadMeta, Goto, Places
  <2> QED BY <1>1, <2>1 DEF InHand, Kept
<1>8. CASE MarkRequired(p) /\ ~made[p]
  <2>1. UNCHANGED <<config, mine, stale>> /\ pc' = [pc EXCEPT ![p] = "ready"]
    BY <1>8 DEF MarkRequired, Goto
  <2> QED BY <1>1, <2>1 DEF InHand, Kept, Places
<1>9. CASE MarkRequired(p) /\ made[p]
  <2>1. /\ config' = [mine[p] EXCEPT !.seal = "required"]
        /\ mine' = mine /\ pc' = [pc EXCEPT ![p] = "ready"]
        /\ Kind[p] = "init" /\ pc[p] = "mark" /\ stale' = stale \cup (Proc \ {p})
    BY <1>1, <1>9 DEF MarkRequired, Goto, Places
  <2>2. mine[p] \in ConfigSet /\ (p \notin stale => config = mine[p])
    BY <1>1, <2>1 DEF InHand
  <2>3. /\ config' \in ConfigSet
        /\ config'.nonce = mine[p].nonce /\ config'.seal = "required"
    BY <2>1, <2>2 DEF ConfigSet
  <2>4. Kept \/ (p \in stale /\ Written(p))
    BY <1>1, <2>1, <2>2, <2>3 DEF Kept, Written, Places
  <2>5. InHand'
    BY <1>1, <2>1, <2>2 DEF InHand, Places
  <2> QED BY <2>3, <2>4, <2>5
<1> QED BY <1>2, <1>3, <1>4, <1>5, <1>6, <1>7, <1>8, <1>9 DEF Act

(* Running psy init again, with hosts and any number of other inits at work, *)
(* keeps the nonce and never takes the required marker away (initConfig      *)
(* reads the file and writes it back later), but by the write of an init     *)
(* that another one's write has passed by since it read the file.            *)
THEOREM ConfigHardens == Spec => ConfigOnlyHardens
<1>1. Init => ConfigInv
  BY DEF Init, ConfigInv, Places, Labels, InHand, ConfigSet
<1>2. ConfigInv /\ [Next]_vars =>
         /\ ConfigInv'
         /\ [config # NoConfig =>
                \/ /\ config'.nonce = config.nonce
                   /\ config.seal = "required" => config'.seal = "required"
                \/ \E p \in stale : pc[p] \in {"write", "mark"} /\ pc'[p] # pc[p]]_config
  <2> SUFFICES ASSUME ConfigInv, [Next]_vars
               PROVE  /\ ConfigInv'
                      /\ config' = config \/ Kept \/ \E p \in stale : Written(p)
    BY DEF Kept, Written
  <2>1. CASE UNCHANGED vars
    BY <2>1 DEF vars, ConfigInv, Places, InHand
  <2>2. ASSUME NEW p \in Proc, Act(p)
        PROVE  ConfigInv' /\ (Kept \/ \E q \in stale : Written(q))
    BY <2>2, ConfigStep, PlacesStep DEF ConfigInv
  <2> QED BY <2>1, <2>2 DEF Next, Act
<1> QED BY <1>1, <1>2, PTL DEF Spec, ConfigOnlyHardens
-------------------------------------------------------------------------------
(* However the plugin opens, the rows have no gap, and neither the table nor *)
(* what a plugin holds of it is ahead of them.                               *)
Behind(M) == "last_seq" \in DOMAIN M => M.last_seq \in 0 .. Cardinality(events)

Numbered == /\ IsFiniteSet(events) /\ Cardinality(events) \in 0 .. MaxRows
            /\ {r.seq : r \in events} = 1 .. Cardinality(events)
            /\ Behind(meta) /\ \A p \in Proc : Behind(read[p])

(* The keys a process is past are there.                                     *)
Passed == \A p \in Proc :
    /\ Filled(next[p] - 1) \subseteq DOMAIN meta
    /\ pc[p] \in {"key", "publish", "mark", "ready"} => next[p] = 5

(* The meta table, or a plugin's copy of it, holds values of their kinds.    *)
MetaOK(M) ==
    /\ DOMAIN M \subseteq Filled(4)
    /\ "genesis_nonce" \in DOMAIN M => M.genesis_nonce \in Proc
    /\ "genesis_hash" \in DOMAIN M => M.genesis_hash \in {GenesisHash(p) : p \in Proc}
    /\ "chain_head_hash" \in DOMAIN M =>
          M.chain_head_hash \in {GenesisHash(p) : p \in Proc} \cup events
    /\ "last_seq" \in DOMAIN M => M.last_seq \in 0 .. MaxRows

RestOK ==
    /\ config \in ConfigSet \cup {NoConfig} /\ mine \in [Proc -> ConfigSet]
    /\ keyFile \in Proc \cup {NoKey} /\ key \in [Proc -> Proc \cup {NoKey}]
    /\ \A r \in events : r.seq \in 1 .. MaxRows /\ r.by \in Proc
    /\ made \in [Proc -> BOOLEAN] /\ stale \subseteq Proc

TypeInv == /\ Places /\ Passed /\ Numbered /\ RestOK
           /\ MetaOK(meta) /\ \A p \in Proc : MetaOK(read[p])

LEMMA TypeInvSuffices == TypeInv => TypeOK
<1> SUFFICES ASSUME TypeInv PROVE TypeOK
  OBVIOUS
<1>1. Filled(4) = {"genesis_nonce", "genesis_hash", "chain_head_hash", "last_seq"}
  BY Keys, FilledIs
<1>2. ASSUME NEW M \in {meta} \cup {read[p] : p \in Proc}, NEW k \in DOMAIN M
      PROVE  CASE k = "genesis_nonce"   -> M[k] \in Proc
               [] k = "genesis_hash"    -> M[k] \in {GenesisHash(p) : p \in Proc}
               [] k = "chain_head_hash" -> M[k] \in {GenesisHash(p) : p \in Proc} \cup events
               [] k = "last_seq"        -> M[k] \in 0 .. MaxRows
  <2>1. MetaOK(M)
    BY DEF TypeInv
  <2>2. k \in {"genesis_nonce", "genesis_hash", "chain_head_hash", "last_seq"}
    BY <1>1, <2>1 DEF MetaOK
  <2> QED BY <2>1, <2>2 DEF MetaOK
<1>3. next \in [Proc -> 1 .. Len(MetaKeys) + 1]
  BY Keys DEF TypeInv, Places
<1> QED BY <1>2, <1>3 DEF TypeInv, RestOK, TypeOK

LEMMA FreshOK ==
    ASSUME NEW nonce \in Proc, NEW k
    PROVE  /\ k = "genesis_nonce" => Fresh(k, nonce) = nonce
           /\ k \in {"genesis_hash", "chain_head_hash"} => Fresh(k, nonce) = GenesisHash(nonce)
           /\ k = "last_seq" => Fresh(k, nonce) = 0
BY DEF Fresh

(* Putting one more key, with a fresh value or one read before.              *)
LEMMA PutOK ==
    ASSUME TypeInv, NEW p \in Proc, NEW v, next[p] \in 1 .. 4,
           Put(MetaKeys[next[p]], v),
           \/ v = Fresh(MetaKeys[next[p]], mine[p].nonce)
           \/ MetaKeys[next[p]] \in DOMAIN read[p] /\ v = read[p][MetaKeys[next[p]]],
           UNCHANGED events
    PROVE  /\ MetaOK(meta)' /\ Behind(meta)'
           /\ DOMAIN meta' = DOMAIN meta \cup {MetaKeys[next[p]]}
<1> DEFINE k == MetaKeys[next[p]]
<1>1. /\ mine[p].nonce \in Proc /\ MetaOK(meta) /\ MetaOK(read[p])
      /\ Behind(meta) /\ Behind(read[p]) /\ Cardinality(events) \in Nat /\ MaxRows \in Nat
  BY OpenerAssumption DEF TypeInv, RestOK, ConfigSet, Numbered
<1>2. k \in Filled(4)
  BY DEF Filled
<1>3. /\ DOMAIN meta' = DOMAIN meta \cup {k} /\ meta'[k] = v
      /\ \A j \in DOMAIN meta \ {k} : meta'[j] = meta[j]
  BY DEF Put
<1>4. Behind(meta)'
  BY <1>1, <1>3, FreshOK DEF Behind
<1>5. MetaOK(meta)'
  BY <1>1, <1>2, <1>3, FreshOK DEF MetaOK
<1> QED BY <1>3, <1>4, <1>5

LEMMA PassedOn ==
    ASSUME TypeInv, NEW p \in Proc, next[p] \in 1 .. 4,
           DOMAIN meta \cup {MetaKeys[next[p]]} \subseteq DOMAIN meta',
           next' = [next EXCEPT ![p] = @ + 1]
    PROVE  \A q \in Proc : Filled(next'[q] - 1) \subseteq DOMAIN meta'
<1>1. Places /\ Passed
  BY DEF TypeInv
<1>2. next'[p] - 1 = next[p] /\ \A q \in Proc \ {p} : next'[q] = next[q]
  BY <1>1 DEF Places
<1>3. Filled(next[p]) \subseteq DOMAIN meta'
  BY <1>1, FilledIs DEF Passed
<1> QED BY <1>1, <1>2, <1>3 DEF Passed

(* Nothing but an append makes rows, nothing but an opening writes the table.*)
LEMMA TypeFrame ==
    ASSUME TypeInv, Places', RestOK', UNCHANGED <<meta, events, read, next>>,
           \A p \in Proc : pc'[p] \in {"key", "publish", "mark", "ready"} => next[p] = 5
    PROVE  TypeInv'
BY DEF TypeInv, Passed, Numbered, Behind, MetaOK

LEMMA Made ==
    ASSUME RestOK, NEW p \in Proc
    PROVE  [made EXCEPT ![p] = TRUE] \in [Proc -> BOOLEAN] /\ made \in [Proc -> BOOLEAN]
BY Zenon DEF RestOK

LEMMA StaleStep ==
    ASSUME NEW p \in Proc, Act(p), stale \subseteq Proc
    PROVE  stale' \subseteq Proc
BY DEF Act, StartWithout, LoadConfig, ReadConfig, WriteConfig, CheckMeta, SetMeta, ReadMeta,
       WriteMeta, FindKey, PublishKey, MarkRequired, AppendOnce

LEMMA TypeStep ==
    ASSUME TypeInv, NEW p \in Proc, Act(p)
    PROVE  TypeInv'
<1> USE OpenerAssumption
<1>1. Places /\ Passed /\ RestOK /\ Numbered /\ Places' /\ stale' \subseteq Proc
  BY PlacesStep, StaleStep DEF TypeInv, RestOK
<1>2. CASE StartWithout(p) \/ LoadConfig(p) \/ ReadConfig(p) \/ WriteConfig(p)
  <2>1. /\ UNCHANGED <<meta, events, read, next, keyFile, key>>
        /\ \A q \in Proc \ {p} : pc'[q] = pc[q]
        /\ pc'[p] \notin {"key", "publish", "mark", "ready"}
    BY <1>1, <1>2 DEF StartWithout, LoadConfig, ReadConfig, WriteConfig, Open, Goto, Places
  <2>2. /\ config' \in ConfigSet \cup {NoConfig} /\ mine' \in [Proc -> ConfigSet]
        /\ made' \in [Proc -> BOOLEAN]
    <3>1. CASE StartWithout(p)
      BY <1>1, <3>1 DEF RestOK, StartWithout
    <3>2. CASE LoadConfig(p)
      BY <1>1, <3>2 DEF RestOK, LoadConfig
    <3>3. CASE ReadConfig(p)
      <4>1. made' \in [Proc -> BOOLEAN]
        <5>1. made' = made \/ made' = [made EXCEPT ![p] = TRUE]
          BY <3>3 DEF ReadConfig
        <5> QED BY <1>1, <5>1, Made
      <4> QED BY <1>1, <3>3, <4>1 DEF RestOK, ReadConfig, Normalized
    <3>4. CASE WriteConfig(p)
      BY <1>1, <3>4 DEF RestOK, WriteConfig
    <3> QED BY <1>2, <3>1, <3>2, <3>3, <3>4
  <2> QED BY <1>1, <2>1, <2>2, TypeFrame DEF RestOK, Passed
<1>3. CASE CheckMeta(p)
  <2>1. /\ UNCHANGED <<config, meta, events, keyFile, mine, read, key, made>>
        /\ pc[p] = "check" /\ next[p] \in 1 .. 4
    BY <1>1, <1>3 DEF CheckMeta, Places
  <2>2. RestOK'
    BY <1>1, <2>1 DEF RestOK
  <2>3. CASE MetaKeys[next[p]] \in DOMAIN meta
    <3>1. next' = [next EXCEPT ![p] = @ + 1]
      BY <1>3, <2>3 DEF CheckMeta, NextKey
    <3>2. \A q \in Proc : Filled(next'[q] - 1) \subseteq DOMAIN meta'
      BY <2>1, <2>3, <3>1, PassedOn
    <3>3. \A q \in Proc : pc'[q] \in {"key", "publish", "mark", "ready"} => next'[q] = 5
      <4>1. \A q \in Proc \ {p} : pc'[q] = pc[q] /\ next'[q] = next[q]
        BY <1>1, <1>3, <2>3 DEF CheckMeta, NextKey, Goto, Open, Places
      <4>2. pc'[p] \in {"key", "publish", "mark", "ready"} => next'[p] = 5
        BY <1>1, <1>3, <2>1, <2>3, Keys DEF CheckMeta, NextKey, Goto, Open, Places
      <4> QED BY <1>1, <4>1, <4>2 DEF Passed
    <3> QED BY <1>1, <2>1, <2>2, <3>2, <3>3 DEF TypeInv, Passed, Numbered, Behind, MetaOK
  <2>4. CASE MetaKeys[next[p]] \notin DOMAIN meta
    <3>1. next' = next /\ pc' = [pc EXCEPT ![p] = "set"]
      BY <1>3, <2>4 DEF CheckMeta, Goto
    <3> QED BY <1>1, <2>1, <2>2, <3>1, TypeFrame DEF Passed, Places
  <2> QED BY <2>3, <2>4
<1>4. CASE SetMeta(p) \/ WriteMeta(p)
  <2>1. /\ UNCHANGED <<config, events, keyFile, mine, read, key, made>>
        /\ next[p] \in 1 .. 4 /\ next' = [next EXCEPT ![p] = @ + 1]
        /\ \A q \in Proc \ {p} : pc'[q] = pc[q] /\ next'[q] = next[q]
        /\ pc'[p] \in {"key", "publish", "mark", "ready"} => next'[p] = 5
    BY <1>1, <1>4, Keys DEF SetMeta, WriteMeta, NextKey, Goto, Open, Places
  <2>2. PICK v : /\ Put(MetaKeys[next[p]], v)
                 /\ \/ v = Fresh(MetaKeys[next[p]], mine[p].nonce)
                    \/ MetaKeys[next[p]] \in DOMAIN read[p] /\ v = read[p][MetaKeys[next[p]]]
    BY <1>4 DEF SetMeta, WriteMeta
  <2>3. /\ MetaOK(meta)' /\ Behind(meta)'
        /\ DOMAIN meta' = DOMAIN meta \cup {MetaKeys[next[p]]}
    BY <2>1, <2>2, PutOK
  <2>4. \A q \in Proc : Filled(next'[q] - 1) \subseteq DOMAIN meta'
    BY <2>1, <2>3, PassedOn
  <2>5. RestOK' /\ Passed'
    BY <1>1, <2>1, <2>4 DEF RestOK, Passed
  <2>6. \A q \in Proc : MetaOK(read[q])' /\ Behind(read[q])'
    BY <1>1, <2>1 DEF TypeInv, MetaOK, Numbered, Behind
  <2> QED BY <1>1, <2>1, <2>3, <2>5, <2>6 DEF TypeInv, Numbered
<1>5. CASE ReadMeta(p)
  <2>1. /\ UNCHANGED <<config, meta, events, keyFile, next, key, made>>
        /\ \A q \in Proc \ {p} : pc'[q] = pc[q] /\ read'[q] = read[q]
        /\ read'[p] = meta /\ pc'[p] = "writeMeta"
    BY <1>1, <1>5 DEF ReadMeta, Goto, Places
  <2>2. mine' \in [Proc -> ConfigSet]
    BY <1>1, <1>5 DEF ReadMeta, RestOK, ConfigSet, TypeInv, MetaOK
  <2>3. RestOK' /\ Passed'
    BY <1>1, <2>1, <2>2 DEF RestOK, Passed
  <2>4. \A q \in Proc : MetaOK(read[q])' /\ Behind(read[q])'
    BY <1>1, <2>1 DEF TypeInv, MetaOK, Numbered, Behind
  <2> QED BY <1>1, <2>1, <2>3, <2>4 DEF TypeInv, Numbered, MetaOK, Behind
<1>6. CASE FindKey(p) \/ PublishKey(p) \/ MarkRequired(p)
  <2>1. /\ UNCHANGED <<meta, events, read, next, mine>>
        /\ \A q \in Proc \ {p} : pc'[q] = pc[q]
        /\ pc[p] \in {"key", "publish", "mark"}
    BY <1>1, <1>6 DEF FindKey, PublishKey, MarkRequired, HasKey, Goto, Places
  <2>2. /\ keyFile' \in Proc \cup {NoKey} /\ key' \in [Proc -> Proc \cup {NoKey}]
        /\ made' \in [Proc -> BOOLEAN]
    <3>1. CASE FindKey(p)
      BY <1>1, <3>1 DEF RestOK, FindKey, HasKey
    <3>2. CASE PublishKey(p)
      <4>1. made' \in [Proc -> BOOLEAN]
        <5>1. made' = made \/ made' = [made EXCEPT ![p] = TRUE]
          BY <3>2 DEF PublishKey
        <5> QED BY <1>1, <5>1, Made
      <4> QED BY <1>1, <3>2, <4>1 DEF RestOK, PublishKey, HasKey
    <3>3. CASE MarkRequired(p)
      BY <1>1, <3>3 DEF RestOK, MarkRequired
    <3> QED BY <1>6, <3>1, <3>2, <3>3
  <2>3. config' \in ConfigSet \cup {NoConfig}
    BY <1>1, <1>6 DEF RestOK, ConfigSet, FindKey, PublishKey, MarkRequired
  <2> QED BY <1>1, <2>1, <2>2, <2>3, TypeFrame DEF RestOK, Passed
<1>7. CASE AppendOnce(p)
  <2> DEFINE row == [seq |-> meta.last_seq + 1, prev |-> meta.chain_head_hash, by |-> p]
  <2>1. /\ UNCHANGED <<config, keyFile, pc, mine, next, read, key, made>>
        /\ Cardinality(events) < MaxRows
    BY <1>7 DEF AppendOnce
  <2>2. CASE \E r \in events : r.seq = row.seq
    <3>1. UNCHANGED <<events, meta>>
      BY <1>7, <2>2 DEF AppendOnce
    <3> QED BY <1>1, <2>1, <3>1, TypeFrame DEF RestOK, Passed
  <2>3. CASE ~\E r \in events : r.seq = row.seq
    <3>1. /\ events' = events \cup {row}
          /\ meta' = [meta EXCEPT !.last_seq = row.seq, !.chain_head_hash = row]
      BY <1>7, <2>3 DEF AppendOnce
    <3>2. Filled(4) = DOMAIN meta
      <4>1. next[p] = 5
        BY <1>1, <1>7 DEF Passed, AppendOnce
      <4>2. next[p] - 1 = 4
        BY <4>1
      <4> QED BY <1>1, <4>2 DEF Passed, TypeInv, MetaOK
    <3>3. {"genesis_nonce", "genesis_hash", "chain_head_hash", "last_seq"} = DOMAIN meta
      BY <3>2, FilledIs, Keys
    <3>4. /\ DOMAIN meta' = DOMAIN meta
          /\ meta'.genesis_nonce = meta.genesis_nonce /\ meta'.genesis_hash = meta.genesis_hash
          /\ meta'.last_seq = row.seq /\ meta'.chain_head_hash = row
      BY <3>1, <3>3
    <3>5. /\ meta.last_seq \in 0 .. Cardinality(events) /\ Cardinality(events) \in Nat
          /\ {r.seq : r \in events} = 1 .. Cardinality(events) /\ IsFiniteSet(events)
          /\ \A q \in Proc : Behind(read[q])
      BY <1>1, <3>3 DEF Numbered, Behind
    <3>6. meta.last_seq = Cardinality(events)
      <4>1. meta.last_seq + 1 \notin 1 .. Cardinality(events)
        BY <2>3, <3>5
      <4> QED BY <3>5, <4>1
    <3>7. row.seq = Cardinality(events) + 1 /\ row.by = p /\ row \notin events
      BY <2>3, <3>6
    <3> HIDE DEF row
    <3>8. Cardinality(events') = Cardinality(events) + 1 /\ IsFiniteSet(events')
      BY <3>1, <3>5, <3>7, FS_AddElement
    <3>9. {r.seq : r \in events'} = 1 .. Cardinality(events')
      <4>1. {r.seq : r \in events'} = {r.seq : r \in events} \cup {row.seq}
        BY <3>1
      <4>2. {r.seq : r \in events'} = 1 .. Cardinality(events) \cup {Cardinality(events) + 1}
        BY <3>5, <3>7, <4>1
      <4> HIDE DEF row
      <4>3. Cardinality(events) \in Nat
        BY <3>5
      <4> QED BY <3>8, <4>2, <4>3
    <3>10. Numbered'
      BY <2>1, <3>4, <3>5, <3>7, <3>8, <3>9 DEF Numbered, Behind
    <3>11. RestOK'
      BY <1>1, <2>1, <3>1, <3>5, <3>7 DEF RestOK
    <3>12. MetaOK(meta)' /\ \A q \in Proc : MetaOK(read[q])'
      BY <2>1, <3>1, <3>4, <3>5, <3>7 DEF TypeInv, MetaOK
    <3>13. Passed'
      BY <1>1, <2>1, <3>4 DEF Passed
    <3> QED BY <1>1, <3>10, <3>11, <3>12, <3>13 DEF TypeInv
  <2> QED BY <2>2, <2>3
<1> QED BY <1>2, <1>3, <1>4, <1>5, <1>6, <1>7 DEF Act

(* Type correctness, for processes of any kinds in any order.                *)
THEOREM TypeCorrect == Spec => []TypeOK
<1>1. Init => TypeInv
  <2> SUFFICES ASSUME Init PROVE TypeInv
    OBVIOUS
  <2>1. Places /\ RestOK
    BY OpenerAssumption DEF Init, Places, Labels, RestOK, ConfigSet
  <2>2. Passed
    <3>1. \A q \in Proc : next[q] - 1 = 0 /\ pc[q] = "start"
      BY DEF Init
    <3> QED BY <3>1, FilledIs DEF Passed
  <2>3. Numbered
    BY OpenerAssumption, FS_EmptySet DEF Init, Numbered, Behind
  <2>4. MetaOK(meta) /\ \A q \in Proc : MetaOK(read[q])
    BY DEF Init, MetaOK
  <2> QED BY <2>1, <2>2, <2>3, <2>4 DEF TypeInv
<1>2. TypeInv /\ [Next]_vars => TypeInv'
  <2> SUFFICES ASSUME TypeInv, [Next]_vars PROVE TypeInv'
    OBVIOUS
  <2>1. CASE UNCHANGED vars
    BY <2>1 DEF vars, TypeInv, Places, Passed, Numbered, Behind, RestOK, MetaOK
  <2>2. ASSUME NEW p \in Proc, Act(p) PROVE TypeInv'
    BY <2>2, TypeStep
  <2> QED BY <2>1, <2>2 DEF Next, Act
<1> QED BY <1>1, <1>2, TypeInvSuffices, PTL DEF Spec
=============================================================================
