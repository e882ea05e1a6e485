------------------------ MODULE OpenClawObserverProofs ------------------------
(***************************************************************************)
(* Theorems about OpenClawObserver, for any number of calls, files, scans  *)
(* and cache entries. First what the operators of TtlCache do; then the    *)
(* dedupe cache against the history of the loop of emitForToolCall         *)
(* (Tracks), of which RepeatsSuppressed follows; then what the hooks keep  *)
(* (HInv); on top of it what the scans keep (DInv), for ObservedWrites,    *)
(* and what pending remembers of the open calls (MInv), for ResultsMatch.  *)
(***************************************************************************)
EXTENDS OpenClawObserver, FiniteSetTheorems, WellFoundedInduction, TLAPS

(* A set of naturals that has an element has a least one.                   *)
LEMMA NatMin ==
    ASSUME NEW T \in SUBSET Nat, T # {}
    PROVE  \E m \in T : \A n \in T : m <= n
<1> DEFINE R == OpToRel(<, Nat)
<1>1. PICK m \in T : \A n \in T : <<n, m>> \notin R
  <2>1. IsWellFoundedOn(R, Nat)
    BY NatLessThanWellFounded
  <2> HIDE DEF R
  <2> QED BY <2>1, WFMin
<1>2. \A n \in T : ~(n < m)
  BY <1>1 DEF OpToRel
<1> QED BY <1>2

(* A function over 0 .. n defined by recursion from a step exists.          *)
Recursion(f, n, a, step) ==
    \A i \in 0 .. n : f[i] = IF i = 0 THEN a ELSE step[<<i, f[i - 1]>>]

LEMMA RecursionExists ==
    ASSUME NEW n \in Nat, NEW A, NEW a \in A, NEW step \in [(1 .. n) \X A -> A]
    PROVE  \E f \in [0 .. n -> A] : Recursion(f, n, a, step)
<1> USE DEF Recursion
<1> DEFINE Upto(m, f) == f \in [0 .. m -> A] /\ Recursion(f, m, a, step)
           T == {m \in 0 .. n : ~ \E f : Upto(m, f)}
<1>1. ASSUME T # {}  PROVE FALSE
  <2>1. PICK m \in T : \A l \in T : m <= l
    <3>1. T \in SUBSET Nat
      OBVIOUS
    <3> HIDE DEF T
    <3> QED  BY <1>1, <3>1, NatMin
  <2>2. m \in 0 .. n /\ ~ \E f : Upto(m, f)
    BY <2>1
  <2>3. m # 0
    <3>1. Upto(0, [i \in 0 .. 0 |-> a])
      OBVIOUS
    <3> HIDE DEF Upto
    <3> QED  BY <2>2, <3>1
  <2>4. m - 1 \in 0 .. n /\ m - 1 \notin T
    <3> HIDE DEF T
    <3> QED  BY <2>1, <2>2, <2>3
  <2>5. PICK f : Upto(m - 1, f)
    BY <2>4
  <2> DEFINE g == [i \in 0 .. m |-> IF i = m THEN step[<<m, f[m - 1]>>] ELSE f[i]]
  <2>6. f \in [0 .. m - 1 -> A] /\ f[m - 1] \in A /\ m \in 1 .. n
    BY <2>2, <2>3, <2>5
  <2>7. step[<<m, f[m - 1]>>] \in A
    BY <2>6
  <2>8. Upto(m, g)
    <3>1. g \in [0 .. m -> A]
      BY <2>2, <2>6, <2>7
    <3>2. ASSUME NEW i \in 0 .. m
          PROVE  g[i] = IF i = 0 THEN a ELSE step[<<i, g[i - 1]>>]
      <4>1. CASE i = m
        <5>1. m - 1 \in 0 .. m /\ m - 1 # m
          BY <2>6
        <5>2. g[m - 1] = f[m - 1]
          BY <5>1
        <5> QED  BY <2>3, <4>1, <5>2
      <4>2. CASE i # m
        <5>1. i \in 0 .. m - 1 /\ (i # 0 => i - 1 \in 0 .. m /\ i - 1 # m)
          BY <2>6, <4>2
        <5> QED  BY <2>5, <4>2, <5>1
      <4> QED  BY <4>1, <4>2
    <3> QED  BY <3>1, <3>2
  <2> HIDE DEF Upto
  <2> QED  BY <2>2, <2>8
<1>2. n \in 0 .. n
  OBVIOUS
<1> QED  BY <1>1, <1>2

-------------------------------------------------------------------------------
(* D lists the items of C at the places in I, in their order: its item k is *)
(* the one at h[k].                                                         *)
Lists(D, C, I, h) == /\ h \in [1 .. Len(D) -> I]
                     /\ \A k, l \in 1 .. Len(D) : k < l => h[k] < h[l]
                     /\ \A i \in I : \E k \in 1 .. Len(D) : h[k] = i
                     /\ \A k \in 1 .. Len(D) : D[k] = C[h[k]]

LEMMA KeepIs ==
    ASSUME NEW S, NEW C \in Seq(S), NEW I \in SUBSET (1 .. Len(C))
    PROVE  /\ Cache!Keep(C, I) \in Seq(S)
           /\ \E h : Lists(Cache!Keep(C, I), C, I, h)
<1> DEFINE n == Len(C)
           step == [x \in (1 .. n) \X Seq(S) |-> IF x[1] \in I THEN Append(x[2], C[x[1]]) ELSE x[2]]
           Kept(f) == f = [i \in 0 .. n |-> IF i = 0 THEN <<>> ELSE
                                            IF i \in I THEN Append(f[i - 1], C[i]) ELSE f[i - 1]]
           kept == CHOOSE f : Kept(f)
<1>1. n \in Nat /\ \A i \in 1 .. n : C[i] \in S
  OBVIOUS
<1>2. step \in [(1 .. n) \X Seq(S) -> Seq(S)]
  BY <1>1
<1>3. PICK f \in [0 .. n -> Seq(S)] :
          \A i \in 0 .. n : f[i] = IF i = 0 THEN <<>> ELSE step[<<i, f[i - 1]>>]
  <2> DEFINE A == Seq(S)
             a == <<>>
  <2>1. a \in A /\ step \in [(1 .. n) \X A -> A]
    BY <1>2
  <2> HIDE DEF step, n, A, a
  <2>2. \E f \in [0 .. n -> A] : Recursion(f, n, a, step)
    BY <1>1, <2>1, RecursionExists
  <2> QED  BY <2>2 DEF A, a, Recursion
<1>4. Kept(f)
  <2>1. ASSUME NEW i \in 0 .. n, i # 0
        PROVE  step[<<i, f[i - 1]>>] = IF i \in I THEN Append(f[i - 1], C[i]) ELSE f[i - 1]
    <3>1. i \in 1 .. n /\ f[i - 1] \in Seq(S)
      BY <2>1, <1>1
    <3> QED  BY <3>1
  <2> HIDE DEF step, n
  <2>2. \A i \in 0 .. n : f[i] = IF i = 0 THEN <<>> ELSE
                                 IF i \in I THEN Append(f[i - 1], C[i]) ELSE f[i - 1]
    BY <1>3, <2>1
  <2> QED  BY <2>2
<1>5. Kept(kept)
  <2> HIDE DEF Kept
  <2> QED  BY <1>4
<1>6. Cache!Keep(C, I) = kept[n]
  BY DEF Cache!Keep
<1> HIDE DEF kept, step
<1>7. kept[0] = <<>>
  BY <1>5, <1>1
<1>8. ASSUME NEW i \in 1 .. n
      PROVE  kept[i] = IF i \in I THEN Append(kept[i - 1], C[i]) ELSE kept[i - 1]
  <2>1. i \in 0 .. n /\ i # 0
    BY <1>1
  <2> HIDE DEF n
  <2> QED  BY <1>5, <2>1
<1> HIDE DEF Kept
<1> DEFINE Good(i) == kept[i] \in Seq(S) /\ \E h : Lists(kept[i], C, I \cap (1 .. i), h)
           T == {i \in 0 .. n : ~Good(i)}
<1>9. ASSUME T # {}  PROVE FALSE
  <2>1. PICK m \in T : \A l \in T : m <= l
    <3>1. T \in SUBSET Nat
      OBVIOUS
    <3> HIDE DEF T
    <3> QED  BY <1>9, <3>1, NatMin
  <2>2. m \in 0 .. n /\ ~Good(m)
    BY <2>1
  <2>3. m # 0
    <3>1. Lists(<<>>, C, I \cap (1 .. 0), <<>>)
      <4>1. <<>> \in [1 .. Len(<<>>) -> I \cap (1 .. 0)]
        OBVIOUS
      <4> QED  BY <4>1 DEF Lists
    <3>2. <<>> \in Seq(S)
      OBVIOUS
    <3> QED  BY <1>7, <2>2, <3>1, <3>2
  <2>4. m \in 1 .. n /\ m - 1 \in 0 .. n /\ m - 1 \notin T /\ m \in Nat
    <3> HIDE DEF T
    <3> QED  BY <1>1, <2>1, <2>2, <2>3
  <2>5. kept[m - 1] \in Seq(S) /\ \E h : Lists(kept[m - 1], C, I \cap (1 .. m - 1), h)
    BY <2>4
  <2> DEFINE D == kept[m - 1]
             J == I \cap (1 .. m - 1)
  <2>6. PICK h : Lists(D, C, J, h)
    BY <2>5
  <2>7. CASE m \notin I
    <3>1. I \cap (1 .. m) = J
      BY <2>4, <2>7
    <3>2. kept[m] = D
      BY <1>8, <2>4, <2>7
    <3> QED  BY <2>2, <2>5, <3>1, <3>2
  <2>8. CASE m \in I
    <3> DEFINE E == Append(D, C[m])
               g == [k \in 1 .. Len(E) |-> IF k = Len(E) THEN m ELSE h[k]]
    <3>1. E \in Seq(S) /\ Len(E) = Len(D) + 1 /\ Len(D) \in Nat /\ E[Len(E)] = C[m]
          /\ \A k \in 1 .. Len(D) : E[k] = D[k]
      BY <1>1, <2>4, <2>5
    <3>2. \A k \in 1 .. Len(D) : h[k] \in J /\ h[k] < m
      BY <2>4, <2>6 DEF Lists
    <3> HIDE DEF E
    <3>3. \A k \in 1 .. Len(D) : g[k] = h[k] /\ k \in 1 .. Len(E) /\ k # Len(E)
      BY <3>1
    <3>4. g[Len(E)] = m /\ Len(E) \in 1 .. Len(E)
      BY <3>1
    <3>5. \A k \in 1 .. Len(E) : k # Len(E) => k \in 1 .. Len(D)
      BY <3>1
    <3>6. g \in [1 .. Len(E) -> I \cap (1 .. m)]
      BY <2>4, <2>8, <3>2, <3>5
    <3> HIDE DEF g
    <3>7. \A k, l \in 1 .. Len(E) : k < l => g[k] < g[l]
      <4> SUFFICES ASSUME NEW k \in 1 .. Len(E), NEW l \in 1 .. Len(E), k < l
                   PROVE  g[k] < g[l]
        OBVIOUS
      <4>1. k \in 1 .. Len(D)
        BY <3>1
      <4>2. CASE l = Len(E)
        BY <3>2, <3>3, <3>4, <4>1, <4>2
      <4>3. CASE l # Len(E)
        BY <2>6, <3>3, <3>5, <4>1, <4>3 DEF Lists
      <4> QED  BY <4>2, <4>3
    <3>8. \A i \in I \cap (1 .. m) : \E k \in 1 .. Len(E) : g[k] = i
      <4> SUFFICES ASSUME NEW i \in I \cap (1 .. m)  PROVE \E k \in 1 .. Len(E) : g[k] = i
        OBVIOUS
      <4>1. CASE i = m
        BY <3>4, <4>1
      <4>2. CASE i # m
        <5>1. i \in J
          BY <2>4, <4>2
        <5>2. PICK k \in 1 .. Len(D) : h[k] = i
          BY <2>6, <5>1 DEF Lists
        <5> QED  BY <3>3, <5>2
      <4> QED  BY <4>1, <4>2
    <3>9. \A k \in 1 .. Len(E) : E[k] = C[g[k]]
      BY <2>6, <3>1, <3>3, <3>4, <3>5 DEF Lists
    <3>10. Lists(E, C, I \cap (1 .. m), g)
      BY <3>6, <3>7, <3>8, <3>9 DEF Lists
    <3>11. kept[m] = E
      BY <1>8, <2>4, <2>8 DEF E
    <3> QED  BY <2>2, <3>1, <3>10, <3>11
  <2> QED  BY <2>7, <2>8
<1>10. Good(n)
  <2>1. n \in 0 .. n
    BY <1>1
  <2> HIDE DEF Good, n
  <2> QED  BY <1>9, <2>1
<1>11. I \cap (1 .. n) = I
  OBVIOUS
<1> HIDE DEF n
<1> QED  BY <1>6, <1>10, <1>11

LEMMA UptoCardinality ==
    ASSUME NEW n \in Nat
    PROVE  IsFiniteSet(1 .. n) /\ Cardinality(1 .. n) = n
<1>1. 1 \in Int /\ n \in Int
  OBVIOUS
<1>2. IsFiniteSet(1 .. n) /\ Cardinality(1 .. n) = IF 1 > n THEN 0 ELSE n - 1 + 1
  BY <1>1, FS_Interval
<1> QED  BY <1>2

LEMMA ListsAreShorter ==
    ASSUME NEW S, NEW T, NEW D \in Seq(S), NEW C \in Seq(T), NEW I \in SUBSET (1 .. Len(C)), NEW h,
           Lists(D, C, I, h)
    PROVE  Len(D) <= Len(C)
<1>1. Len(D) \in Nat /\ Len(C) \in Nat
  OBVIOUS
<1>2. h \in Injection(1 .. Len(D), 1 .. Len(C))
  <2>1. h \in [1 .. Len(D) -> 1 .. Len(C)]
    BY DEF Lists
  <2>2. ASSUME NEW k \in 1 .. Len(D), NEW l \in 1 .. Len(D), k # l  PROVE h[k] # h[l]
    <3>1. h[k] \in Nat /\ h[l] \in Nat /\ (k < l \/ l < k)
      BY <1>1, <2>1, <2>2
    <3>2. (k < l => h[k] < h[l]) /\ (l < k => h[l] < h[k])
      BY DEF Lists
    <3> QED  BY <3>1, <3>2
  <2> QED  BY <2>1, <2>2 DEF Injection, IsInjective
<1>3. IsFiniteSet(1 .. Len(C)) /\ Cardinality(1 .. Len(C)) = Len(C)
      /\ Cardinality(1 .. Len(D)) = Len(D)
  BY <1>1, UptoCardinality
<1>4. Cardinality(1 .. Len(D)) <= Cardinality(1 .. Len(C))
  BY <1>2, <1>3, FS_Injection
<1> QED  BY <1>3, <1>4

Fresh(C, t)       == {i \in 1 .. Len(C) : C[i].ts + Ttl >= t}
Others(C, key, t) == {i \in Fresh(C, t) : C[i].key # key}

LEMMA PruneIs ==
    ASSUME NEW S, NEW C \in Seq(S), Len(C) <= MaxEntries, NEW t
    PROVE  /\ Cache!Prune(C, t) \in Seq(S) /\ Len(Cache!Prune(C, t)) <= Len(C)
           /\ \E h : Lists(Cache!Prune(C, t), C, Fresh(C, t), h)
<1>1. Fresh(C, t) \in SUBSET (1 .. Len(C)) /\ DOMAIN C = 1 .. Len(C)
  BY DEF Fresh
<1> DEFINE D == Cache!Keep(C, Fresh(C, t))
<1>2. D \in Seq(S) /\ \E h : Lists(D, C, Fresh(C, t), h)
  BY <1>1, KeepIs
<1>3. Len(D) <= Len(C) /\ Len(D) \in Nat /\ Len(C) \in Nat
  <2> HIDE DEF D
  <2> QED  BY <1>1, <1>2, ListsAreShorter
<1>4. Cache!Prune(C, t) = Cache!TrimToSize(D)
  BY <1>1 DEF Cache!Prune, Fresh
<1>5. Cache!TrimToSize(D) = D
  BY <1>3, LimitAssumption DEF Cache!TrimToSize
<1> QED  BY <1>2, <1>3, <1>4, <1>5

(* has and get: an entry of the key that is not too old. *)
LEMMA HasIs ==
    ASSUME NEW S, NEW C \in Seq(S), Len(C) <= MaxEntries, NEW t, NEW key
    PROVE  Cache!Has(C, key, t) <=> \E i \in Fresh(C, t) : C[i].key = key
<1> DEFINE D == Cache!Prune(C, t)
<1>1. D \in Seq(S) /\ \E h : Lists(D, C, Fresh(C, t), h)
  BY PruneIs
<1>2. Cache!Has(C, key, t) <=> \E k \in 1 .. Len(D) : D[k].key = key
  BY <1>1 DEF Cache!Has
<1> HIDE DEF D
<1> QED  BY <1>1, <1>2 DEF Lists

LEMMA ValueIs ==
    ASSUME NEW S, NEW C \in Seq(S), Len(C) <= MaxEntries, NEW t, NEW key, Cache!Has(C, key, t)
    PROVE  \E i \in Fresh(C, t) : C[i].key = key /\ Cache!Value(C, key, t) = C[i].value
<1> DEFINE D == Cache!Prune(C, t)
           k == CHOOSE i \in DOMAIN D : D[i].key = key
<1>1. D \in Seq(S) /\ \E h : Lists(D, C, Fresh(C, t), h)
  BY PruneIs
<1>2. Cache!Value(C, key, t) = D[k].value
  BY DEF Cache!Value
<1>3. k \in 1 .. Len(D) /\ D[k].key = key
  BY <1>1 DEF Cache!Has
<1> HIDE DEF D, k
<1> QED  BY <1>1, <1>2, <1>3 DEF Lists

(* take, and the first half of set: only young entries of other keys stay. *)
LEMMA TakeIs ==
    ASSUME NEW S, NEW C \in Seq(S), Len(C) <= MaxEntries, NEW t, NEW key
    PROVE  /\ Cache!Take(C, key, t) \in Seq(S) /\ Len(Cache!Take(C, key, t)) <= Len(C)
           /\ \E h : Lists(Cache!Take(C, key, t), C, Others(C, key, t), h)
<1> DEFINE D == Cache!Prune(C, t)
           I == {k \in 1 .. Len(D) : D[k].key # key}
           E == Cache!Keep(D, I)
<1>1. D \in Seq(S) /\ \E h : Lists(D, C, Fresh(C, t), h)
  BY PruneIs
<1>2. Cache!Take(C, key, t) = E
  <2>1. DOMAIN D = 1 .. Len(D)
    BY <1>1
  <2> QED  BY <2>1 DEF Cache!Take, Cache!Without
<1>3. PICK h : Lists(D, C, Fresh(C, t), h)
  BY <1>1
<1> HIDE DEF D
<1>4. E \in Seq(S) /\ \E g : Lists(E, D, I, g)
  <2>1. I \in SUBSET (1 .. Len(D))
    OBVIOUS
  <2> HIDE DEF I
  <2> QED  BY <1>1, <2>1, KeepIs
<1>5. PICK g : Lists(E, D, I, g)
  BY <1>4
<1> HIDE DEF E
<1> DEFINE f == [k \in 1 .. Len(E) |-> h[g[k]]]
           O == Others(C, key, t)
<1>6. \A k \in 1 .. Len(E) : g[k] \in 1 .. Len(D) /\ D[g[k]].key # key /\ E[k] = D[g[k]]
  BY <1>5 DEF Lists
<1>7. \A k \in 1 .. Len(D) : h[k] \in Fresh(C, t) /\ D[k] = C[h[k]]
  BY <1>3 DEF Lists
<1>8. Lists(E, C, O, f)
  <2>1. \A k \in 1 .. Len(E) : f[k] \in O /\ E[k] = C[f[k]] /\ f[k] = h[g[k]]
    BY <1>6, <1>7 DEF Others
  <2>2. f \in [1 .. Len(E) -> O]
    BY <2>1
  <2>3. \A i \in O : \E k \in 1 .. Len(E) : f[k] = i
    <3> SUFFICES ASSUME NEW i \in O  PROVE \E k \in 1 .. Len(E) : f[k] = i
      OBVIOUS
    <3>1. i \in Fresh(C, t) /\ C[i].key # key
      BY DEF Others
    <3>2. PICK l \in 1 .. Len(D) : h[l] = i
      BY <1>3, <3>1 DEF Lists
    <3>3. l \in I
      BY <1>7, <3>1, <3>2
    <3>4. PICK k \in 1 .. Len(E) : g[k] = l
      <4> HIDE DEF I
      <4> QED  BY <1>5, <3>3 DEF Lists
    <3> QED  BY <2>1, <3>2, <3>4
  <2>4. \A k, l \in 1 .. Len(E) : k < l => f[k] < f[l]
    <3> SUFFICES ASSUME NEW k \in 1 .. Len(E), NEW l \in 1 .. Len(E), k < l  PROVE f[k] < f[l]
      OBVIOUS
    <3>1. g[k] < g[l]
      BY <1>5 DEF Lists
    <3>2. h[g[k]] < h[g[l]]
      BY <1>3, <1>6, <3>1 DEF Lists
    <3> QED  BY <2>1, <3>2
  <2> HIDE DEF f, O
  <2> QED  BY <2>1, <2>2, <2>3, <2>4 DEF Lists
<1>9. Len(E) <= Len(C)
  <2>1. Others(C, key, t) \in SUBSET (1 .. Len(C))
    BY DEF Others, Fresh
  <2> HIDE DEF f
  <2> QED  BY <1>4, <1>8, <2>1, ListsAreShorter
<1> QED  BY <1>2, <1>4, <1>8, <1>9

(* set: the new entry comes last; before it are young entries of other keys, *)
(* all of them, or the newest of them in a cache that is full.               *)
Follows(D, C, key, t, new, g) ==
    /\ Len(D) \in 1 .. MaxEntries /\ D[Len(D)] = new
    /\ g \in [1 .. Len(D) - 1 -> Others(C, key, t)]
    /\ \A k, l \in 1 .. Len(D) - 1 : k < l => g[k] < g[l]
    /\ \A k \in 1 .. Len(D) - 1 : D[k] = C[g[k]]
    /\ \A i \in Others(C, key, t) :
          \/ \E k \in 1 .. Len(D) - 1 : g[k] = i
          \/ Len(D) = MaxEntries /\ \A k \in 1 .. Len(D) - 1 : i < g[k]

LEMMA SetIs ==
    ASSUME NEW S, NEW C \in Seq(S), Len(C) <= MaxEntries, NEW t, NEW key, NEW value,
           [key |-> key, value |-> value, ts |-> t] \in S
    PROVE  /\ Cache!Set(C, key, value, t) \in Seq(S)
           /\ \E g : Follows(Cache!Set(C, key, value, t), C, key, t,
                             [key |-> key, value |-> value, ts |-> t], g)
<1> DEFINE new == [key |-> key, value |-> value, ts |-> t]
           E == Cache!Take(C, key, t)
           F == Append(E, new)
           D == Cache!TrimToSize(F)
           O == Others(C, key, t)
<1>1. E \in Seq(S) /\ Len(E) <= Len(C) /\ \E h : Lists(E, C, O, h)
  BY TakeIs
<1>2. Cache!Set(C, key, value, t) = D
  BY DEF Cache!Set, Cache!Take
<1>3. PICK h : Lists(E, C, O, h)
  BY <1>1
<1> DEFINE n == Len(E)
<1> HIDE DEF E, new, O
<1>4. /\ n \in Nat /\ n <= MaxEntries /\ MaxEntries \in Nat /\ MaxEntries >= 1
  BY <1>1, LimitAssumption
<1>5. F \in Seq(S) /\ Len(F) = n + 1 /\ F[n + 1] = new /\ \A k \in 1 .. n : F[k] = E[k]
  BY <1>1 DEF new
<1> HIDE DEF F
<1>6. /\ h \in [1 .. n -> O]
      /\ \A k, l \in 1 .. n : k < l => h[k] < h[l]
      /\ \A i \in O : \E k \in 1 .. n : h[k] = i
      /\ \A k \in 1 .. n : E[k] = C[h[k]]
  BY <1>3 DEF Lists
<1> HIDE DEF n
<1>7. CASE n < MaxEntries
  <2>1. D = F
    BY <1>4, <1>5, <1>7 DEF Cache!TrimToSize
  <2>2. Len(F) - 1 = n /\ Len(F) \in 1 .. MaxEntries
    BY <1>4, <1>5, <1>7
  <2>3. Follows(F, C, key, t, new, h)
    <3>1. \A k \in 1 .. n : F[k] = C[h[k]]
      BY <1>5, <1>6
    <3>2. F[Len(F)] = new
      BY <1>5
    <3> QED  BY <1>6, <2>2, <3>1, <3>2 DEF Follows, O
  <2> QED  BY <1>2, <1>5, <2>1, <2>3 DEF new
<1>8. CASE n = MaxEntries
  <2>1. D = SubSeq(F, 2, n + 1)
    <3>1. Len(F) > MaxEntries /\ Len(F) - MaxEntries + 1 = 2
      BY <1>4, <1>5, <1>8
    <3> QED  BY <1>5, <3>1 DEF Cache!TrimToSize
  <2>2. D \in Seq(S) /\ Len(D) = n /\ \A k \in 1 .. n : D[k] = F[k + 1]
    BY <1>4, <1>5, <1>8, <2>1
  <2> HIDE DEF D
  <2> DEFINE g == [k \in 1 .. n - 1 |-> h[k + 1]]
  <2>3. \A k \in 1 .. n - 1 : k \in 1 .. n /\ k + 1 \in 1 .. n
    BY <1>4
  <2>4. \A k \in 1 .. n - 1 : g[k] = h[k + 1] /\ g[k] \in O /\ D[k] = C[g[k]]
    <3> SUFFICES ASSUME NEW k \in 1 .. n - 1
                 PROVE  g[k] = h[k + 1] /\ g[k] \in O /\ D[k] = C[g[k]]
      OBVIOUS
    <3>1. k \in 1 .. n /\ k + 1 \in 1 .. n
      BY <2>3
    <3>2. D[k] = E[k + 1]
      BY <1>5, <2>2, <3>1
    <3> QED  BY <1>6, <3>1, <3>2
  <2>5. g \in [1 .. n - 1 -> O]
    BY <2>4
  <2> HIDE DEF g
  <2>6. \A k, l \in 1 .. n - 1 : k < l => g[k] < g[l]
    <3> SUFFICES ASSUME NEW k \in 1 .. n - 1, NEW l \in 1 .. n - 1, k < l  PROVE g[k] < g[l]
      OBVIOUS
    <3>1. k + 1 < l + 1
      BY <1>4
    <3>2. h[k + 1] < h[l + 1]
      BY <1>6, <2>3, <3>1
    <3> QED  BY <2>4, <3>2
  <2>7. ASSUME NEW i \in O
        PROVE  \/ \E k \in 1 .. n - 1 : g[k] = i
               \/ n = MaxEntries /\ \A k \in 1 .. n - 1 : i < g[k]
    <3>1. PICK k \in 1 .. n : h[k] = i
      BY <1>6
    <3>2. CASE k = 1
      <4>1. ASSUME NEW l \in 1 .. n - 1  PROVE i < g[l]
        <5>1. 1 < l + 1 /\ 1 \in 1 .. n
          BY <1>4, <1>8
        <5>2. h[1] < h[l + 1]
          BY <1>6, <2>3, <5>1
        <5> QED  BY <2>4, <3>1, <3>2, <5>2
      <4> QED  BY <1>8, <4>1
    <3>3. CASE k # 1
      <4>1. k - 1 \in 1 .. n - 1 /\ (k - 1) + 1 = k
        BY <1>4, <3>3
      <4>2. g[k - 1] = h[k]
        BY <2>4, <4>1
      <4> QED  BY <3>1, <4>1, <4>2
    <3> QED  BY <3>2, <3>3
  <2>8. Follows(D, C, key, t, new, g)
    <3>1. D[Len(D)] = new
      BY <1>4, <1>5, <1>8, <2>2
    <3>2. Len(D) \in 1 .. MaxEntries
      BY <1>4, <1>8, <2>2
    <3> QED  BY <2>2, <2>4, <2>5, <2>6, <2>7, <3>1, <3>2 DEF Follows, O
  <2> QED  BY <1>2, <2>2, <2>8 DEF new
<1> QED  BY <1>4, <1>7, <1>8

-------------------------------------------------------------------------------
(* The dedupe cache C against the whole history L of the turns of the loop: *)
(* its entries are last turns of their keys, in their order, with their     *)
(* times; and the last turn of a key that has no entry is past the TTL, or  *)
(* MaxEntries other keys had turns after it.                                *)
IsLast(L, m)    == \A x \in m + 1 .. Len(L) : KeyOf(L[x]) # KeyOf(L[m])
KeysIn(L, j, n) == {KeyOf(L[x]) : x \in j + 1 .. n}
KeysAfter(L, m) == KeysIn(L, m, Len(L))

Tracks(C, L, t, p) ==
    /\ p \in [1 .. Len(C) -> 1 .. Len(L)]
    /\ \A i, j \in 1 .. Len(C) : i < j => p[i] < p[j]
    /\ \A i \in 1 .. Len(C) : IsLast(L, p[i]) /\ C[i].key = KeyOf(L[p[i]]) /\ C[i].ts = L[p[i]].at
    /\ \A m \in 1 .. Len(L) : IsLast(L, m) => \/ \E i \in 1 .. Len(C) : p[i] = m
                                              \/ L[m].at + Ttl < t
                                              \/ Cardinality(KeysAfter(L, m)) >= MaxEntries

InTime(L, t) == /\ \A m \in 1 .. Len(L) : L[m].at \in Nat /\ L[m].at <= t
                /\ \A k, m \in 1 .. Len(L) : k <= m => L[k].at <= L[m].at

Earlier(L, k) == {j \in 1 .. k - 1 : KeyOf(L[j]) = KeyOf(L[k])}
SuppressedAt(L, k) ==
    IF L[k].sent
    THEN \A j \in Earlier(L, k) :
           \/ L[k].at > L[j].at + Ttl
           \/ Cardinality(KeysIn(L, j, k - 1) \ {KeyOf(L[k])}) >= MaxEntries
    ELSE \E j \in Earlier(L, k) : L[k].at <= L[j].at + Ttl

LEMMA KeysAfterFinite ==
    ASSUME NEW L, NEW n \in Nat, NEW j \in Nat
    PROVE  IsFiniteSet(KeysIn(L, j, n)) /\ Cardinality(KeysIn(L, j, n)) \in Nat
<1> DEFINE K == KeysIn(L, j, n)
           f == [i \in j + 1 .. n |-> KeyOf(L[i])]
<1>1. IsFiniteSet(j + 1 .. n)
  BY FS_Interval
<1>2. f \in Surjection(j + 1 .. n, K)
  BY DEF Surjection, KeysIn
<1>3. IsFiniteSet(K)
  <2> HIDE DEF K, f
  <2> QED  BY <1>1, <1>2, FS_Surjection
<1> QED  BY <1>3, FS_CardinalityType

(* Every key that had a turn had a last one.                                *)
LEMMA LastTurn ==
    ASSUME NEW L, Len(L) \in Nat, NEW j \in 1 .. Len(L)
    PROVE  \E m \in j .. Len(L) : KeyOf(L[m]) = KeyOf(L[j]) /\ IsLast(L, m)
<1> DEFINE n == Len(L)
           T == {d \in 0 .. n - j : KeyOf(L[n - d]) = KeyOf(L[j])}
<1>1. n - j \in T /\ T \in SUBSET Nat
  BY SMTT(20)
<1>2. PICK d \in T : \A e \in T : d <= e
  <2> HIDE DEF T
  <2> QED  BY <1>1, NatMin
<1>3. d \in 0 .. n - j /\ n - d \in j .. n /\ KeyOf(L[n - d]) = KeyOf(L[j])
  BY <1>2
<1>4. IsLast(L, n - d)
  <2> SUFFICES ASSUME NEW x \in n - d + 1 .. n, KeyOf(L[x]) = KeyOf(L[j])  PROVE FALSE
    BY <1>3 DEF IsLast
  <2>1. n - x \in 0 .. n - j /\ n - (n - x) = x /\ n - x < d
    BY <1>3
  <2>2. n - x \in T
    BY <2>1
  <2> HIDE DEF T
  <2> QED  BY <1>2, <1>3, <2>1, <2>2
<1> QED  BY <1>3, <1>4

(* One turn of the loop: what remember answers is right, and the cache      *)
(* keeps track of the history.                                              *)
LEMMA TurnKeepsTrack ==
    ASSUME NEW R, NEW L \in Seq(R), NEW S, NEW C \in Seq(S), NEW t \in Nat, NEW p,
           Len(C) <= MaxEntries, Tracks(C, L, t, p), InTime(L, t),
           NEW row \in R, row.at = t, row.sent = ~Cache!Has(C, KeyOf(row), t),
           [key |-> KeyOf(row), value |-> TRUE, ts |-> t] \in S
    PROVE  LET D == Cache!Remember(C, KeyOf(row), t)
               M == Append(L, row)
           IN  /\ D \in Seq(S) /\ Len(D) <= MaxEntries
               /\ \E q : Tracks(D, M, t, q)
               /\ InTime(M, t)
               /\ SuppressedAt(M, Len(M))
<1> DEFINE key == KeyOf(row)
           D == Cache!Remember(C, key, t)
           M == Append(L, row)
           new == [key |-> key, value |-> TRUE, ts |-> t]
           n == Len(L)
<1>1. /\ M \in Seq(R) /\ n \in Nat /\ Len(M) = n + 1 /\ M[n + 1] = row
      /\ \A m \in 1 .. n : M[m] = L[m]
  OBVIOUS
<1>2. D \in Seq(S) /\ \E g : Follows(D, C, key, t, new, g)
  BY SetIs DEF Cache!Remember
<1>3. PICK g : Follows(D, C, key, t, new, g)
  BY <1>2
<1> HIDE DEF key, D, M, new, n
<1> DEFINE d == Len(D)
<1>4. /\ d \in 1 .. MaxEntries /\ d \in Nat /\ MaxEntries \in Nat
      /\ \A k \in 1 .. d - 1 : g[k] \in 1 .. Len(C) /\ C[g[k]].key # key /\ D[k] = C[g[k]]
      /\ D[d].key = key /\ D[d].ts = t
  <2>1. d \in 1 .. MaxEntries /\ D[d] = new /\ MaxEntries \in Nat
    BY <1>3, LimitAssumption DEF Follows
  <2>2. \A k \in 1 .. d - 1 : g[k] \in Others(C, key, t) /\ D[k] = C[g[k]]
    BY <1>3 DEF Follows
  <2> QED  BY <2>1, <2>2 DEF Others, Fresh, new
<1>5. ASSUME NEW i \in 1 .. Len(C)
      PROVE  /\ p[i] \in 1 .. n /\ IsLast(L, p[i])
             /\ C[i].key = KeyOf(L[p[i]]) /\ C[i].ts = L[p[i]].at
  BY DEF Tracks, n
<1>6. Ttl \in Nat
  BY LimitAssumption
<1> DEFINE q == [k \in 1 .. d |-> IF k = d THEN n + 1 ELSE p[g[k]]]
<1>7. \A k \in 1 .. d : k # d => k \in 1 .. d - 1
  BY <1>4
<1>8. d \in 1 .. d /\ q[d] = n + 1 /\ \A k \in 1 .. d - 1 : k \in 1 .. d /\ k # d /\ q[k] = p[g[k]]
  BY <1>4
<1>9. \A k \in 1 .. d - 1 : q[k] \in 1 .. n
  BY <1>4, <1>5, <1>8
<1>10. q \in [1 .. d -> 1 .. Len(M)]
  <2>1. \A k \in 1 .. d : (IF k = d THEN n + 1 ELSE p[g[k]]) \in 1 .. n + 1
    BY <1>1, <1>4, <1>5, <1>7
  <2> QED  BY <1>1, <2>1
<1> HIDE DEF q, d
<1>11. \A i, j \in 1 .. d : i < j => q[i] < q[j]
  <2> SUFFICES ASSUME NEW i \in 1 .. d, NEW j \in 1 .. d, i < j  PROVE q[i] < q[j]
    OBVIOUS
  <2>1. i \in 1 .. d - 1
    BY <1>4
  <2>2. CASE j = d
    BY <1>1, <1>8, <1>9, <2>1, <2>2
  <2>3. CASE j # d
    <3>1. j \in 1 .. d - 1
      BY <1>7, <2>3
    <3>2. g[i] < g[j]
      BY <1>3, <2>1, <3>1 DEF Follows, d
    <3>3. p[g[i]] < p[g[j]]
      BY <1>4, <2>1, <3>1, <3>2 DEF Tracks
    <3> QED  BY <1>8, <2>1, <3>1, <3>3
  <2> QED  BY <2>2, <2>3
<1>12. ASSUME NEW m \in 1 .. n
       PROVE  IsLast(M, m) <=> IsLast(L, m) /\ KeyOf(L[m]) # key
  <2>1. n \in Nat /\ m \in Nat /\ m <= n /\ 1 <= m
    BY <1>1
  <2>2. \A x \in m + 1 .. n + 1 : x = n + 1 \/ x \in m + 1 .. n
    BY <2>1
  <2>3. \A x \in m + 1 .. n : x \in m + 1 .. n + 1 /\ x \in 1 .. n
    BY <2>1
  <2>4. \A x \in m + 1 .. n + 1 : (x = n + 1 /\ M[x] = row) \/ (x \in m + 1 .. n /\ M[x] = L[x])
    BY <1>1, <2>2, <2>3
  <2>5. \A x \in m + 1 .. n : x \in m + 1 .. n + 1 /\ M[x] = L[x]
    BY <1>1, <2>3
  <2>6. n + 1 \in m + 1 .. n + 1 /\ M[m] = L[m]
    BY <1>1, <2>1
  <2> QED  BY <1>1, <2>4, <2>5, <2>6 DEF IsLast, key, n
<1>13. ASSUME NEW k \in 1 .. d
       PROVE  IsLast(M, q[k]) /\ D[k].key = KeyOf(M[q[k]]) /\ D[k].ts = M[q[k]].at
  <2>1. CASE k = d
    <3>1. IsLast(M, n + 1)
      BY <1>1 DEF IsLast
    <3> QED  BY <1>1, <1>4, <1>8, <2>1, <3>1 DEF key
  <2>2. CASE k # d
    <3>1. k \in 1 .. d - 1
      BY <1>7, <2>2
    <3>2. /\ q[k] = p[g[k]] /\ q[k] \in 1 .. n /\ g[k] \in 1 .. Len(C)
          /\ C[g[k]].key # key /\ D[k] = C[g[k]]
      BY <1>4, <1>8, <1>9, <3>1
    <3>3. IsLast(L, q[k]) /\ C[g[k]].key = KeyOf(L[q[k]]) /\ C[g[k]].ts = L[q[k]].at
      BY <1>5, <3>2
    <3> QED  BY <1>1, <1>12, <3>2, <3>3
  <2> QED  BY <2>1, <2>2
<1>14. ASSUME NEW m \in 1 .. n, IsLast(M, m)
       PROVE  \/ \E k \in 1 .. d : q[k] = m
              \/ M[m].at + Ttl < t
              \/ Cardinality(KeysAfter(M, m)) >= MaxEntries
  <2>1. IsLast(L, m) /\ KeyOf(L[m]) # key /\ M[m] = L[m]
    BY <1>1, <1>12, <1>14
  <2>2. ASSUME NEW i \in 1 .. Len(C), p[i] = m, ~(M[m].at + Ttl < t)
        PROVE  \/ \E k \in 1 .. d : q[k] = m
               \/ Cardinality(KeysAfter(M, m)) >= MaxEntries
    <3>1. i \in Others(C, key, t)
      <4>1. C[i].key = KeyOf(L[m]) /\ C[i].ts = L[m].at /\ C[i].ts \in Nat
        BY <1>5, <2>2 DEF InTime, n
      <4> QED  BY <1>6, <2>1, <2>2, <4>1 DEF Others, Fresh
    <3>2. CASE \E k \in 1 .. d - 1 : g[k] = i
      BY <1>8, <2>2, <3>2
    <3>3. CASE d = MaxEntries /\ \A k \in 1 .. d - 1 : i < g[k]
      <4> DEFINE w == [k \in 1 .. d |-> D[k].key]
      <4>1. ASSUME NEW k \in 1 .. d  PROVE q[k] \in m + 1 .. n + 1
        <5>1. CASE k = d
          BY <1>1, <1>8, <5>1
        <5>2. CASE k # d
          <6>1. k \in 1 .. d - 1
            BY <1>7, <5>2
          <6>2. p[i] < p[g[k]]
            BY <1>4, <3>3, <6>1 DEF Tracks
          <6> QED  BY <1>1, <1>8, <1>9, <2>2, <6>1, <6>2
        <5> QED  BY <5>1, <5>2
      <4>2. ASSUME NEW k \in 1 .. d  PROVE w[k] \in KeysAfter(M, m)
        BY <1>1, <1>13, <4>1, <4>2 DEF KeysAfter, KeysIn
      <4>3. ASSUME NEW k \in 1 .. d, NEW l \in 1 .. d, k < l  PROVE w[k] # w[l]
        <5>1. q[k] < q[l] /\ q[k] \in m + 1 .. n + 1 /\ q[l] \in m + 1 .. n + 1
          BY <1>11, <4>1, <4>3
        <5>2. q[l] \in q[k] + 1 .. Len(M)
          BY <1>1, <5>1
        <5>3. KeyOf(M[q[l]]) # KeyOf(M[q[k]])
          BY <1>13, <5>2 DEF IsLast
        <5> QED  BY <1>13, <5>3
      <4>4. w \in Injection(1 .. d, KeysAfter(M, m))
        <5>1. w \in [1 .. d -> KeysAfter(M, m)]
          BY <4>2
        <5>2. \A k, l \in 1 .. d : k # l => w[k] # w[l]
          <6> SUFFICES ASSUME NEW k \in 1 .. d, NEW l \in 1 .. d, k # l  PROVE w[k] # w[l]
            OBVIOUS
          <6>1. k < l \/ l < k
            BY <1>4
          <6> HIDE DEF w
          <6> QED  BY <4>3, <6>1
        <5> HIDE DEF w
        <5> QED  BY <5>1, <5>2 DEF Injection, IsInjective
      <4>5. IsFiniteSet(KeysAfter(M, m))
        BY <1>1, KeysAfterFinite DEF KeysAfter
      <4>6. Cardinality(1 .. d) <= Cardinality(KeysAfter(M, m))
        <5> HIDE DEF w
        <5> QED  BY <4>4, <4>5, FS_Injection
      <4>7. Cardinality(KeysAfter(M, m)) \in Nat
        BY <4>5, FS_CardinalityType
      <4> QED  BY <1>4, <3>3, <4>6, <4>7, UptoCardinality
    <3> QED  BY <1>3, <3>1, <3>2, <3>3 DEF Follows, d
  <2>3. ASSUME Cardinality(KeysAfter(L, m)) >= MaxEntries
        PROVE  Cardinality(KeysAfter(M, m)) >= MaxEntries
    <3>1. KeysAfter(L, m) \subseteq KeysAfter(M, m)
      <4>1. \A x \in m + 1 .. n : x \in m + 1 .. Len(M) /\ M[x] = L[x]
        BY <1>1
      <4> QED  BY <4>1 DEF KeysAfter, KeysIn, n
    <3>2. IsFiniteSet(KeysAfter(M, m)) /\ Cardinality(KeysAfter(M, m)) \in Nat
      BY <1>1, KeysAfterFinite DEF KeysAfter
    <3>3. Cardinality(KeysAfter(L, m)) <= Cardinality(KeysAfter(M, m))
      BY <3>1, <3>2, FS_Subset
    <3>4. Cardinality(KeysAfter(L, m)) \in Nat
      BY <1>1, KeysAfterFinite DEF KeysAfter, n
    <3> QED  BY <1>4, <2>3, <3>2, <3>3, <3>4
  <2> QED  BY <2>1, <2>2, <2>3 DEF Tracks, n
<1>15. \A m \in 1 .. Len(M) : m # n + 1 => m \in 1 .. n
  BY <1>1
<1>16. Tracks(D, M, t, q)
  <2>1. ASSUME NEW m \in 1 .. Len(M), IsLast(M, m)
        PROVE  \/ \E k \in 1 .. d : q[k] = m
               \/ M[m].at + Ttl < t
               \/ Cardinality(KeysAfter(M, m)) >= MaxEntries
    <3>1. CASE m = n + 1
      BY <1>8, <3>1
    <3>2. CASE m # n + 1
      BY <1>14, <1>15, <2>1, <3>2
    <3> QED  BY <3>1, <3>2
  <2> QED  BY <1>10, <1>11, <1>13, <2>1 DEF Tracks, d
<1>17. InTime(M, t)
  <2>1. \A m \in 1 .. Len(M) : M[m].at \in Nat /\ M[m].at <= t
    BY <1>1, <1>15 DEF InTime, n
  <2>2. ASSUME NEW k \in 1 .. Len(M), NEW m \in 1 .. Len(M), k <= m  PROVE M[k].at <= M[m].at
    <3>1. CASE m = n + 1
      BY <1>1, <2>1, <3>1
    <3>2. CASE m # n + 1
      <4>1. m \in 1 .. n /\ k \in 1 .. n
        BY <1>1, <2>2, <3>2
      <4> QED  BY <1>1, <2>2, <4>1 DEF InTime, n
    <3> QED  BY <3>1, <3>2
  <2> QED  BY <2>1, <2>2 DEF InTime
<1>18. Earlier(M, n + 1) = {j \in 1 .. n : KeyOf(L[j]) = key}
  BY <1>1 DEF Earlier, key
<1>19. CASE row.sent
  <2>1. ASSUME NEW j \in 1 .. n, KeyOf(L[j]) = key
        PROVE  \/ t > L[j].at + Ttl
               \/ Cardinality(KeysIn(M, j, n) \ {key}) >= MaxEntries
    <3>1. PICK m \in j .. n : KeyOf(L[m]) = key /\ IsLast(L, m)
      <4>1. n \in Nat
        BY <1>1
      <4> QED  BY <2>1, <4>1, LastTurn DEF n
    <3>2. m \in 1 .. n /\ L[j].at <= L[m].at /\ L[j].at \in Nat /\ L[m].at \in Nat
      BY <1>1 DEF InTime, n
    <3>3. ASSUME NEW i \in 1 .. Len(C), p[i] = m  PROVE L[m].at + Ttl < t
      <4>1. C[i].key = key /\ C[i].ts = L[m].at
        BY <1>5, <3>1, <3>3
      <4>2. ~ \E l \in Fresh(C, t) : C[l].key = key
        BY <1>19, HasIs DEF key
      <4> QED  BY <1>6, <3>2, <4>1, <4>2 DEF Fresh
    <3>4. ASSUME Cardinality(KeysAfter(L, m)) >= MaxEntries
          PROVE  Cardinality(KeysIn(M, j, n) \ {key}) >= MaxEntries
      <4> DEFINE K == KeysIn(M, j, n)
      <4>1. KeysAfter(L, m) \subseteq K \ {key}
        <5>1. \A x \in m + 1 .. n : x \in j + 1 .. n /\ M[x] = L[x] /\ KeyOf(L[x]) # key
          BY <1>1, <3>1, <3>2 DEF IsLast, n
        <5> QED  BY <5>1 DEF KeysAfter, KeysIn, n
      <4>2. IsFiniteSet(K)
        BY <1>1, KeysAfterFinite
      <4> HIDE DEF K
      <4>3. IsFiniteSet(K \ {key}) /\ Cardinality(K \ {key}) \in Nat
        BY <4>2, FS_Subset, FS_CardinalityType
      <4>4. Cardinality(KeysAfter(L, m)) <= Cardinality(K \ {key})
        BY <4>1, <4>3, FS_Subset
      <4>5. Cardinality(KeysAfter(L, m)) \in Nat
        BY <1>1, <3>2, KeysAfterFinite DEF KeysAfter, n
      <4> QED  BY <1>4, <3>4, <4>3, <4>4, <4>5 DEF K
    <3>5. \/ \E i \in 1 .. Len(C) : p[i] = m
          \/ L[m].at + Ttl < t
          \/ Cardinality(KeysAfter(L, m)) >= MaxEntries
      BY <3>1, <3>2 DEF Tracks, n
    <3>6. L[m].at + Ttl < t => t > L[j].at + Ttl
      BY <1>6, <3>2
    <3> QED  BY <3>3, <3>4, <3>5, <3>6
  <2>2. \A j \in 1 .. n : M[j] = L[j]
    BY <1>1
  <2>3. (n + 1) - 1 = n /\ M[n + 1] = row
    BY <1>1
  <2>4. SuppressedAt(M, n + 1)
    BY <1>18, <1>19, <2>1, <2>2, <2>3 DEF SuppressedAt, key
  <2> QED  BY <1>1, <1>2, <1>4, <1>16, <1>17, <2>4 DEF D, M, key, d
<1>20. CASE ~row.sent
  <2>1. PICK i \in Fresh(C, t) : C[i].key = key
    <3>1. Cache!Has(C, key, t)
      BY <1>20 DEF key
    <3> QED  BY <3>1, HasIs
  <2>2. /\ p[i] \in 1 .. n /\ KeyOf(L[p[i]]) = key /\ L[p[i]].at = C[i].ts
        /\ C[i].ts + Ttl >= t /\ C[i].ts \in Nat
    BY <1>5, <2>1 DEF Fresh, InTime, n
  <2>3. SuppressedAt(M, n + 1)
    <3>1. p[i] \in Earlier(M, n + 1) /\ M[p[i]] = L[p[i]]
      BY <1>1, <1>18, <2>2
    <3>2. M[n + 1].at <= M[p[i]].at + Ttl
      BY <1>1, <1>6, <2>2, <3>1
    <3> QED  BY <1>1, <1>20, <3>1, <3>2 DEF SuppressedAt
  <2> QED  BY <1>1, <1>2, <1>4, <1>16, <1>17, <2>3 DEF D, M, key, d
<1> QED  BY <1>19, <1>20

-------------------------------------------------------------------------------
(* The loop of emitForToolCall. *)
Entry     == [key : Key, value : {TRUE}, ts : 0 .. now]
Snapshots == UNION {[F -> Content] : F \in SUBSET Dream}
Sending   == {a \in [dedupe : Seq(Entry), log : Seq(Row), snapshots : Snapshots] :
                Len(a.dedupe) <= MaxEntries}

(* What the properties of the log rest on. *)
Sound(C, L) == /\ \E p : Tracks(C, L, now, p)
               /\ InTime(L, now)
               /\ \A k \in 1 .. Len(L) : SuppressedAt(L, k)

Index(records, i) == IF Len(records) = 1 THEN 0 ELSE i

(* No hook of this kind has fired under an id of this call.                 *)
Unfired(kind, c) == \A x \in 1 .. Len(log), index \in Nat : KeyOf(log[x]) # DedupeKey(kind, c, index)

(* The rows of the first i records follow the log there was, and none is    *)
(* suppressed when the hook fires for the first time.                       *)
Rowed(kind, c, records, i, L) ==
    /\ Len(L) = Len(log) + i
    /\ \A x \in 1 .. Len(log) : L[x] = log[x]
    /\ \A x \in 1 .. i : LET row == L[Len(log) + x]
                         IN  /\ row.type = kind /\ row.call = c /\ row.at = now
                             /\ row.index = Index(records, x)
                             /\ row.operation = records[x].operation
                             /\ Unfired(kind, c) => row.sent

(* A snapshot is as it was or as the file is now; the latter for the files  *)
(* of a result that is sent.                                                *)
Noted(kind, c, records, i, S) ==
    /\ \A f \in DOMAIN snapshots : f \in DOMAIN S /\ (S[f] = snapshots[f] \/ S[f] = disk[f])
    /\ \A f \in DOMAIN S : f \in DOMAIN snapshots \/ S[f] = disk[f]
    /\ Unfired(kind, c) /\ kind = "result" =>
          \A x \in 1 .. i : records[x].file \in Dream =>
              records[x].file \in DOMAIN S /\ S[records[x].file] = disk[records[x].file]

Turned(kind, c, records, i, a) ==
    /\ a \in Sending
    /\ Sound(a.dedupe, a.log)
    /\ Rowed(kind, c, records, i, a.log)
    /\ Noted(kind, c, records, i, a.snapshots)

LEMMA SuppressedStays ==
    ASSUME NEW L, NEW M, Len(L) \in Nat, NEW k \in 1 .. Len(L),
           \A x \in 1 .. Len(L) : M[x] = L[x]
    PROVE  SuppressedAt(M, k) <=> SuppressedAt(L, k)
<1>1. M[k] = L[k] /\ \A j \in 1 .. k - 1 : j \in 1 .. Len(L) /\ M[j] = L[j]
  OBVIOUS
<1>2. Earlier(M, k) = Earlier(L, k)
  BY <1>1 DEF Earlier
<1>3. ASSUME NEW j \in Earlier(L, k)  PROVE KeysIn(M, j, k - 1) = KeysIn(L, j, k - 1) /\ M[j] = L[j]
  <2>1. j \in 1 .. k - 1
    BY DEF Earlier
  <2>2. \A x \in j + 1 .. k - 1 : M[x] = L[x]
    BY <1>1, <2>1
  <2> QED  BY <1>1, <2>1, <2>2 DEF KeysIn
<1> QED  BY <1>1, <1>2, <1>3 DEF SuppressedAt

LEMMA NoteType ==
    ASSUME disk \in [File -> Content], Dream \subseteq File, NEW S \in Snapshots, NEW f \in File
    PROVE  /\ Note(S, f) \in Snapshots
           /\ DOMAIN Note(S, f) = IF f \in Dream THEN DOMAIN S \cup {f} ELSE DOMAIN S
           /\ \A g \in DOMAIN S : Note(S, f)[g] = IF f \in Dream /\ g = f THEN disk[f] ELSE S[g]
           /\ f \in Dream => Note(S, f)[f] = disk[f]
<1>1. PICK F \in SUBSET Dream : S \in [F -> Content]
  BY DEF Snapshots
<1>2. CASE f \in Dream
  <2> DEFINE N == [g \in F \cup {f} |-> IF g = f THEN disk[f] ELSE S[g]]
  <2>1. Note(S, f) = N
    BY <1>1, <1>2 DEF Note
  <2>2. N \in [F \cup {f} -> Content] /\ F \cup {f} \in SUBSET Dream
    BY <1>1, <1>2
  <2>3. N \in Snapshots
    <3> HIDE DEF N
    <3> QED  BY <2>2 DEF Snapshots
  <2> QED  BY <1>1, <1>2, <2>1, <2>3
<1>3. CASE f \notin Dream
  BY <1>1, <1>3 DEF Note
<1> QED  BY <1>2, <1>3

LEMMA TurnType ==
    ASSUME TypeOK, NEW kind \in {"intent", "result"}, NEW c \in Call, NEW records \in Seq(Record),
           NEW i \in 1 .. Len(records), NEW a \in Sending,
           NEW sent \in BOOLEAN
    PROVE  LET index == Index(records, i)
               row == [type |-> kind, call |-> c, index |-> index, at |-> now, sent |-> sent,
                       operation |-> records[i].operation, file |-> records[i].file,
                       outcome |-> records[i].outcome]
           IN  /\ row \in Row /\ records[i].file \in File
               /\ KeyOf(row) = DedupeKey(kind, c, index)
               /\ [key |-> DedupeKey(kind, c, index), value |-> TRUE, ts |-> now] \in Entry
<1> DEFINE index == Index(records, i)
           row == [type |-> kind, call |-> c, index |-> index, at |-> now, sent |-> sent,
                   operation |-> records[i].operation, file |-> records[i].file,
                   outcome |-> records[i].outcome]
<1>1. index \in Nat /\ now \in 0 .. now
  BY DEF TypeOK, Index
<1>2. records[i] \in Record
  OBVIOUS
<1>3. DedupeKey(kind, c, index) \in Key
  <2> HIDE DEF index
  <2>1. Event[c].tool \in {"write", "patch"} /\ Event[c].id \in Id
        /\ Event[c].args \in {Event[d].args : d \in Call}
    BY EventAssumption DEF Id
  <2> QED  BY <1>1, <2>1 DEF DedupeKey, Key
<1>4. row \in Row
  <2> HIDE DEF index
  <2> QED  BY <1>1, <1>2 DEF Row, Record
<1>5. [key |-> DedupeKey(kind, c, index), value |-> TRUE, ts |-> now] \in Entry
  BY <1>1, <1>3 DEF Entry
<1>6. records[i].file \in File
  BY <1>2 DEF Record
<1> QED  BY <1>4, <1>5, <1>6 DEF KeyOf

(* One turn. *)
LEMMA TurnStep ==
    ASSUME TypeOK, NEW kind \in {"intent", "result"}, NEW c \in Call, NEW records \in Seq(Record),
           NEW i \in 1 .. Len(records), NEW a, Turned(kind, c, records, i - 1, a)
    PROVE  Turned(kind, c, records, i, EmitRecord(kind, c, records, i, a))
<1> DEFINE index == Index(records, i)
           key == DedupeKey(kind, c, index)
           new == ~Cache!Has(a.dedupe, key, now)
           row == [type |-> kind, call |-> c, index |-> index, at |-> now, sent |-> new,
                   operation |-> records[i].operation, file |-> records[i].file,
                   outcome |-> records[i].outcome]
           D == Cache!Remember(a.dedupe, key, now)
           M == Append(a.log, row)
           S == IF new /\ kind = "result" THEN Note(a.snapshots, records[i].file) ELSE a.snapshots
           b == [dedupe |-> D, log |-> M, snapshots |-> S]
<1>1. EmitRecord(kind, c, records, i, a) = b
  BY DEF EmitRecord, Index
<1>2. /\ a \in Sending /\ a.dedupe \in Seq(Entry) /\ a.log \in Seq(Row) /\ a.snapshots \in Snapshots
      /\ Len(a.dedupe) <= MaxEntries
      /\ Sound(a.dedupe, a.log)
      /\ Rowed(kind, c, records, i - 1, a.log)
      /\ Noted(kind, c, records, i - 1, a.snapshots)
  BY DEF Turned, Sending
<1>3. now \in Nat /\ i \in Nat /\ log \in Seq(Row)
  BY DEF TypeOK
<1>4. new \in BOOLEAN
  BY DEF Cache!Has
<1>5. /\ row \in Row /\ KeyOf(row) = key /\ records[i].file \in File
      /\ [key |-> key, value |-> TRUE, ts |-> now] \in Entry
  <2> HIDE DEF new
  <2> QED  BY <1>2, <1>4, TurnType
<1>6. /\ row.type = kind /\ row.call = c /\ row.index = index /\ row.at = now /\ row.sent = new
      /\ row.operation = records[i].operation
  OBVIOUS
<1>7. b.dedupe = D /\ b.log = M /\ b.snapshots = S
  OBVIOUS
<1>8. index \in Nat
  BY <1>3 DEF Index
<1> HIDE DEF row, key, index
<1>9. PICK p : Tracks(a.dedupe, a.log, now, p)
  BY <1>2 DEF Sound
<1>10. /\ D \in Seq(Entry) /\ Len(D) <= MaxEntries
       /\ \E q : Tracks(D, M, now, q)
       /\ InTime(M, now)
       /\ SuppressedAt(M, Len(M))
  <2>1. row.sent = ~Cache!Has(a.dedupe, KeyOf(row), now)
    BY <1>5, <1>6
  <2>2. InTime(a.log, now)
    BY <1>2 DEF Sound
  <2>3. [key |-> KeyOf(row), value |-> TRUE, ts |-> now] \in Entry
    BY <1>5
  <2> DEFINE D2 == Cache!Remember(a.dedupe, KeyOf(row), now)
  <2>4. /\ D2 \in Seq(Entry) /\ Len(D2) <= MaxEntries
        /\ \E q : Tracks(D2, M, now, q)
        /\ InTime(M, now)
        /\ SuppressedAt(M, Len(M))
    BY <1>2, <1>3, <1>5, <1>6, <1>9, <2>1, <2>2, <2>3, TurnKeepsTrack
  <2>5. D2 = D
    BY <1>5
  <2> HIDE DEF D2, D, M
  <2> QED  BY <2>4, <2>5
<1> DEFINE n == Len(a.log)
<1>11. /\ M \in Seq(Row) /\ n \in Nat /\ Len(M) = n + 1 /\ M[n + 1] = row
       /\ \A x \in 1 .. n : M[x] = a.log[x]
  BY <1>2, <1>5
<1>12. Sound(D, M)
  <2> HIDE DEF D, M, n
  <2>1. ASSUME NEW k \in 1 .. Len(M)  PROVE SuppressedAt(M, k)
    <3>1. CASE k = n + 1
      BY <1>10, <1>11, <3>1
    <3>2. CASE k # n + 1
      <4>1. k \in 1 .. n
        BY <1>11, <3>2
      <4>2. SuppressedAt(a.log, k)
        BY <1>2, <4>1 DEF Sound, n
      <4> QED  BY <1>11, <4>1, <4>2, SuppressedStays DEF n
    <3> QED  BY <3>1, <3>2
  <2> QED  BY <1>10, <2>1 DEF Sound
<1>13. n = Len(log) + (i - 1) /\ Len(log) \in Nat /\ n + 1 = Len(log) + i
  BY <1>2, <1>3 DEF Rowed
<1> HIDE DEF M, n
<1>14. ASSUME Unfired(kind, c)  PROVE new
  <2>1. ASSUME NEW k \in Fresh(a.dedupe, now), a.dedupe[k].key = key  PROVE FALSE
    <3>1. k \in 1 .. Len(a.dedupe)
      BY DEF Fresh
    <3>2. p[k] \in 1 .. n /\ KeyOf(a.log[p[k]]) = key
      BY <1>9, <2>1, <3>1 DEF Tracks, n
    <3>3. CASE p[k] <= Len(log)
      <4>1. p[k] \in 1 .. Len(log) /\ a.log[p[k]] = log[p[k]]
        BY <1>2, <1>11, <1>13, <3>2, <3>3 DEF Rowed
      <4> QED  BY <1>8, <1>14, <3>2, <4>1 DEF Unfired, key
    <3>4. CASE ~(p[k] <= Len(log))
      <4> DEFINE x == p[k] - Len(log)
      <4>1. x \in 1 .. i - 1 /\ Len(log) + x = p[k]
        BY <1>3, <1>11, <1>13, <3>2, <3>4
      <4>2. a.log[p[k]].index = Index(records, x)
        <5> HIDE DEF x
        <5> QED  BY <1>2, <4>1 DEF Rowed
      <4>3. a.log[p[k]].index = index
        BY <3>2 DEF KeyOf, DedupeKey, key
      <4> HIDE DEF x
      <4>4. Len(records) # 1 /\ x # i
        <5> DEFINE l == Len(records)
        <5>1. l \in Nat /\ i \in 1 .. l
          OBVIOUS
        <5> HIDE DEF l
        <5>2. i \in Nat /\ x \in 1 .. i - 1
          BY <1>3, <4>1
        <5>3. l # 1 /\ x # i
          BY <5>1, <5>2
        <5> QED  BY <5>3 DEF l
      <4> QED  BY <4>2, <4>3, <4>4 DEF Index, index
    <3> QED  BY <3>3, <3>4
  <2>2. Cache!Has(a.dedupe, key, now) <=> \E k \in Fresh(a.dedupe, now) : a.dedupe[k].key = key
    BY <1>2, HasIs
  <2> QED  BY <2>1, <2>2
<1> HIDE DEF new
<1>15. Rowed(kind, c, records, i, M)
  <2>1. Len(M) = Len(log) + i
    BY <1>11, <1>13
  <2>2. \A x \in 1 .. Len(log) : M[x] = log[x]
    <3>1. \A x \in 1 .. Len(log) : x \in 1 .. n /\ a.log[x] = log[x]
      BY <1>2, <1>3, <1>13 DEF Rowed
    <3> QED  BY <1>11, <3>1
  <2>3. ASSUME NEW x \in 1 .. i
        PROVE  LET r == M[Len(log) + x]
               IN  /\ r.type = kind /\ r.call = c /\ r.at = now
                   /\ r.index = Index(records, x)
                   /\ r.operation = records[x].operation
                   /\ Unfired(kind, c) => r.sent
    <3>1. CASE x = i
      <4>1. M[Len(log) + x] = row
        BY <1>11, <1>13, <3>1
      <4> QED  BY <1>6, <1>14, <3>1, <4>1 DEF index
    <3>2. CASE x # i
      <4>1. x \in 1 .. i - 1 /\ Len(log) + x \in 1 .. n
        BY <1>3, <1>13, <3>2
      <4>2. M[Len(log) + x] = a.log[Len(log) + x]
        BY <1>11, <4>1
      <4> QED  BY <1>2, <4>1, <4>2 DEF Rowed
    <3> QED  BY <3>1, <3>2
  <2> QED  BY <2>1, <2>2, <2>3 DEF Rowed
<1>16. disk \in [File -> Content] /\ Dream \subseteq File
  BY EventAssumption DEF TypeOK
<1> DEFINE f == records[i].file
<1>17. /\ S \in Snapshots
       /\ \A g \in DOMAIN a.snapshots : g \in DOMAIN S /\ (S[g] = a.snapshots[g] \/ S[g] = disk[g])
       /\ \A g \in DOMAIN S : g \in DOMAIN a.snapshots \/ S[g] = disk[g]
       /\ new /\ kind = "result" /\ f \in Dream => f \in DOMAIN S /\ S[f] = disk[f]
  <2>1. CASE new /\ kind = "result"
    <3>1. S = Note(a.snapshots, f)
      BY <2>1
    <3> HIDE DEF S, f
    <3>2. f \in File
      BY <1>5 DEF f
    <3>3. /\ Note(a.snapshots, f) \in Snapshots
          /\ DOMAIN Note(a.snapshots, f) = IF f \in Dream THEN DOMAIN a.snapshots \cup {f}
                                                          ELSE DOMAIN a.snapshots
          /\ \A g \in DOMAIN a.snapshots :
               Note(a.snapshots, f)[g] = IF f \in Dream /\ g = f THEN disk[f] ELSE a.snapshots[g]
          /\ f \in Dream => Note(a.snapshots, f)[f] = disk[f]
      BY <1>2, <1>16, <3>2, NoteType
    <3> QED  BY <3>1, <3>3
  <2>2. CASE ~(new /\ kind = "result")
    <3>1. S = a.snapshots
      BY <2>2
    <3> HIDE DEF S
    <3> QED  BY <1>2, <2>2, <3>1
  <2> QED  BY <2>1, <2>2
<1> HIDE DEF S, D, f
<1>18. Noted(kind, c, records, i, S)
  <2>1. \A g \in DOMAIN snapshots : g \in DOMAIN S /\ (S[g] = snapshots[g] \/ S[g] = disk[g])
    BY <1>2, <1>17 DEF Noted
  <2>2. \A g \in DOMAIN S : g \in DOMAIN snapshots \/ S[g] = disk[g]
    BY <1>2, <1>17 DEF Noted
  <2>3. ASSUME Unfired(kind, c), kind = "result", NEW x \in 1 .. i, records[x].file \in Dream
        PROVE  records[x].file \in DOMAIN S /\ S[records[x].file] = disk[records[x].file]
    <3>1. CASE x = i
      BY <1>14, <1>17, <2>3, <3>1 DEF f
    <3>2. CASE x # i
      <4>1. x \in 1 .. i - 1
        BY <1>3, <3>2
      <4>2. records[x].file \in DOMAIN a.snapshots
            /\ a.snapshots[records[x].file] = disk[records[x].file]
        BY <1>2, <2>3, <4>1 DEF Noted
      <4> QED  BY <1>17, <4>2
    <3> QED  BY <3>1, <3>2
  <2> QED  BY <2>1, <2>2, <2>3 DEF Noted
<1>19. b \in Sending
  <2>1. b \in [dedupe : Seq(Entry), log : Seq(Row), snapshots : Snapshots]
    BY <1>10, <1>11, <1>17
  <2> QED  BY <1>7, <1>10, <2>1 DEF Sending
<1> HIDE DEF b
<1> QED  BY <1>1, <1>7, <1>12, <1>15, <1>18, <1>19 DEF Turned

(* All the turns. *)
LEMMA EmitTurned ==
    ASSUME TypeOK, Sound(dedupe, log), NEW kind \in {"intent", "result"}, NEW c \in Call,
           NEW records \in Seq(Record), Emit(kind, c, records)
    PROVE  \E a : /\ Turned(kind, c, records, Len(records), a)
                  /\ dedupe' = a.dedupe /\ log' = a.log /\ snapshots' = a.snapshots
<1> DEFINE n == Len(records)
           a0 == [dedupe |-> dedupe, log |-> log, snapshots |-> snapshots]
           A == {a \in Sending : \E i \in 0 .. n : Turned(kind, c, records, i, a)}
           Turn(i, a) == EmitRecord(kind, c, records, i, a)
           Runs(r) == r = [i \in 0 .. n |-> IF i = 0 THEN a0 ELSE Turn(i, r[i - 1])]
           run == CHOOSE r : Runs(r)
<1>1. n \in Nat
  OBVIOUS
<1>2. dedupe' = run[n].dedupe /\ log' = run[n].log /\ snapshots' = run[n].snapshots
  BY DEF Emit
<1>3. Turned(kind, c, records, 0, a0)
  <2>1. a0 \in Sending
    BY DEF TypeOK, Sending, Entry, Snapshots
  <2>2. Rowed(kind, c, records, 0, log)
    BY DEF Rowed, TypeOK
  <2>3. Noted(kind, c, records, 0, snapshots)
    BY DEF Noted
  <2> QED  BY <2>1, <2>2, <2>3 DEF Turned
<1>4. ASSUME NEW i \in 1 .. n, NEW a, Turned(kind, c, records, i - 1, a)
      PROVE  Turned(kind, c, records, i, Turn(i, a))
  BY <1>4, TurnStep
<1> HIDE DEF a0, run, Turn, n
<1> DEFINE Upto(m, r) == /\ DOMAIN r = 0 .. m
                         /\ \A i \in 0 .. m : r[i] = IF i = 0 THEN a0 ELSE Turn(i, r[i - 1])
           T == {m \in 0 .. n : ~ \E r : Upto(m, r)}
<1>5. ASSUME T # {}  PROVE FALSE
  <2>1. PICK m \in T : \A l \in T : m <= l
    <3>1. T \in SUBSET Nat
      OBVIOUS
    <3> HIDE DEF T
    <3> QED  BY <1>5, <3>1, NatMin
  <2>2. m \in 0 .. n /\ ~ \E r : Upto(m, r)
    BY <2>1
  <2>3. m # 0
    <3>1. Upto(0, [i \in 0 .. 0 |-> a0])
      OBVIOUS
    <3> HIDE DEF Upto
    <3> QED  BY <2>2, <3>1
  <2>4. m - 1 \in 0 .. n /\ m - 1 \notin T /\ m \in 1 .. n /\ m \in Nat
    <3> HIDE DEF T
    <3> QED  BY <1>1, <2>1, <2>2, <2>3
  <2>5. PICK r : Upto(m - 1, r)
    BY <2>4
  <2> DEFINE q == [i \in 0 .. m |-> IF i = m THEN Turn(m, r[m - 1]) ELSE r[i]]
  <2>6. ASSUME NEW i \in 0 .. m
        PROVE  q[i] = IF i = 0 THEN a0 ELSE Turn(i, q[i - 1])
    <3>1. CASE i = m
      <4>1. m - 1 \in 0 .. m /\ m - 1 # m
        BY <2>4
      <4>2. q[m - 1] = r[m - 1] /\ q[m] = Turn(m, r[m - 1])
        BY <4>1, <2>4
      <4> HIDE DEF q
      <4> QED  BY <2>3, <3>1, <4>2
    <3>2. CASE i # m
      <4>1. i \in 0 .. m - 1 /\ (i # 0 => i - 1 \in 0 .. m /\ i - 1 # m)
        BY <2>4, <3>2
      <4>2. q[i] = r[i] /\ (i # 0 => q[i - 1] = r[i - 1])
        BY <3>2, <4>1
      <4> HIDE DEF q
      <4> QED  BY <2>5, <4>1, <4>2
    <3> QED  BY <3>1, <3>2
  <2>7. DOMAIN q = 0 .. m
    OBVIOUS
  <2> HIDE DEF q
  <2>8. Upto(m, q)
    BY <2>6, <2>7
  <2> HIDE DEF Upto
  <2> QED  BY <2>2, <2>8
<1>6. n \in 0 .. n
  BY <1>1
<1>7. PICK r : Upto(n, r)
  <2> HIDE DEF Upto
  <2> QED  BY <1>5, <1>6
<1>8. Runs([i \in 0 .. n |-> r[i]])
  <2>1. \A i \in 0 .. n : i # 0 => i - 1 \in 0 .. n
    BY <1>1
  <2> QED  BY <1>7, <2>1
<1>9. Runs(run)
  <2> HIDE DEF Runs
  <2> QED  BY <1>8 DEF run
<1>10. run[0] = a0 /\ \A i \in 1 .. n : run[i] = Turn(i, run[i - 1])
  <2>1. 0 \in 0 .. n /\ \A i \in 1 .. n : i \in 0 .. n /\ i # 0
    BY <1>1
  <2> QED  BY <1>9, <2>1
<1> HIDE DEF Runs
<1> DEFINE U == {i \in 0 .. n : ~Turned(kind, c, records, i, run[i])}
<1>11. ASSUME U # {}  PROVE FALSE
  <2>1. PICK m \in U : \A l \in U : m <= l
    <3>1. U \in SUBSET Nat
      OBVIOUS
    <3> HIDE DEF U
    <3> QED  BY <1>11, <3>1, NatMin
  <2>2. m \in 0 .. n /\ ~Turned(kind, c, records, m, run[m])
    BY <2>1
  <2>3. m # 0
    BY <1>3, <1>10, <2>2
  <2>4. m - 1 \in 0 .. n /\ m - 1 \notin U /\ m \in 1 .. n
    <3> HIDE DEF U
    <3> QED  BY <1>1, <2>1, <2>2, <2>3
  <2>5. Turned(kind, c, records, m - 1, run[m - 1])
    BY <2>4
  <2> QED  BY <1>4, <1>10, <2>2, <2>4, <2>5
<1>12. Turned(kind, c, records, n, run[n])
  BY <1>6, <1>11
<1> QED  BY <1>2, <1>12 DEF n

-------------------------------------------------------------------------------
(* What the hooks keep. *)
Before(c) == Event[c].before
After(c)  == Event[c].after
Open(c)   == phase[c] \in {"begun", "ran"}

(* Only hooks that have fired have rows. *)
RowsInPhase ==
    \A x \in 1 .. Len(log) : /\ log[x].type = "intent" => phase[log[x].call] # "new"
                             /\ log[x].type = "result" => phase[log[x].call] = "done"

(* The rows of a call in a history. *)
SentIn(L, kind, c) == {L[k] : k \in {j \in DOMAIN L : L[j].type = kind /\ L[j].call = c /\ L[j].sent}}

(* Each of the records of a hook that has fired has been sent under its call id. *)
Places(n) == IF n = 1 THEN {0} ELSE 1 .. n
IndexesSent ==
    \A c \in Call : OwnId(c) =>
        /\ {i.index : i \in SentIn(log, "intent", c)}
             = IF phase[c] = "new" THEN {} ELSE Places(Len(Before(c)))
        /\ {r.index : r \in SentIn(log, "result", c)}
             = IF phase[c] = "done" THEN Places(Len(After(c))) ELSE {}

(* What pending holds are the records of calls that have not ended. *)
PendingOpen ==
    \A k \in 1 .. Len(pending) :
        /\ pending[k].value # <<>>
        /\ \E d \in Call : Open(d) /\ Event[d].id = pending[k].key
                           /\ Len(pending[k].value) = Len(Before(d))

HInv == TypeOK /\ Sound(dedupe, log) /\ RowsInPhase /\ IndexesSent /\ PendingOpen

Pending == [key : Id, value : Seq(Record), ts : 0 .. now]

\* The records an after hook sends.
Closing(c) == LET current == Records(c, After(c))
              IN  IF Cache!Has(pending, Event[c].id, now)
                  THEN ResultRecords(current, Cache!Value(pending, Event[c].id, now))
                  ELSE Unattributed(current)

LEMMA EventType ==
    ASSUME NEW c \in Call
    PROVE  /\ Before(c) \in Seq(File) /\ After(c) \in Seq(File)
           /\ Len(Before(c)) \in {0, Len(After(c))} /\ Event[c].id \in Id
BY EventAssumption DEF Before, After, Id

LEMMA RecordsType ==
    ASSUME TypeOK, NEW c \in Call, NEW files \in Seq(File)
    PROVE  /\ Records(c, files) \in Seq(Record) /\ Len(Records(c, files)) = Len(files)
           /\ \A i \in 1 .. Len(files) : Records(c, files)[i].file = files[i]
<1>1. Len(files) \in Nat /\ DOMAIN files = 1 .. Len(files) /\ \A i \in 1 .. Len(files) : files[i] \in File
  OBVIOUS
<1> DEFINE R(i) == [operation |-> Operation(c, files[i]), file |-> files[i], outcome |-> "ok"]
<1>2. Records(c, files) = [i \in 1 .. Len(files) |-> R(i)]
  BY <1>1 DEF Records
<1>3. \A i \in 1 .. Len(files) : R(i) \in Record /\ R(i).file = files[i]
  BY <1>1 DEF Record, Operation
<1> HIDE DEF R
<1>4. Records(c, files) \in [1 .. Len(files) -> Record]
  BY <1>2, <1>3
<1> QED  BY <1>1, <1>2, <1>3, <1>4

LEMMA ClosingType ==
    ASSUME TypeOK, PendingOpen, NEW c \in Call
    PROVE  /\ Closing(c) \in Seq(Record)
           /\ OwnId(c) => /\ Len(Closing(c)) = Len(After(c))
                          /\ \A i \in 1 .. Len(After(c)) : Closing(c)[i].file = After(c)[i]
                          /\ Cache!Has(pending, Event[c].id, now) =>
                               \E k \in Fresh(pending, now) :
                                  /\ pending[k].key = Event[c].id
                                  /\ \A i \in 1 .. Len(After(c)) :
                                       Closing(c)[i].operation = pending[k].value[i].operation
<1> DEFINE cur == Records(c, After(c))
           n == Len(After(c))
           id == Event[c].id
           has == Cache!Has(pending, id, now)
           found == Cache!Value(pending, id, now)
<1>1. /\ cur \in Seq(Record) /\ Len(cur) = n /\ n \in Nat
      /\ \A i \in 1 .. n : cur[i].file = After(c)[i] /\ cur[i] \in Record
  <2>1. After(c) \in Seq(File)
    BY EventType
  <2>2. cur \in Seq(Record) /\ Len(cur) = n /\ \A i \in 1 .. n : cur[i].file = After(c)[i]
    BY <2>1, RecordsType
  <2> HIDE DEF cur
  <2> QED  BY <2>1, <2>2
<1>2. Closing(c) = IF has THEN ResultRecords(cur, found) ELSE Unattributed(cur)
  BY DEF Closing
<1>3. pending \in Seq(Pending) /\ Len(pending) <= MaxEntries
  BY DEF TypeOK, Pending
<1> HIDE DEF cur, n, id, found
<1>4. DOMAIN cur = 1 .. n
  BY <1>1
<1>5. CASE ~has
  <2> DEFINE U(i) == [cur[i] EXCEPT !.outcome = "unattributed"]
  <2>1. Closing(c) = [i \in 1 .. n |-> U(i)]
    BY <1>2, <1>4, <1>5 DEF Unattributed
  <2>2. \A i \in 1 .. n : U(i) \in Record /\ U(i).file = After(c)[i]
    BY <1>1 DEF Record
  <2> HIDE DEF U, has
  <2>3. Closing(c) \in [1 .. n -> Record]
    BY <2>1, <2>2
  <2>4. Closing(c) \in Seq(Record) /\ Len(Closing(c)) = n
    BY <1>1, <2>3
  <2>5. \A i \in 1 .. n : Closing(c)[i].file = After(c)[i]
    BY <2>1, <2>2
  <2> QED  BY <1>5, <2>4, <2>5 DEF n, has, id
<1>6. CASE has
  <2>1. PICK k \in Fresh(pending, now) : pending[k].key = id /\ found = pending[k].value
    BY <1>3, <1>6, ValueIs DEF found
  <2> HIDE DEF has
  <2>2. k \in 1 .. Len(pending) /\ pending[k] \in Pending
    BY <1>3, <2>1 DEF Fresh
  <2>3. found \in Seq(Record) /\ found # <<>>
    BY <2>1, <2>2 DEF Pending, PendingOpen
  <2>4. CASE Len(cur) = Len(found) /\ cur # <<>>
    <3> DEFINE U(i) == [cur[i] EXCEPT !.operation = found[i].operation]
    <3>1. Closing(c) = [i \in 1 .. n |-> U(i)]
      BY <1>2, <1>4, <1>6, <2>4 DEF ResultRecords
    <3>2. \A i \in 1 .. n : found[i] \in Record
      BY <1>1, <2>3, <2>4
    <3>3. \A i \in 1 .. n : /\ U(i) \in Record /\ U(i).file = After(c)[i]
                            /\ U(i).operation = found[i].operation
      BY <1>1, <3>2 DEF Record
    <3> HIDE DEF U
    <3>4. Closing(c) \in [1 .. n -> Record]
      BY <3>1, <3>3
    <3>5. Closing(c) \in Seq(Record) /\ Len(Closing(c)) = n
      BY <1>1, <3>4
    <3>6. \A i \in 1 .. n : /\ Closing(c)[i].file = After(c)[i]
                            /\ Closing(c)[i].operation = pending[k].value[i].operation
      BY <2>1, <3>1, <3>3
    <3> QED  BY <2>1, <3>5, <3>6 DEF n, id
  <2>5. CASE ~(Len(cur) = Len(found) /\ cur # <<>>)
    <3>1. Closing(c) = found
      BY <1>2, <1>6, <2>5 DEF ResultRecords
    <3>2. ASSUME OwnId(c)  PROVE FALSE
      <4>1. PICK d \in Call : Event[d].id = id /\ Len(found) = Len(Before(d))
        BY <2>1, <2>2 DEF PendingOpen
      <4>2. d = c
        BY <3>2, <4>1 DEF OwnId, id
      <4>3. Len(found) \in {0, n}
        BY <4>1, <4>2, EventType DEF n
      <4>4. Len(found) # 0
        BY <2>3
      <4>5. Len(cur) = Len(found) /\ cur # <<>>
        BY <1>1, <4>3, <4>4
      <4> QED  BY <2>5, <4>5
    <3> QED  BY <2>3, <3>1, <3>2
  <2> QED  BY <2>4, <2>5
<1> QED  BY <1>5, <1>6

(* The two hooks, by their turns. *)
LEMMA BeforeTurns ==
    ASSUME TypeOK, Sound(dedupe, log), NEW c \in Call, BeforeToolCall(c)
    PROVE  LET records == Records(c, Before(c))
           IN  \E a : /\ Turned("intent", c, records, Len(records), a)
                      /\ dedupe' = a.dedupe /\ log' = a.log /\ snapshots' = a.snapshots
<1> DEFINE records == Records(c, Before(c))
<1>1. records \in Seq(Record)
  BY EventType, RecordsType
<1>2. Emit("intent", c, records)
  BY DEF BeforeToolCall, Before
<1> HIDE DEF records
<1>3. "intent" \in {"intent", "result"}
  OBVIOUS
<1>4. \E a : /\ Turned("intent", c, records, Len(records), a)
             /\ dedupe' = a.dedupe /\ log' = a.log /\ snapshots' = a.snapshots
  BY <1>1, <1>2, <1>3, EmitTurned
<1> QED  BY <1>4 DEF records

LEMMA AfterTurns ==
    ASSUME TypeOK, Sound(dedupe, log), PendingOpen, NEW c \in Call, AfterToolCall(c)
    PROVE  LET records == Closing(c)
           IN  \E a : /\ Turned("result", c, records, Len(records), a)
                      /\ dedupe' = a.dedupe /\ log' = a.log /\ snapshots' = a.snapshots
<1> DEFINE records == Closing(c)
<1>1. records \in Seq(Record)
  BY ClosingType
<1>2. Emit("result", c, records)
  BY DEF AfterToolCall, Closing, After
<1> HIDE DEF records
<1>3. "result" \in {"intent", "result"}
  OBVIOUS
<1>4. \E a : /\ Turned("result", c, records, Len(records), a)
             /\ dedupe' = a.dedupe /\ log' = a.log /\ snapshots' = a.snapshots
  BY <1>1, <1>2, <1>3, EmitTurned
<1> QED  BY <1>4 DEF records

(* What a hook does to its call and to the rest. *)
LEMMA FiresIs ==
    ASSUME TypeOK, NEW c \in Call, NEW first, NEW again \in {"new", "begun", "ran", "done"},
           Fires(c, first, again)
    PROVE  /\ phase' \in [Call -> {"new", "begun", "ran", "done"}] /\ phase'[c] = again
           /\ \A d \in Call : d # c => phase'[d] = phase[d]
           /\ repeats' \in Nat /\ repeats' + foreign <= MaxTrouble
           /\ \/ phase[c] = first /\ repeats' = repeats
              \/ phase[c] = again /\ repeats' # 0 /\ phase' = phase
<1>1. /\ phase \in [Call -> {"new", "begun", "ran", "done"}]
      /\ repeats \in Nat /\ foreign \in Nat /\ MaxTrouble \in Nat
      /\ repeats + foreign <= MaxTrouble
  BY LimitAssumption DEF TypeOK
<1>2. CASE phase[c] = first /\ phase' = [phase EXCEPT ![c] = again] /\ UNCHANGED repeats
  BY <1>1, <1>2
<1>3. CASE phase[c] = again /\ Trouble /\ repeats' = repeats + 1 /\ UNCHANGED phase
  BY <1>1, <1>3 DEF Trouble
<1> QED  BY <1>2, <1>3 DEF Fires

(* The types after a hook. *)
LEMMA TurnedType ==
    ASSUME TypeOK, NEW kind, NEW c \in Call, NEW records, NEW n, NEW a,
           Turned(kind, c, records, n, a),
           dedupe' = a.dedupe, log' = a.log, snapshots' = a.snapshots,
           pending' \in Seq(Pending), Len(pending') <= MaxEntries,
           phase' \in [Call -> {"new", "begun", "ran", "done"}],
           repeats' \in Nat, repeats' + foreign <= MaxTrouble,
           UNCHANGED <<now, disk, scannedOnce, scan, caught, foreign, raced>>
    PROVE  TypeOK' /\ Sound(dedupe, log)'
<1>1. a \in Sending /\ Sound(a.dedupe, a.log)
  BY DEF Turned
<1>2. /\ dedupe' \in Seq(Entry) /\ Len(dedupe') <= MaxEntries /\ log' \in Seq(Row)
      /\ snapshots' \in Snapshots
  BY <1>1 DEF Sending
<1>3. Entry' = Entry /\ Row' = Row /\ Pending' = Pending
  BY DEF Entry, Row, Pending
<1>4. Sound(dedupe, log)'
  BY <1>1 DEF Sound
<1>5. TypeOK'
  BY <1>2, <1>3 DEF TypeOK, Entry, Pending, Snapshots
<1> QED  BY <1>4, <1>5

LEMMA PendingSet ==
    ASSUME TypeOK, NEW c \in Call, NEW records \in Seq(Record)
    PROVE  LET D == Cache!Set(pending, Event[c].id, records, now)
           IN  /\ D \in Seq(Pending) /\ Len(D) <= MaxEntries
               /\ \E g : Follows(D, pending, Event[c].id, now,
                                 [key |-> Event[c].id, value |-> records, ts |-> now], g)
<1>1. pending \in Seq(Pending) /\ Len(pending) <= MaxEntries
  BY DEF TypeOK, Pending
<1>2. [key |-> Event[c].id, value |-> records, ts |-> now] \in Pending
  BY EventType DEF Pending, TypeOK
<1> DEFINE D == Cache!Set(pending, Event[c].id, records, now)
           new == [key |-> Event[c].id, value |-> records, ts |-> now]
<1>3. D \in Seq(Pending) /\ \E g : Follows(D, pending, Event[c].id, now, new, g)
  BY <1>1, <1>2, SetIs
<1>4. Len(D) <= MaxEntries
  <2> HIDE DEF D, new
  <2>1. Len(D) \in 1 .. MaxEntries
    BY <1>3 DEF Follows
  <2> QED  BY <2>1, LimitAssumption
<1> QED  BY <1>3, <1>4

LEMMA PendingTake ==
    ASSUME TypeOK, NEW c \in Call
    PROVE  LET D == Cache!Take(pending, Event[c].id, now)
           IN  /\ D \in Seq(Pending) /\ Len(D) <= MaxEntries
               /\ \E h : Lists(D, pending, Others(pending, Event[c].id, now), h)
<1>1. pending \in Seq(Pending) /\ Len(pending) <= MaxEntries
  BY DEF TypeOK, Pending
<1> DEFINE D == Cache!Take(pending, Event[c].id, now)
<1>2. /\ D \in Seq(Pending) /\ Len(D) <= Len(pending)
      /\ \E h : Lists(D, pending, Others(pending, Event[c].id, now), h)
  BY <1>1, TakeIs
<1>3. Len(D) <= MaxEntries
  <2> HIDE DEF D
  <2> QED  BY <1>1, <1>2, LimitAssumption
<1> QED  BY <1>2, <1>3

LEMMA BeforeType ==
    ASSUME TypeOK, Sound(dedupe, log), NEW c \in Call, BeforeToolCall(c)
    PROVE  TypeOK' /\ Sound(dedupe, log)'
<1> DEFINE records == Records(c, Before(c))
<1>1. PICK a : /\ Turned("intent", c, records, Len(records), a)
               /\ dedupe' = a.dedupe /\ log' = a.log /\ snapshots' = a.snapshots
  BY BeforeTurns
<1>2. records \in Seq(Record)
  BY EventType, RecordsType
<1>3. pending' \in Seq(Pending) /\ Len(pending') <= MaxEntries
  <2>1. pending' = IF records = <<>> THEN pending ELSE Cache!Set(pending, Event[c].id, records, now)
    BY DEF BeforeToolCall, Before
  <2>2. pending \in Seq(Pending) /\ Len(pending) <= MaxEntries
    BY DEF TypeOK, Pending
  <2> HIDE DEF records
  <2> QED  BY <1>2, <2>1, <2>2, PendingSet
<1>4. Fires(c, "new", "begun") /\ UNCHANGED <<now, disk, scannedOnce, scan, caught, foreign, raced>>
  BY DEF BeforeToolCall
<1>5. /\ phase' \in [Call -> {"new", "begun", "ran", "done"}]
      /\ repeats' \in Nat /\ repeats' + foreign <= MaxTrouble
  BY <1>4, FiresIs
<1> HIDE DEF records
<1> QED  BY <1>1, <1>3, <1>4, <1>5, TurnedType

LEMMA AfterType ==
    ASSUME TypeOK, Sound(dedupe, log), PendingOpen, NEW c \in Call, AfterToolCall(c)
    PROVE  TypeOK' /\ Sound(dedupe, log)'
<1> DEFINE records == Closing(c)
<1>1. PICK a : /\ Turned("result", c, records, Len(records), a)
               /\ dedupe' = a.dedupe /\ log' = a.log /\ snapshots' = a.snapshots
  BY AfterTurns
<1>2. pending' \in Seq(Pending) /\ Len(pending') <= MaxEntries
  BY PendingTake DEF AfterToolCall
<1>3. Fires(c, "ran", "done") /\ UNCHANGED <<now, disk, scannedOnce, scan, caught, foreign, raced>>
  BY DEF AfterToolCall
<1>4. /\ phase' \in [Call -> {"new", "begun", "ran", "done"}]
      /\ repeats' \in Nat /\ repeats' + foreign <= MaxTrouble
  BY <1>3, FiresIs
<1> HIDE DEF records
<1> QED  BY <1>1, <1>2, <1>3, <1>4, TurnedType

(* What the turns of a hook add to the rows of a call. *)

Adds(kind, c, n, M, t, d) ==
    /\ SentIn(log, t, d) \subseteq SentIn(M, t, d)
    /\ \A r \in SentIn(M, t, d) :
         r \in SentIn(log, t, d) \/ (t = kind /\ d = c /\ \E x \in 1 .. n : r = M[Len(log) + x])
    /\ Unfired(kind, c) => \A x \in 1 .. n : M[Len(log) + x] \in SentIn(M, kind, c)

LEMMA SentGrows ==
    ASSUME TypeOK, NEW kind, NEW c, NEW records, NEW n \in Nat, NEW M \in Seq(Row),
           Rowed(kind, c, records, n, M), NEW t, NEW d
    PROVE  Adds(kind, c, n, M, t, d)
<1> DEFINE l == Len(log)
<1>1. /\ l \in Nat /\ DOMAIN log = 1 .. l /\ DOMAIN M = 1 .. Len(M) /\ Len(M) = l + n
      /\ \A x \in 1 .. l : M[x] = log[x]
      /\ \A x \in 1 .. n : /\ M[l + x].type = kind /\ M[l + x].call = c
                           /\ Unfired(kind, c) => M[l + x].sent
  <2>1. log \in Seq(Row)
    BY DEF TypeOK
  <2>2. l \in Nat /\ DOMAIN log = 1 .. l /\ DOMAIN M = 1 .. Len(M)
    BY <2>1
  <2> QED  BY <2>2 DEF Rowed
<1> HIDE DEF l
<1>2. \A x \in 1 .. l : x \in 1 .. l + n
  BY <1>1
<1>3. \A x \in 1 .. n : l + x \in 1 .. l + n
  BY <1>1
<1>4. \A k \in 1 .. l + n : k \in 1 .. l \/ \E x \in 1 .. n : k = l + x
  <2> SUFFICES ASSUME NEW k \in 1 .. l + n, k \notin 1 .. l  PROVE \E x \in 1 .. n : k = l + x
    OBVIOUS
  <2>1. k - l \in 1 .. n /\ k = l + (k - l)
    BY <1>1
  <2> QED  BY <2>1
<1>5. SentIn(log, t, d) \subseteq SentIn(M, t, d)
  BY <1>1, <1>2 DEF SentIn
<1>6. ASSUME NEW r \in SentIn(M, t, d)
      PROVE  r \in SentIn(log, t, d) \/ (t = kind /\ d = c /\ \E x \in 1 .. n : r = M[l + x])
  <2>1. PICK k \in 1 .. l + n : M[k].type = t /\ M[k].call = d /\ M[k].sent /\ r = M[k]
    BY <1>1 DEF SentIn
  <2>2. CASE k \in 1 .. l
    BY <1>1, <2>1, <2>2 DEF SentIn
  <2>3. CASE \E x \in 1 .. n : k = l + x
    BY <1>1, <2>1, <2>3
  <2> QED  BY <1>4, <2>2, <2>3
<1>7. ASSUME Unfired(kind, c), NEW x \in 1 .. n  PROVE M[l + x] \in SentIn(M, kind, c)
  BY <1>1, <1>3, <1>7 DEF SentIn
<1>8. \A r \in SentIn(M, t, d) :
         r \in SentIn(log, t, d) \/ (t = kind /\ d = c /\ \E x \in 1 .. n : r = M[l + x])
  BY <1>6
<1>9. Unfired(kind, c) => \A x \in 1 .. n : M[l + x] \in SentIn(M, kind, c)
  BY <1>7
<1> QED  BY <1>5, <1>8, <1>9 DEF l, Adds

LEMMA SentElsewhere ==
    ASSUME TypeOK, NEW kind, NEW c, NEW records, NEW n \in Nat, NEW M \in Seq(Row),
           Rowed(kind, c, records, n, M), NEW t, NEW d, t # kind \/ d # c
    PROVE  SentIn(M, t, d) = SentIn(log, t, d)
<1>1. Adds(kind, c, n, M, t, d)
  BY SentGrows
<1> QED  BY <1>1 DEF Adds

(* Nothing but its own hooks can have fired under the id of a call.         *)
LEMMA UnfiredIs ==
    ASSUME TypeOK, NEW kind, NEW c \in Call, OwnId(c),
           \A x \in 1 .. Len(log) : log[x].type # kind \/ log[x].call # c
    PROVE  Unfired(kind, c)
<1> SUFFICES ASSUME NEW x \in 1 .. Len(log), NEW index \in Nat,
                    KeyOf(log[x]) = DedupeKey(kind, c, index)
             PROVE  FALSE
  BY DEF Unfired
<1>1. log[x] \in Row
  BY DEF TypeOK
<1>2. log[x].call \in Call
  BY <1>1 DEF Row
<1>3. log[x].type = kind /\ Event[log[x].call].id = Event[c].id
  BY DEF KeyOf, DedupeKey
<1> QED  BY <1>2, <1>3 DEF OwnId

LEMMA IndexesIs ==
    ASSUME NEW records, Len(records) \in Nat
    PROVE  {Index(records, x) : x \in 1 .. Len(records)} = Places(Len(records))
<1>1. CASE Len(records) = 1
  BY <1>1 DEF Index, Places
<1>2. CASE Len(records) # 1
  BY <1>2 DEF Index, Places
<1> QED  BY <1>1, <1>2

(* The call ids under which rows are sent, after the turns of a hook.       *)
LEMMA IndexesGrow ==
    ASSUME TypeOK, NEW kind, NEW c \in Call, NEW records, Len(records) \in Nat, NEW M \in Seq(Row),
           Rowed(kind, c, records, Len(records), M),
           {r.index : r \in SentIn(log, kind, c)} \subseteq Places(Len(records)),
           Unfired(kind, c) \/ Places(Len(records)) \subseteq {r.index : r \in SentIn(log, kind, c)}
    PROVE  {r.index : r \in SentIn(M, kind, c)} = Places(Len(records))
<1> DEFINE n == Len(records)
           l == Len(log)
           old == {r.index : r \in SentIn(log, kind, c)}
           all == {r.index : r \in SentIn(M, kind, c)}
<1>1. /\ SentIn(log, kind, c) \subseteq SentIn(M, kind, c)
      /\ \A r \in SentIn(M, kind, c) :
            r \in SentIn(log, kind, c) \/ \E x \in 1 .. n : r = M[l + x]
      /\ Unfired(kind, c) => \A x \in 1 .. n : M[l + x] \in SentIn(M, kind, c)
  <2>1. n \in Nat /\ Rowed(kind, c, records, n, M)
    OBVIOUS
  <2> HIDE DEF n
  <2>2. Adds(kind, c, n, M, kind, c)
    BY <2>1, SentGrows
  <2> QED  BY <2>2 DEF Adds
<1>2. \A x \in 1 .. n : M[l + x].index = Index(records, x)
  BY DEF Rowed
<1>3. Places(n) = {Index(records, x) : x \in 1 .. n}
  BY IndexesIs
<1> HIDE DEF n, l
<1>4. old \subseteq all
  BY <1>1
<1>5. all \subseteq old \cup Places(n)
  BY <1>1, <1>2, <1>3
<1>6. Unfired(kind, c) => Places(n) \subseteq all
  BY <1>1, <1>2, <1>3
<1> QED  BY <1>4, <1>5, <1>6 DEF n


LEMMA RowsStep ==
    ASSUME TypeOK, RowsInPhase, TypeOK', NEW kind \in {"intent", "result"}, NEW c \in Call, NEW records,
           NEW n \in Nat, Rowed(kind, c, records, n, log'),
           \A d \in Call : d # c => phase'[d] = phase[d],
           kind = "intent" => phase'[c] = "begun" /\ phase[c] # "done",
           kind = "result" => phase'[c] = "done"
    PROVE  RowsInPhase'
<1>1. log \in Seq(Row) /\ Len(log) \in Nat /\ Len(log') = Len(log) + n
  BY DEF TypeOK, Rowed
<1>2. ASSUME NEW x \in 1 .. Len(log')
      PROVE  /\ log'[x].type = "intent" => phase'[log'[x].call] # "new"
             /\ log'[x].type = "result" => phase'[log'[x].call] = "done"
  <2>1. CASE x \in 1 .. Len(log)
    <3>1. log'[x] = log[x] /\ log[x] \in Row
      BY <1>1, <2>1 DEF Rowed
    <3>2. log[x].call \in Call
      BY <3>1 DEF Row
    <3>3. /\ log[x].type = "intent" => phase[log[x].call] # "new"
          /\ log[x].type = "result" => phase[log[x].call] = "done"
      BY <2>1 DEF RowsInPhase
    <3> QED  BY <3>1, <3>2, <3>3
  <2>2. CASE x \notin 1 .. Len(log)
    <3> DEFINE y == x - Len(log)
    <3>1. y \in 1 .. n /\ x = Len(log) + y
      BY <1>1, <2>2
    <3>2. log'[x].type = kind /\ log'[x].call = c
      <4> HIDE DEF y
      <4> QED  BY <3>1 DEF Rowed
    <3> QED  BY <3>2
  <2> QED  BY <2>1, <2>2
<1> QED  BY <1>2 DEF RowsInPhase

(* The hooks of a call do not touch the rows of another, nor those of its   *)
(* other hook.                                                              *)
LEMMA IndexesStep ==
    ASSUME TypeOK, IndexesSent, RowsInPhase, log' \in Seq(Row), NEW kind \in {"intent", "result"},
           NEW c \in Call, NEW records, Len(records) \in Nat,
           Rowed(kind, c, records, Len(records), log'),
           \A d \in Call : d # c => phase'[d] = phase[d],
           kind = "intent" => /\ phase[c] \in {"new", "begun"} /\ phase'[c] = "begun"
                              /\ Len(records) = Len(Before(c)),
           kind = "result" => /\ phase[c] \in {"ran", "done"} /\ phase'[c] = "done"
                              /\ OwnId(c) => Len(records) = Len(After(c))
    PROVE  IndexesSent'
<1> DEFINE n == Len(records)
           Ids(L, t, d) == {r.index : r \in SentIn(L, t, d)}
<1>1. ASSUME NEW t, NEW d, t # kind \/ d # c  PROVE SentIn(log', t, d) = SentIn(log, t, d)
  <2>1. n \in Nat /\ Rowed(kind, c, records, n, log')
    OBVIOUS
  <2> HIDE DEF n
  <2> QED  BY <1>1, <2>1, SentElsewhere
<1>2. ASSUME OwnId(c)  PROVE Ids(log', kind, c) = Places(n)
  <2>1. CASE phase[c] \in {"new", "ran"}
    <3>1. \A x \in 1 .. Len(log) : log[x].type # kind \/ log[x].call # c
      BY <2>1 DEF RowsInPhase
    <3>2. Unfired(kind, c)
      BY <1>2, <3>1, UnfiredIs
    <3>3. Ids(log, kind, c) = {}
      BY <1>2, <2>1 DEF IndexesSent
    <3>4. /\ {r.index : r \in SentIn(log, kind, c)} \subseteq Places(n)
          /\ Unfired(kind, c) \/ Places(n) \subseteq {r.index : r \in SentIn(log, kind, c)}
      BY <3>2, <3>3
    <3> QED  BY <3>4, IndexesGrow
  <2>2. CASE phase[c] \in {"begun", "done"}
    <3>1. Ids(log, kind, c) = Places(n)
      BY <1>2, <2>2 DEF IndexesSent
    <3>2. /\ {r.index : r \in SentIn(log, kind, c)} \subseteq Places(n)
          /\ Unfired(kind, c) \/ Places(n) \subseteq {r.index : r \in SentIn(log, kind, c)}
      BY <3>1
    <3> QED  BY <3>2, IndexesGrow
  <2> QED  BY <2>1, <2>2
<1> HIDE DEF n
<1>3. ASSUME NEW d \in Call, OwnId(d)
      PROVE  /\ Ids(log', "intent", d)
                  = IF phase'[d] = "new" THEN {} ELSE Places(Len(Before(d)))
             /\ Ids(log', "result", d)
                  = IF phase'[d] = "done" THEN Places(Len(After(d))) ELSE {}
  <2>1. /\ Ids(log, "intent", d) = IF phase[d] = "new" THEN {} ELSE Places(Len(Before(d)))
        /\ Ids(log, "result", d) = IF phase[d] = "done" THEN Places(Len(After(d))) ELSE {}
    BY <1>3 DEF IndexesSent
  <2>2. CASE d # c
    <3>1. phase'[d] = phase[d]
      BY <2>2
    <3>2. SentIn(log', "intent", d) = SentIn(log, "intent", d)
          /\ SentIn(log', "result", d) = SentIn(log, "result", d)
      BY <1>1, <2>2
    <3> QED  BY <2>1, <3>1, <3>2
  <2>3. CASE d = c /\ kind = "intent"
    <3>1. SentIn(log', "result", c) = SentIn(log, "result", c)
      BY <1>1, <2>3
    <3>2. Ids(log', "intent", c) = Places(Len(Before(c)))
      BY <1>2, <1>3, <2>3 DEF n
    <3>3. phase[c] # "done" /\ phase'[c] = "begun"
      BY <2>3
    <3> QED  BY <2>1, <2>3, <3>1, <3>2, <3>3
  <2>4. CASE d = c /\ kind = "result"
    <3>1. SentIn(log', "intent", c) = SentIn(log, "intent", c)
      BY <1>1, <2>4
    <3>2. Ids(log', "result", c) = Places(Len(After(c)))
      BY <1>2, <1>3, <2>4 DEF n
    <3>3. phase[c] # "new" /\ phase'[c] = "done"
      BY <2>4
    <3> QED  BY <2>1, <2>4, <3>1, <3>2, <3>3
  <2> QED  BY <2>2, <2>3, <2>4
<1> QED  BY <1>3 DEF IndexesSent

LEMMA BeforeKeeps ==
    ASSUME HInv, NEW c \in Call, BeforeToolCall(c)
    PROVE  HInv'
<1> USE DEF HInv
<1> DEFINE records == Records(c, Before(c))
           n == Len(records)
           id == Event[c].id
<1>1. PICK a : /\ Turned("intent", c, records, n, a)
               /\ dedupe' = a.dedupe /\ log' = a.log /\ snapshots' = a.snapshots
  BY BeforeTurns
<1>2. records \in Seq(Record) /\ n = Len(Before(c)) /\ n \in Nat
  BY EventType, RecordsType
<1>3. TypeOK' /\ Sound(dedupe, log)'
  BY BeforeType
<1>4. /\ Fires(c, "new", "begun") /\ now' = now
      /\ pending' = IF records = <<>> THEN pending ELSE Cache!Set(pending, id, records, now)
  BY DEF BeforeToolCall, Before
<1>5. /\ phase' \in [Call -> {"new", "begun", "ran", "done"}] /\ phase'[c] = "begun"
      /\ \A d \in Call : d # c => phase'[d] = phase[d]
      /\ phase[c] \in {"new", "begun"}
  BY <1>4, FiresIs
<1> HIDE DEF records, n, id
<1>6. log' \in Seq(Row) /\ Rowed("intent", c, records, n, log')
  BY <1>1 DEF Turned, Sending
<1>7. RowsInPhase'
  <2>1. "intent" \in {"intent", "result"} /\ "intent" # "result" /\ phase[c] # "done"
    BY <1>5
  <2> QED  BY <1>2, <1>3, <1>5, <1>6, <2>1, RowsStep
<1>8. IndexesSent'
  <2>1. "intent" \in {"intent", "result"} /\ "intent" # "result"
    OBVIOUS
  <2> QED  BY <1>2, <1>5, <1>6, <2>1, IndexesStep DEF n
<1>9. PendingOpen'
  <2>1. \A d \in Call : Open(d) => Open(d)'
    BY <1>5 DEF Open
  <2>2. Open(c)'
    BY <1>5 DEF Open
  <2>3. CASE records = <<>>
    BY <1>4, <2>1, <2>3 DEF PendingOpen
  <2>4. CASE records # <<>>
    <3> DEFINE new == [key |-> id, value |-> records, ts |-> now]
    <3>1. PICK g : Follows(pending', pending, id, now, new, g)
      BY <1>2, <1>4, <2>4, PendingSet DEF id
    <3>2. ASSUME NEW k \in 1 .. Len(pending')
          PROVE  /\ pending'[k].value # <<>>
                 /\ \E d \in Call : Open(d)' /\ Event[d].id = pending'[k].key
                                    /\ Len(pending'[k].value) = Len(Before(d))
      <4>1. CASE k = Len(pending')
        <5>1. pending'[k] = new
          BY <3>1, <4>1 DEF Follows
        <5> QED  BY <1>2, <2>2, <2>4, <5>1 DEF id, n
      <4>2. CASE k # Len(pending')
        <5>1. k \in 1 .. Len(pending') - 1
          BY <1>3, <4>2 DEF TypeOK
        <5>2. g[k] \in Others(pending, id, now) /\ pending'[k] = pending[g[k]]
          BY <3>1, <5>1 DEF Follows
        <5>3. g[k] \in 1 .. Len(pending)
          BY <5>2 DEF Others, Fresh
        <5> QED  BY <2>1, <5>2, <5>3 DEF PendingOpen
      <4> QED  BY <4>1, <4>2
    <3> QED  BY <3>2 DEF PendingOpen
  <2> QED  BY <2>3, <2>4
<1> QED  BY <1>3, <1>7, <1>8, <1>9

LEMMA AfterKeeps ==
    ASSUME HInv, NEW c \in Call, AfterToolCall(c)
    PROVE  HInv'
<1> USE DEF HInv
<1> DEFINE records == Closing(c)
           n == Len(records)
           id == Event[c].id
<1>1. PICK a : /\ Turned("result", c, records, n, a)
               /\ dedupe' = a.dedupe /\ log' = a.log /\ snapshots' = a.snapshots
  BY AfterTurns
<1>2. records \in Seq(Record) /\ n \in Nat /\ (OwnId(c) => n = Len(After(c)))
  BY ClosingType
<1>3. TypeOK' /\ Sound(dedupe, log)'
  BY AfterType
<1>4. /\ Fires(c, "ran", "done") /\ now' = now
      /\ pending' = Cache!Take(pending, id, now)
  BY DEF AfterToolCall
<1>5. /\ phase' \in [Call -> {"new", "begun", "ran", "done"}] /\ phase'[c] = "done"
      /\ \A d \in Call : d # c => phase'[d] = phase[d]
      /\ phase[c] \in {"ran", "done"}
  BY <1>4, FiresIs
<1> HIDE DEF records, n, id
<1>6. log' \in Seq(Row) /\ Rowed("result", c, records, n, log')
  BY <1>1 DEF Turned, Sending
<1>7. RowsInPhase'
  <2>1. "result" \in {"intent", "result"} /\ "intent" # "result"
    OBVIOUS
  <2> QED  BY <1>2, <1>3, <1>5, <1>6, <2>1, RowsStep
<1>8. IndexesSent'
  <2>1. "result" \in {"intent", "result"} /\ "intent" # "result"
    OBVIOUS
  <2> QED  BY <1>2, <1>5, <1>6, <2>1, IndexesStep DEF n
<1>9. PendingOpen'
  <2>1. PICK h : Lists(pending', pending, Others(pending, id, now), h)
    BY <1>4, PendingTake DEF id
  <2>2. ASSUME NEW k \in 1 .. Len(pending')
        PROVE  /\ pending'[k].value # <<>>
               /\ \E d \in Call : Open(d)' /\ Event[d].id = pending'[k].key
                                  /\ Len(pending'[k].value) = Len(Before(d))
    <3>1. h[k] \in Others(pending, id, now) /\ pending'[k] = pending[h[k]]
      BY <2>1 DEF Lists
    <3>2. h[k] \in 1 .. Len(pending) /\ pending[h[k]].key # id
      BY <3>1 DEF Others, Fresh
    <3>3. PICK d \in Call : Open(d) /\ Event[d].id = pending[h[k]].key
                            /\ Len(pending[h[k]].value) = Len(Before(d))
      BY <3>2 DEF PendingOpen
    <3>4. d # c
      BY <3>2, <3>3 DEF id
    <3>5. Open(d)'
      BY <1>5, <3>3, <3>4 DEF Open
    <3> QED  BY <3>1, <3>2, <3>3, <3>5 DEF PendingOpen
  <2> QED  BY <2>2 DEF PendingOpen
<1> QED  BY <1>3, <1>7, <1>8, <1>9


LEMMA SeqGrows ==
    ASSUME NEW S, NEW T, S \subseteq T, NEW s \in Seq(S)
    PROVE  s \in Seq(T)
<1>1. s \in [1 .. Len(s) -> T] /\ Len(s) \in Nat
  OBVIOUS
<1> QED  BY <1>1

(* The steps of tools and of background dreaming, and time.                 *)
LEMMA RunKeeps ==
    ASSUME HInv, NEW c \in Call, RunTool(c)
    PROVE  HInv'
<1> USE DEF HInv
<1>1. /\ phase[c] = "begun" /\ phase' = [phase EXCEPT ![c] = "ran"]
      /\ disk' = [f \in File |-> IF f \in ToSet(After(c)) THEN c ELSE disk[f]] \/ disk' = disk
      /\ UNCHANGED <<now, pending, dedupe, snapshots, scannedOnce, scan, log, caught, repeats,
                     foreign, raced>>
  BY DEF RunTool, After
<1>2. TypeOK'
  <2>1. disk' \in [File -> Content]
    BY <1>1 DEF TypeOK, Content
  <2>2. phase' \in [Call -> {"new", "begun", "ran", "done"}]
    BY <1>1 DEF TypeOK
  <2>3. Row' = Row
    BY <1>1 DEF Row
  <2> QED  BY <1>1, <2>1, <2>2, <2>3 DEF TypeOK
<1>3. Sound(dedupe, log)'
  BY <1>1 DEF Sound
<1>4. \A d \in Call : phase'[d] = IF d = c THEN "ran" ELSE phase[d]
  BY <1>1 DEF TypeOK
<1>5. RowsInPhase'
  <2>1. \A x \in 1 .. Len(log) : log[x].call \in Call
    <3>1. \A x \in 1 .. Len(log) : log[x] \in Row
      BY DEF TypeOK
    <3> QED  BY <3>1 DEF Row
  <2> QED  BY <1>1, <1>4, <2>1 DEF RowsInPhase
<1>6. IndexesSent'
  <2>1. \A d \in Call : (phase'[d] = "new" <=> phase[d] = "new")
                        /\ (phase'[d] = "done" <=> phase[d] = "done")
    BY <1>1, <1>4
  <2> QED  BY <1>1, <2>1 DEF IndexesSent
<1>7. PendingOpen'
  <2>1. \A d \in Call : Open(d) => Open(d)'
    BY <1>4 DEF Open
  <2> QED  BY <1>1, <2>1 DEF PendingOpen
<1> QED  BY <1>2, <1>3, <1>5, <1>6, <1>7

LEMMA OtherKeeps ==
    ASSUME HInv, UNCHANGED <<now, phase, pending, dedupe, log>>, TypeOK'
    PROVE  HInv'
BY DEF HInv, Sound, RowsInPhase, IndexesSent, PendingOpen, Open

LEMMA DreamingKeeps ==
    ASSUME HInv, NEW f \in Dream, NEW v \in {Absent, Dreamt}, Dreaming(f, v)
    PROVE  HInv'
<1>1. Row' = Row
  BY DEF Row, Dreaming
<1>2. TypeOK'
  <2>1. disk' \in [File -> Content]
    BY DEF HInv, TypeOK, Dreaming, Content
  <2>2. foreign' \in Nat /\ repeats' + foreign' <= MaxTrouble
    BY LimitAssumption DEF HInv, TypeOK, Dreaming, Trouble
  <2> QED  BY <1>1, <2>1, <2>2 DEF HInv, TypeOK, Dreaming
<1> QED  BY <1>2, OtherKeeps DEF Dreaming

LEMMA TickKeeps ==
    ASSUME HInv, Tick
    PROVE  HInv'
<1> USE DEF HInv
<1>1. now \in Nat /\ now' = now + 1 /\ now' \in 0 .. MaxTime
      /\ UNCHANGED <<disk, phase, pending, dedupe, snapshots, scannedOnce, scan, log, caught,
                     repeats, foreign, raced>>
  BY LimitAssumption DEF Tick, TypeOK
<1>2. TypeOK'
  <2>1. 0 .. now \subseteq 0 .. now'
    BY <1>1
  <2>2. Row \subseteq Row' /\ Pending \subseteq Pending' /\ Entry \subseteq Entry'
    BY <2>1 DEF Row, Pending, Entry
  <2>3. log \in Seq(Row)' /\ pending \in Seq(Pending)' /\ dedupe \in Seq(Entry)'
    <3>1. log \in Seq(Row) /\ pending \in Seq(Pending) /\ dedupe \in Seq(Entry)
      BY DEF TypeOK, Pending, Entry
    <3>2. log \in Seq(Row')
      BY <2>2, <3>1, SeqGrows
    <3>3. pending \in Seq(Pending')
      BY <2>2, <3>1, SeqGrows
    <3>4. dedupe \in Seq(Entry')
      BY <2>2, <3>1, SeqGrows
    <3> QED  BY <3>2, <3>3, <3>4
  <2> QED  BY <1>1, <2>3 DEF TypeOK, Pending, Entry
<1>3. Sound(dedupe, log)'
  <2>1. InTime(log, now')
    BY <1>1 DEF Sound, InTime
  <2>2. PICK p : Tracks(dedupe, log, now, p)
    BY DEF Sound
  <2>3. \A m \in 1 .. Len(log) : log[m].at + Ttl < now => log[m].at + Ttl < now'
    BY <1>1, LimitAssumption DEF Sound, InTime
  <2>4. Tracks(dedupe, log, now', p)
    BY <2>2, <2>3 DEF Tracks
  <2> QED  BY <1>1, <2>1, <2>4 DEF Sound
<1> QED  BY <1>1, <1>2, <1>3 DEF RowsInPhase, IndexesSent, PendingOpen, Open

(* The steps of scans. *)
ReadState    == [step : {"read"}, todo : SUBSET Dream, emitNew : BOOLEAN]
CompareState == [step : {"compare"}, todo : SUBSET Dream, emitNew : BOOLEAN, file : Dream,
                 current : Content]

LEMMA ScanIs ==
    ASSUME TypeOK, NEW s \in Scan
    PROVE  /\ scan[s] = NoScan \/ scan[s] \in ReadState \/ scan[s] \in CompareState
           /\ scan[s].step = "read" => scan[s] \in ReadState
           /\ scan[s].step = "compare" => scan[s] \in CompareState
<1>1. scan[s] \in {NoScan} \cup ReadState \cup CompareState
  BY DEF TypeOK, ReadState, CompareState
<1> QED  BY <1>1 DEF NoScan, ReadState, CompareState

LEMMA ScanType ==
    ASSUME TypeOK, NEW s \in Scan, NEW x \in {NoScan} \cup ReadState \cup CompareState,
           scan' = [scan EXCEPT ![s] = x]
    PROVE  scan' \in [Scan -> {NoScan} \cup [step : {"read"}, todo : SUBSET Dream, emitNew : BOOLEAN]
                         \cup [step : {"compare"}, todo : SUBSET Dream, emitNew : BOOLEAN,
                               file : Dream, current : Content]]
BY DEF TypeOK, ReadState, CompareState

LEMMA ScanKeeps ==
    ASSUME HInv, NEW s \in Scan, ScanStep(s)
    PROVE  HInv'
<1> SUFFICES TypeOK' /\ UNCHANGED <<now, phase, pending, dedupe, log>>
  BY OtherKeeps
<1>1. UNCHANGED <<now, phase, pending, dedupe, log, disk, repeats, foreign>>
  BY DEF ScanStep, StartScan, ReadFile, InspectPath, EndScan
<1>2. Row' = Row
  BY <1>1 DEF Row
<1>3. TypeOK /\ Dream \subseteq File /\ disk \in [File -> Content]
  BY EventAssumption DEF HInv, TypeOK
<1>4. ASSUME StartScan(s)  PROVE TypeOK'
  <2> DEFINE x == [step |-> "read", todo |-> CandidatePaths, emitNew |-> scannedOnce]
  <2>1. scan' = [scan EXCEPT ![s] = x]
        /\ UNCHANGED <<snapshots, scannedOnce, caught, raced>>
    BY <1>4 DEF StartScan
  <2>2. x \in ReadState
    BY <1>3 DEF CandidatePaths, ReadState, Dream, TypeOK
  <2>3. scan' \in [Scan -> {NoScan} \cup [step : {"read"}, todo : SUBSET Dream, emitNew : BOOLEAN]
                         \cup [step : {"compare"}, todo : SUBSET Dream, emitNew : BOOLEAN,
                               file : Dream, current : Content]]
    <3> HIDE DEF x
    <3> QED  BY <1>3, <2>1, <2>2, ScanType
  <2> QED  BY <1>1, <1>2, <1>3, <2>1, <2>3 DEF TypeOK
<1>5. ASSUME NEW f \in File, ReadFile(s, f)  PROVE TypeOK'
  <2> DEFINE x == [step |-> "compare", todo |-> scan[s].todo \ {f}, emitNew |-> scan[s].emitNew,
                   file |-> f, current |-> disk[f]]
  <2>1. scan' = [scan EXCEPT ![s] = x] /\ raced' \in BOOLEAN
        /\ UNCHANGED <<snapshots, scannedOnce, caught>>
    BY <1>5 DEF ReadFile
  <2>2. scan[s] \in ReadState /\ f \in scan[s].todo
    BY <1>3, <1>5, ScanIs DEF ReadFile
  <2>3. x \in CompareState
    BY <1>3, <2>2 DEF CompareState, ReadState
  <2>4. scan' \in [Scan -> {NoScan} \cup [step : {"read"}, todo : SUBSET Dream, emitNew : BOOLEAN]
                         \cup [step : {"compare"}, todo : SUBSET Dream, emitNew : BOOLEAN,
                               file : Dream, current : Content]]
    <3> HIDE DEF x
    <3> QED  BY <1>3, <2>1, <2>3, ScanType
  <2> QED  BY <1>1, <1>2, <1>3, <2>1, <2>4 DEF TypeOK
<1>6. ASSUME InspectPath(s)  PROVE TypeOK'
  <2> DEFINE f == scan[s].file
             v == scan[s].current
             x == [step |-> "read", todo |-> scan[s].todo, emitNew |-> scan[s].emitNew]
  <2>1. scan[s] \in CompareState
    BY <1>3, <1>6, ScanIs DEF InspectPath
  <2>2. f \in Dream /\ v \in Content /\ x \in ReadState
    BY <2>1 DEF CompareState, ReadState
  <2>3. /\ snapshots' = [g \in DOMAIN snapshots \cup {f} |-> IF g = f THEN v ELSE snapshots[g]]
        /\ caught' \in {caught, caught \cup {[file |-> f, digest |-> v]}}
        /\ raced' \in BOOLEAN /\ scan' = [scan EXCEPT ![s] = x] /\ scannedOnce' = scannedOnce
    BY <1>6 DEF InspectPath
  <2> HIDE DEF f, v, x
  <2>4. scan' \in [Scan -> {NoScan} \cup [step : {"read"}, todo : SUBSET Dream, emitNew : BOOLEAN]
                         \cup [step : {"compare"}, todo : SUBSET Dream, emitNew : BOOLEAN,
                               file : Dream, current : Content]]
    BY <1>3, <2>2, <2>3, ScanType
  <2>5. snapshots' \in UNION {[F -> Content] : F \in SUBSET Dream}
    <3>1. PICK F \in SUBSET Dream : snapshots \in [F -> Content]
      BY <1>3 DEF TypeOK
    <3>2. snapshots' \in [F \cup {f} -> Content] /\ F \cup {f} \in SUBSET Dream
      BY <2>2, <2>3, <3>1
    <3> QED  BY <3>2
  <2>6. caught' \subseteq [file : Dream, digest : Content]
    <3>1. caught \subseteq [file : Dream, digest : Content]
      BY <1>3 DEF TypeOK
    <3>2. [file |-> f, digest |-> v] \in [file : Dream, digest : Content]
      BY <2>2
    <3> QED  BY <2>3, <3>1, <3>2
  <2> QED  BY <1>1, <1>2, <1>3, <2>3, <2>4, <2>5, <2>6 DEF TypeOK
<1>7. ASSUME EndScan(s)  PROVE TypeOK'
  <2>1. scan' = [scan EXCEPT ![s] = NoScan] /\ scannedOnce' = TRUE
        /\ UNCHANGED <<snapshots, caught, raced>>
    BY <1>7 DEF EndScan
  <2>2. scan' \in [Scan -> {NoScan} \cup [step : {"read"}, todo : SUBSET Dream, emitNew : BOOLEAN]
                         \cup [step : {"compare"}, todo : SUBSET Dream, emitNew : BOOLEAN,
                               file : Dream, current : Content]]
    BY <1>3, <2>1, ScanType
  <2> QED  BY <1>1, <1>2, <1>3, <2>1, <2>2 DEF TypeOK
<1> QED  BY <1>1, <1>4, <1>5, <1>6, <1>7 DEF ScanStep

LEMMA InitHInv == Init => HInv
<1> SUFFICES ASSUME Init  PROVE HInv
  OBVIOUS
<1> USE DEF Init
<1>1. TypeOK
  <2>1. /\ now \in 0 .. MaxTime /\ repeats + foreign <= MaxTrouble /\ repeats \in Nat /\ foreign \in Nat
        /\ 0 <= MaxEntries
    BY LimitAssumption
  <2>2. pending = <<>> /\ dedupe = <<>>
    BY DEF Cache!Empty
  <2>3. snapshots \in UNION {[F -> Content] : F \in SUBSET Dream}
    <3>1. snapshots \in [{} -> Content] /\ {} \in SUBSET Dream
      OBVIOUS
    <3> QED  BY <3>1
  <2>4. disk \in [File -> Content] /\ scan \in [Scan -> {NoScan}]
    BY DEF Content
  <2>5. pending \in Seq(Pending) /\ dedupe \in Seq(Entry) /\ log \in Seq(Row)
        /\ Len(pending) <= MaxEntries /\ Len(dedupe) <= MaxEntries
    BY <2>1, <2>2
  <2>6. phase \in [Call -> {"new", "begun", "ran", "done"}]
        /\ caught \subseteq [file : Dream, digest : Content]
    OBVIOUS
  <2> QED  BY <2>1, <2>3, <2>4, <2>5, <2>6 DEF TypeOK, Pending, Entry
<1>2. Sound(dedupe, log)
  <2>1. Tracks(dedupe, log, now, <<>>)
    <3>1. <<>> \in [1 .. Len(dedupe) -> 1 .. Len(log)]
      BY DEF Cache!Empty
    <3> QED  BY <3>1 DEF Tracks, Cache!Empty
  <2> QED  BY <2>1 DEF Sound, InTime
<1>3. IndexesSent
  <2>1. \A t, c : SentIn(log, t, c) = {}
    BY DEF SentIn
  <2> QED  BY <2>1 DEF IndexesSent
<1> QED  BY <1>1, <1>2, <1>3 DEF HInv, RowsInPhase, PendingOpen, Cache!Empty

LEMMA HInvHolds == Spec => []HInv
<1>1. HInv /\ [Next]_vars => HInv'
  <2> SUFFICES ASSUME HInv, [Next]_vars  PROVE HInv'
    OBVIOUS
  <2>1. CASE UNCHANGED vars
    <3>1. TypeOK'
      <4>1. Row' = Row
        BY <2>1 DEF Row, vars
      <4> QED  BY <2>1, <4>1 DEF HInv, TypeOK, vars
    <3> QED  BY <2>1, <3>1, OtherKeeps DEF vars
  <2> QED  BY <2>1, BeforeKeeps, RunKeeps, AfterKeeps, DreamingKeeps, ScanKeeps, TickKeeps DEF Next
<1> QED  BY <1>1, InitHInv, PTL DEF Spec

(* The values the modules' comments promise. *)
THEOREM TypeCorrect == Spec => []TypeOK
<1>1. HInv => TypeOK
  BY DEF HInv
<1> QED  BY <1>1, HInvHolds, PTL

(* For any number of calls, of files and of cache entries: a hook that fires *)
(* again within the TTL is suppressed unless the cache was flooded, and only *)
(* repetitions are.                                                          *)
THEOREM RepeatsSuppressed == Spec => []RepeatsAreSuppressed
<1>1. HInv => RepeatsAreSuppressed
  <2> SUFFICES ASSUME HInv  PROVE RepeatsAreSuppressed
    OBVIOUS
  <2>1. DOMAIN log = 1 .. Len(log) /\ \A k \in 1 .. Len(log) : SuppressedAt(log, k)
    BY DEF HInv, TypeOK, Sound
  <2> QED  BY <2>1 DEF RepeatsAreSuppressed, SuppressedAt, Earlier, KeysIn
<1> QED  BY <1>1, HInvHolds, PTL

-------------------------------------------------------------------------------
(* What is in the files, in the snapshots and before the scans.             *)
Written ==
    \A f \in File : disk[f] \in Call => /\ phase[disk[f]] \in {"ran", "done"}
                                        /\ f \in ToSet(After(disk[f]))

(* When the after hook of a call has fired, its files have their snapshots. *)
Snapped ==
    ~raced => \A f \in Dream, c \in Call :
        disk[f] = c /\ OwnId(c) /\ phase[c] = "done" => f \in DOMAIN snapshots /\ snapshots[f] = c

(* A scan compares no write whose after hook has not fired.                 *)
Compared ==
    ~raced => \A s \in Scan : scan[s].step = "compare" /\ scan[s].current \in Call
                                 => phase[scan[s].current] = "done"

DInv == Written /\ Snapped /\ Compared /\ ObservedWritesAreNotDreams

LEMMA DInvHooks ==
    ASSUME HInv, DInv, NEW c \in Call, BeforeToolCall(c) \/ AfterToolCall(c)
    PROVE  DInv'
<1>1. PICK kind, records, a :
          /\ kind \in {"intent", "result"}
          /\ Turned(kind, c, records, Len(records), a) /\ snapshots' = a.snapshots
          /\ kind = "intent" => /\ phase[c] \in {"new", "begun"} /\ phase'[c] = "begun"
          /\ kind = "result" => /\ phase[c] \in {"ran", "done"} /\ phase'[c] = "done"
                                /\ records = Closing(c)
  <2>1. CASE BeforeToolCall(c)
    <3>1. PICK a : /\ Turned("intent", c, Records(c, Before(c)), Len(Records(c, Before(c))), a)
                   /\ dedupe' = a.dedupe /\ log' = a.log /\ snapshots' = a.snapshots
      BY <2>1, BeforeTurns DEF HInv
    <3>2. phase[c] \in {"new", "begun"} /\ phase'[c] = "begun"
      BY <2>1, FiresIs DEF HInv, BeforeToolCall
    <3> QED  BY <3>1, <3>2
  <2>2. CASE AfterToolCall(c)
    <3>1. PICK a : /\ Turned("result", c, Closing(c), Len(Closing(c)), a)
                   /\ dedupe' = a.dedupe /\ log' = a.log /\ snapshots' = a.snapshots
      BY <2>2, AfterTurns DEF HInv
    <3>2. phase[c] \in {"ran", "done"} /\ phase'[c] = "done"
      BY <2>2, FiresIs DEF HInv, AfterToolCall
    <3> QED  BY <3>1, <3>2
  <2> QED  BY <2>1, <2>2
<1>2. \A d \in Call : d # c => phase'[d] = phase[d]
  BY FiresIs DEF HInv, BeforeToolCall, AfterToolCall
<1>3. UNCHANGED <<disk, scan, caught, raced>>
  BY DEF BeforeToolCall, AfterToolCall
<1>4. Noted(kind, c, records, Len(records), snapshots')
  BY <1>1 DEF Turned
<1>5. Written'
  <2>1. \A d \in Call : phase[d] \in {"ran", "done"} => phase'[d] \in {"ran", "done"}
    BY <1>1, <1>2
  <2> QED  BY <1>3, <2>1 DEF DInv, Written
<1>6. Compared'
  <2>1. \A d \in Call : phase[d] = "done" => phase'[d] = "done"
    BY <1>1, <1>2
  <2> QED  BY <1>3, <2>1 DEF DInv, Compared
<1>7. ASSUME ~raced, NEW f \in Dream, NEW d \in Call, disk[f] = d, OwnId(d), phase'[d] = "done"
      PROVE  f \in DOMAIN snapshots' /\ snapshots'[f] = d
  <2>1. CASE phase[d] = "done"
    <3>1. f \in DOMAIN snapshots /\ snapshots[f] = d
      BY <1>7, <2>1 DEF DInv, Snapped
    <3> QED  BY <1>4, <1>7, <3>1 DEF Noted
  <2>2. CASE phase[d] # "done"
    <3>1. d = c /\ kind = "result" /\ phase[c] = "ran" /\ records = Closing(c)
      BY <1>1, <1>2, <1>7, <2>2
    <3>2. Unfired("result", c)
      <4>1. \A x \in 1 .. Len(log) : log[x].type # "result" \/ log[x].call # c
        BY <3>1 DEF HInv, RowsInPhase
      <4> QED  BY <1>7, <3>1, <4>1, UnfiredIs DEF HInv
    <3>3. After(c) \in Seq(File)
      BY EventType
    <3>4. f \in ToSet(After(c))
      BY <1>7, <3>1, EventAssumption DEF DInv, Written
    <3>5. PICK i \in 1 .. Len(After(c)) : After(c)[i] = f
      BY <3>3, <3>4 DEF ToSet
    <3>6. Len(Closing(c)) = Len(After(c)) /\ Closing(c)[i].file = f
      BY <1>7, <3>1, <3>5, ClosingType DEF HInv
    <3>7. f \in DOMAIN snapshots' /\ snapshots'[f] = disk[f]
      BY <1>4, <3>1, <3>2, <3>6, <1>7 DEF Noted
    <3> QED  BY <1>7, <3>7
  <2> QED  BY <2>1, <2>2
<1>8. Snapped'
  BY <1>3, <1>7 DEF Snapped
<1>9. ObservedWritesAreNotDreams'
  BY <1>3 DEF DInv, ObservedWritesAreNotDreams
<1> QED  BY <1>5, <1>6, <1>8, <1>9 DEF DInv

LEMMA DInvRun ==
    ASSUME HInv, DInv, NEW c \in Call, RunTool(c)
    PROVE  DInv'
<1>1. /\ phase[c] = "begun" /\ phase' = [phase EXCEPT ![c] = "ran"]
      /\ \/ disk' = [f \in File |-> IF f \in ToSet(After(c)) THEN c ELSE disk[f]]
         \/ disk' = disk
      /\ UNCHANGED <<snapshots, scan, caught, raced>>
  BY DEF RunTool, After
<1>2. \A d \in Call : phase'[d] = IF d = c THEN "ran" ELSE phase[d]
  BY <1>1 DEF HInv, TypeOK
<1>3. disk \in [File -> Content] /\ Dream \subseteq File
  BY EventAssumption DEF HInv, TypeOK
<1>4. ASSUME NEW f \in File
      PROVE  disk'[f] = disk[f] \/ (disk'[f] = c /\ f \in ToSet(After(c)))
  BY <1>1, <1>3
<1>5. Written'
  BY <1>1, <1>2, <1>4 DEF DInv, Written
<1>6. Snapped'
  <2> SUFFICES ASSUME ~raced, NEW f \in Dream, NEW d \in Call, disk'[f] = d, OwnId(d), phase'[d] = "done"
               PROVE  f \in DOMAIN snapshots /\ snapshots[f] = d
    BY <1>1 DEF Snapped
  <2>1. d # c /\ phase[d] = "done"
    BY <1>2
  <2>2. disk[f] = d
    BY <1>3, <1>4, <2>1
  <2> QED  BY <2>1, <2>2 DEF DInv, Snapped
<1>7. Compared'
  BY <1>1, <1>2 DEF DInv, Compared
<1>8. ObservedWritesAreNotDreams'
  BY <1>1 DEF DInv, ObservedWritesAreNotDreams
<1> QED  BY <1>5, <1>6, <1>7, <1>8 DEF DInv

LEMMA DInvDreaming ==
    ASSUME HInv, DInv, NEW f \in Dream, NEW v \in {Absent, Dreamt}, Dreaming(f, v)
    PROVE  DInv'
<1>1. disk' = [disk EXCEPT ![f] = v] /\ UNCHANGED <<phase, snapshots, scan, caught, raced>>
  BY DEF Dreaming
<1>2. v \notin Call /\ Dream \subseteq File /\ disk \in [File -> Content]
  BY EventAssumption DEF HInv, TypeOK
<1>3. \A g \in File : disk'[g] \in Call => disk'[g] = disk[g]
  BY <1>1, <1>2
<1>4. Written'
  BY <1>1, <1>3 DEF DInv, Written
<1>5. Snapped'
  BY <1>1, <1>2, <1>3 DEF DInv, Snapped
<1> QED  BY <1>1, <1>4, <1>5 DEF DInv, Compared, ObservedWritesAreNotDreams

LEMMA DInvScan ==
    ASSUME HInv, DInv, NEW s \in Scan, ScanStep(s)
    PROVE  DInv'
<1>1. UNCHANGED <<phase, disk>> /\ scan \in [Scan -> {scan[t] : t \in Scan}]
  BY DEF HInv, TypeOK, ScanStep, StartScan, ReadFile, InspectPath, EndScan
<1>2. Written'
  BY <1>1 DEF DInv, Written
<1>3. ASSUME UNCHANGED <<snapshots, caught, raced>>, NEW x, x.step # "compare",
             scan' = [scan EXCEPT ![s] = x]
      PROVE  DInv'
  <2>1. Compared'
    <3>1. \A t \in Scan : scan'[t] = IF t = s THEN x ELSE scan[t]
      BY <1>1, <1>3
    <3> QED  BY <1>1, <1>3, <3>1 DEF DInv, Compared
  <2> QED  BY <1>1, <1>2, <1>3, <2>1 DEF DInv, Snapped, ObservedWritesAreNotDreams
<1>4. CASE StartScan(s)
  BY <1>3, <1>4 DEF StartScan
<1>5. CASE EndScan(s)
  BY <1>3, <1>5 DEF EndScan, NoScan
<1>6. ASSUME NEW f \in File, ReadFile(s, f)  PROVE DInv'
  <2> DEFINE x == [step |-> "compare", todo |-> scan[s].todo \ {f}, emitNew |-> scan[s].emitNew,
                   file |-> f, current |-> disk[f]]
  <2>1. /\ scan' = [scan EXCEPT ![s] = x] /\ UNCHANGED <<snapshots, caught>>
        /\ raced' = (raced \/ \E c \in Call : phase[c] = "ran" /\ disk[f] = c)
    BY <1>6 DEF ReadFile
  <2>2. x.current = disk[f]
    OBVIOUS
  <2> HIDE DEF x
  <2>3. \A t \in Scan : scan'[t] = IF t = s THEN x ELSE scan[t]
    BY <1>1, <2>1
  <2>4. ~raced' => ~raced
    BY <2>1
  <2>5. Compared'
    <3> SUFFICES ASSUME ~raced', NEW t \in Scan, scan'[t].step = "compare", scan'[t].current \in Call
                 PROVE  phase[scan'[t].current] = "done"
      BY <1>1 DEF Compared
    <3>1. CASE t = s
      <4>1. scan'[t].current = disk[f]
        BY <2>2, <2>3, <3>1
      <4>2. phase[disk[f]] \in {"ran", "done"} /\ phase[disk[f]] # "ran"
        BY <2>1, <4>1 DEF DInv, Written
      <4> QED  BY <4>1, <4>2
    <3>2. CASE t # s
      BY <2>3, <2>4, <3>2 DEF DInv, Compared
    <3> QED  BY <3>1, <3>2
  <2> QED  BY <1>1, <1>2, <2>1, <2>4, <2>5 DEF DInv, Snapped, ObservedWritesAreNotDreams
<1>7. CASE InspectPath(s)
  <2> DEFINE f == scan[s].file
             v == scan[s].current
             x == [step |-> "read", todo |-> scan[s].todo, emitNew |-> scan[s].emitNew]
             change == IF f \in DOMAIN snapshots THEN snapshots[f] # v
                                                 ELSE v # Absent /\ scan[s].emitNew
  <2>1. /\ scan[s].step = "compare"
        /\ snapshots' = [g \in DOMAIN snapshots \cup {f} |-> IF g = f THEN v ELSE snapshots[g]]
        /\ caught' = IF change THEN caught \cup {[file |-> f, digest |-> v]} ELSE caught
        /\ raced' = (raced \/ disk[f] # v) /\ scan' = [scan EXCEPT ![s] = x]
    BY <1>7 DEF InspectPath
  <2>2. scan[s] \in CompareState
    BY <2>1, ScanIs DEF HInv
  <2>3. f \in Dream /\ Dream \subseteq File /\ x.step # "compare"
    BY <2>2, EventAssumption DEF CompareState
  <2>4. raced \in BOOLEAN
    BY DEF HInv, TypeOK
  <2> HIDE DEF f, v, x
  <2>5. \A t \in Scan : scan'[t] = IF t = s THEN x ELSE scan[t]
    BY <1>1, <2>1
  <2>6. ~raced' => ~raced /\ disk[f] = v
    BY <2>1
  <2>7. Compared'
    BY <1>1, <2>3, <2>5, <2>6 DEF DInv, Compared
  <2>8. Snapped'
    BY <1>1, <2>1, <2>6 DEF DInv, Snapped
  <2>9. ASSUME ~raced', v \in Call, OwnId(v)  PROVE ~change
    <3>1. phase[v] = "done"
      BY <2>1, <2>6, <2>9 DEF DInv, Compared, v
    <3>2. f \in DOMAIN snapshots /\ snapshots[f] = v
      BY <2>3, <2>6, <2>9, <3>1 DEF DInv, Snapped
    <3> QED  BY <3>2
  <2> HIDE DEF change
  <2>10. ObservedWritesAreNotDreams'
    BY <2>1, <2>6, <2>9 DEF DInv, ObservedWritesAreNotDreams
  <2> QED  BY <1>2, <2>7, <2>8, <2>10 DEF DInv
<1> QED  BY <1>4, <1>5, <1>6, <1>7 DEF ScanStep

LEMMA DInvHolds == Spec => []DInv
<1>1. Init => DInv
  BY EventAssumption DEF Init, DInv, Written, Snapped, Compared, ObservedWritesAreNotDreams, NoScan
<1>2. HInv /\ DInv /\ [Next]_vars => DInv'
  <2> SUFFICES ASSUME HInv, DInv, [Next]_vars  PROVE DInv'
    OBVIOUS
  <2>1. CASE Tick \/ UNCHANGED vars
    BY <2>1 DEF Tick, vars, DInv, Written, Snapped, Compared, ObservedWritesAreNotDreams
  <2> QED  BY <2>1, DInvHooks, DInvRun, DInvDreaming, DInvScan DEF Next
<1> QED  BY <1>1, <1>2, HInvHolds, PTL DEF Spec

(* For any number of calls, files and overlapping scans: the dream catcher   *)
(* reports no write that the hooks reported, unless it was read between a    *)
(* tool and its after hook or changed while a scan looked at it.             *)
THEOREM ObservedWrites == Spec => []ObservedWritesAreNotDreams
<1>1. DInv => ObservedWritesAreNotDreams
  BY DEF DInv
<1> QED  BY <1>1, DInvHolds, PTL

-------------------------------------------------------------------------------
(* What pending remembers of an open call. *)
Distinct == \A k, l \in 1 .. Len(pending) : k # l => pending[k].key # pending[l].key

\* The record a call id stands for.
Place(index) == IF index = 0 THEN 1 ELSE index

(* The intents of an open call are in pending, with their time and their    *)
(* operations, or past the TTL.                                             *)
Recalled(C, i, id) ==
    /\ i.at + Ttl < now \/ \E k \in 1 .. Len(C) : C[k].key = id
    /\ \A k \in 1 .. Len(C) : C[k].key = id => /\ i.at = C[k].ts
                                               /\ i.operation = C[k].value[Place(i.index)].operation

Remembered == \A c \in Call : OwnId(c) /\ Open(c) =>
                 \A i \in SentIn(log, "intent", c) : Recalled(pending, i, Event[c].id)

(* The second half of ResultsMatchIntents. *)
Operations(L, kind, c) == {<<r.index, r.operation>> : r \in SentIn(L, kind, c)}
InTtl(L, c) == \A r \in SentIn(L, "result", c) : \A i \in SentIn(L, "intent", c) : r.at <= i.at + Ttl

Matched == \A c \in Call : /\ OwnId(c) /\ phase[c] = "done" /\ SentIn(log, "intent", c) # {}
                           /\ InTtl(log, c)
                           => Operations(log, "result", c) = Operations(log, "intent", c)

MInv == Distinct /\ (repeats = 0 => Remembered /\ Matched)

(* pending has room for the calls that are open.                            *)
FewOpen == LET open == {c \in Call : Open(c)}
           IN  IsFiniteSet(open) /\ Cardinality(open) <= MaxEntries

(* A full cache of open calls holds all the open calls, if there are few.   *)
LEMMA Crowded ==
    ASSUME NEW O, IsFiniteSet(O), NEW D, Len(D) = MaxEntries,
           \A k, l \in 1 .. Len(D) : k # l => D[k].key # D[l].key,
           \A k \in 1 .. Len(D) : \E e \in O : Event[e].id = D[k].key,
           NEW d \in O, \A k \in 1 .. Len(D) : D[k].key # Event[d].id
    PROVE  ~(Cardinality(O) <= MaxEntries)
<1> DEFINE n == MaxEntries
           f == [k \in 0 .. n |-> IF k = 0 THEN d ELSE CHOOSE e \in O : Event[e].id = D[k].key]
<1>1. n \in Nat /\ \A k \in 0 .. n : k # 0 => k \in 1 .. n
  BY LimitAssumption
<1>2. f[0] = d /\ \A k \in 1 .. n : f[k] \in O /\ Event[f[k]].id = D[k].key
  BY <1>1
<1>3. f \in [0 .. n -> O]
  <2>1. \A k \in 0 .. n : f[k] \in O
    <3> HIDE DEF f
    <3> QED  BY <1>1, <1>2
  <2> QED  BY <2>1
<1> HIDE DEF f
<1>4. ASSUME NEW k \in 0 .. n, NEW l \in 0 .. n, k # l  PROVE f[k] # f[l]
  <2>1. CASE k = 0
    BY <1>1, <1>2, <1>4, <2>1
  <2>2. CASE l = 0
    BY <1>1, <1>2, <1>4, <2>2
  <2>3. CASE k # 0 /\ l # 0
    BY <1>1, <1>2, <1>4, <2>3
  <2> QED  BY <2>1, <2>2, <2>3
<1>5. f \in Injection(0 .. n, O)
  BY <1>3, <1>4 DEF Injection, IsInjective
<1>6. Cardinality(0 .. n) <= Cardinality(O) /\ Cardinality(O) \in Nat
  BY <1>5, FS_Injection, FS_CardinalityType
<1>7. Cardinality(0 .. n) = n + 1
  <2>1. 0 \in Int /\ n \in Int
    BY <1>1
  <2>2. Cardinality(0 .. n) = IF 0 > n THEN 0 ELSE n - 0 + 1
    BY <2>1, FS_Interval
  <2> QED  BY <1>1, <2>2
<1> QED  BY <1>1, <1>6, <1>7

(* The rows a hook sends when it fires for the first time are all the rows  *)
(* of its call.                                                             *)
RowOf(records, x, r) == r.index = Index(records, x) /\ r.operation = records[x].operation /\ r.at = now
RowsAre(kind, c, records, M) ==
    /\ \A r \in SentIn(M, kind, c) : \E x \in 1 .. Len(records) : RowOf(records, x, r)
    /\ \A x \in 1 .. Len(records) : \E r \in SentIn(M, kind, c) : RowOf(records, x, r)

LEMMA FirstRows ==
    ASSUME TypeOK, NEW kind, NEW c \in Call, OwnId(c), NEW records, Len(records) \in Nat,
           NEW M \in Seq(Row), Rowed(kind, c, records, Len(records), M),
           \A x \in 1 .. Len(log) : log[x].type # kind \/ log[x].call # c
    PROVE  RowsAre(kind, c, records, M)
<1> DEFINE n == Len(records)
<1>1. Unfired(kind, c)
  BY UnfiredIs
<1>2. Adds(kind, c, n, M, kind, c)
  BY SentGrows
<1>3. SentIn(log, kind, c) = {}
  <2>1. DOMAIN log = 1 .. Len(log)
    BY DEF TypeOK
  <2> QED  BY <2>1 DEF SentIn
<1>4. \A x \in 1 .. n : RowOf(records, x, M[Len(log) + x])
  BY DEF Rowed, RowOf
<1>5. \A r \in SentIn(M, kind, c) : \E x \in 1 .. n : r = M[Len(log) + x]
  BY <1>2, <1>3 DEF Adds
<1>6. \A x \in 1 .. n : M[Len(log) + x] \in SentIn(M, kind, c)
  BY <1>1, <1>2 DEF Adds
<1> QED  BY <1>4, <1>5, <1>6 DEF RowsAre

LEMMA PlaceOf ==
    ASSUME NEW records, Len(records) \in Nat, NEW x \in 1 .. Len(records)
    PROVE  Place(Index(records, x)) = x
<1> DEFINE n == Len(records)
<1>1. n \in Nat /\ x \in 1 .. n /\ Index(records, x) = IF n = 1 THEN 0 ELSE x
  BY DEF Index
<1> HIDE DEF n
<1> QED  BY <1>1 DEF Place

(* The other calls do not disturb what pending recalls of a call.           *)
LEMMA RecalledStays ==
    ASSUME HInv, NEW C, NEW D, NEW id, NEW i,
           Recalled(C, i, id),
           \A k \in 1 .. Len(D) : D[k].key = id => \E l \in 1 .. Len(C) : D[k] = C[l],
           \A l \in 1 .. Len(C) : C[l].key = id /\ ~(C[l].ts + Ttl < now) =>
               \E k \in 1 .. Len(D) : D[k] = C[l]
    PROVE  Recalled(D, i, id)
BY DEF Recalled

LEMMA BeforeRemembers ==
    ASSUME HInv, MInv, HInv', FewOpen', NEW c \in Call, BeforeToolCall(c)
    PROVE  MInv'
<1> USE DEF HInv
<1> DEFINE records == Records(c, Before(c))
           n == Len(records)
           id == Event[c].id
           new == [key |-> id, value |-> records, ts |-> now]
<1>1. PICK a : /\ Turned("intent", c, records, n, a)
               /\ dedupe' = a.dedupe /\ log' = a.log /\ snapshots' = a.snapshots
  BY BeforeTurns
<1>2. records \in Seq(Record) /\ n \in Nat
  BY EventType, RecordsType
<1>3. /\ Fires(c, "new", "begun") /\ now' = now
      /\ pending' = IF records = <<>> THEN pending ELSE Cache!Set(pending, id, records, now)
  BY DEF BeforeToolCall, Before
<1>4. /\ phase'[c] = "begun"
      /\ \A d \in Call : d # c => phase'[d] = phase[d]
      /\ (phase[c] = "new" /\ repeats' = repeats) \/ repeats' # 0
  BY <1>3, FiresIs
<1>5. ASSUME records # <<>>  PROVE \E g : Follows(pending', pending, id, now, new, g)
  <2> HIDE DEF records
  <2> QED  BY <1>2, <1>3, <1>5, PendingSet
<1>6. Len(pending) \in Nat /\ Len(pending') \in Nat /\ now \in Nat /\ Ttl \in Nat
  BY LimitAssumption DEF TypeOK
<1> HIDE DEF records, n, id, new
<1>7. log' \in Seq(Row) /\ Rowed("intent", c, records, n, log')
  BY <1>1 DEF Turned, Sending
<1>8. ASSUME NEW g, Follows(pending', pending, id, now, new, g), NEW k \in 1 .. Len(pending')
      PROVE  \/ k = Len(pending') /\ pending'[k] = new /\ pending'[k].key = id
             \/ /\ k \in 1 .. Len(pending') - 1 /\ g[k] \in 1 .. Len(pending)
                /\ pending'[k] = pending[g[k]] /\ pending'[k].key # id
  <2>1. CASE k = Len(pending')
    BY <1>8, <2>1 DEF Follows, new
  <2>2. CASE k # Len(pending')
    <3>1. k \in 1 .. Len(pending') - 1
      BY <1>6, <2>2
    <3>2. g[k] \in Others(pending, id, now) /\ pending'[k] = pending[g[k]]
      BY <1>8, <3>1 DEF Follows
    <3> QED  BY <3>1, <3>2 DEF Others, Fresh
  <2> QED  BY <2>1, <2>2
<1>9. Distinct'
  <2>1. CASE records = <<>>
    BY <1>3, <2>1 DEF MInv, Distinct
  <2>2. CASE records # <<>>
    <3>1. PICK g : Follows(pending', pending, id, now, new, g)
      BY <1>5, <2>2
    <3> SUFFICES ASSUME NEW k \in 1 .. Len(pending'), NEW l \in 1 .. Len(pending'), k < l
                 PROVE  pending'[k].key # pending'[l].key
      BY <1>6 DEF Distinct
    <3>2. k \in 1 .. Len(pending') - 1 /\ g[k] \in 1 .. Len(pending) /\ pending'[k] = pending[g[k]]
          /\ pending'[k].key # id
      BY <1>6, <1>8, <3>1
    <3>3. CASE l = Len(pending')
      BY <1>8, <3>1, <3>2, <3>3
    <3>4. CASE l # Len(pending')
      <4>1. l \in 1 .. Len(pending') - 1 /\ g[l] \in 1 .. Len(pending) /\ pending'[l] = pending[g[l]]
        BY <1>8, <3>1, <3>4
      <4>2. g[k] < g[l]
        BY <3>1, <3>2, <4>1 DEF Follows
      <4> QED  BY <3>2, <4>1, <4>2 DEF MInv, Distinct
    <3> QED  BY <3>3, <3>4
  <2> QED  BY <2>1, <2>2
<1>10. ASSUME repeats' = 0  PROVE phase[c] = "new" /\ Remembered /\ Matched
  BY <1>4, <1>10 DEF MInv
<1>11. ASSUME repeats' = 0, NEW d \in Call, OwnId(d), d # c, Open(d)', records # <<>>,
             NEW l \in 1 .. Len(pending), pending[l].key = Event[d].id, ~(pending[l].ts + Ttl < now)
       PROVE  \E k \in 1 .. Len(pending') : pending'[k] = pending[l]
  <2>1. PICK g : Follows(pending', pending, id, now, new, g)
    BY <1>5, <1>11
  <2>2. Event[d].id # id
    BY <1>11 DEF OwnId, id
  <2>3. pending[l].ts \in Nat
    <3>1. pending \in Seq(Pending)
      BY DEF TypeOK, Pending
    <3>2. pending[l] \in Pending
      BY <3>1
    <3> QED  BY <1>6, <3>2 DEF Pending
  <2>4. l \in Others(pending, id, now)
    BY <1>6, <1>11, <2>2, <2>3 DEF Others, Fresh
  <2>5. CASE \E k \in 1 .. Len(pending') - 1 : g[k] = l
    <3>1. PICK k \in 1 .. Len(pending') - 1 : g[k] = l
      BY <2>5
    <3>2. pending'[k] = pending[l] /\ k \in 1 .. Len(pending')
      BY <1>6, <2>1, <3>1 DEF Follows
    <3> QED  BY <3>2
  <2>6. CASE Len(pending') = MaxEntries /\ \A k \in 1 .. Len(pending') - 1 : l < g[k]
    <3> DEFINE O == {e \in Call : Open(e)'}
    <3>1. IsFiniteSet(O) /\ Cardinality(O) <= MaxEntries
      BY DEF FewOpen
    <3>2. \A k, m \in 1 .. Len(pending') : k # m => pending'[k].key # pending'[m].key
      BY <1>9 DEF Distinct
    <3>3. \A k \in 1 .. Len(pending') : \E e \in O : Event[e].id = pending'[k].key
      BY DEF PendingOpen
    <3>4. d \in O
      BY <1>11
    <3>5. ASSUME NEW k \in 1 .. Len(pending')  PROVE pending'[k].key # Event[d].id
      <4>1. CASE k = Len(pending')
        BY <1>8, <2>1, <2>2, <4>1
      <4>2. CASE k # Len(pending')
        <5>1. k \in 1 .. Len(pending') - 1 /\ g[k] \in 1 .. Len(pending) /\ pending'[k] = pending[g[k]]
          BY <1>8, <2>1, <4>2
        <5>2. g[k] # l
          BY <2>6, <5>1
        <5> QED  BY <1>11, <5>1, <5>2 DEF MInv, Distinct
      <4> QED  BY <4>1, <4>2
    <3> HIDE DEF O
    <3> QED  BY <2>6, <3>1, <3>2, <3>3, <3>4, <3>5, Crowded
  <2> QED  BY <2>1, <2>4, <2>5, <2>6 DEF Follows
<1>12. ASSUME repeats' = 0, NEW d \in Call, OwnId(d), d # c, Open(d)', NEW i \in SentIn(log', "intent", d)
       PROVE  Recalled(pending, i, Event[d].id)'
  <2>1. SentIn(log', "intent", d) = SentIn(log, "intent", d)
    BY <1>2, <1>7, <1>12, SentElsewhere
  <2>2. Recalled(pending, i, Event[d].id)
    BY <1>4, <1>10, <1>12, <2>1 DEF Remembered, Open
  <2>3. Recalled(pending', i, Event[d].id)
    <3>1. CASE records = <<>>
      BY <1>3, <2>2, <3>1
    <3>2. CASE records # <<>>
      <4>1. PICK g : Follows(pending', pending, id, now, new, g)
        BY <1>5, <3>2
      <4>2. Event[d].id # id
        BY <1>12 DEF OwnId, id
      <4>3. \A k \in 1 .. Len(pending') : pending'[k].key = Event[d].id =>
                \E l \in 1 .. Len(pending) : pending'[k] = pending[l]
        BY <1>8, <4>1, <4>2
      <4>4. \A l \in 1 .. Len(pending) :
               pending[l].key = Event[d].id /\ ~(pending[l].ts + Ttl < now) =>
                   \E k \in 1 .. Len(pending') : pending'[k] = pending[l]
        BY <1>11, <1>12, <3>2
      <4> QED  BY <2>2, <4>3, <4>4, RecalledStays
    <3> QED  BY <3>1, <3>2
  <2> QED  BY <1>3, <2>3 DEF Recalled
<1>13. ASSUME repeats' = 0, OwnId(c), NEW i \in SentIn(log', "intent", c)
       PROVE  Recalled(pending, i, id)'
  <2>1. \A x \in 1 .. Len(log) : log[x].type # "intent" \/ log[x].call # c
    BY <1>10, <1>13 DEF RowsInPhase
  <2>2. PICK x \in 1 .. n : RowOf(records, x, i)
    <3>1. RowsAre("intent", c, records, log')
      BY <1>2, <1>7, <1>13, <2>1, FirstRows DEF n
    <3> QED  BY <1>13, <3>1 DEF RowsAre, n
  <2>3. Place(i.index) = x
    BY <1>2, <2>2, PlaceOf DEF n, RowOf
  <2>4. records # <<>>
    BY <2>2 DEF n
  <2>5. PICK g : Follows(pending', pending, id, now, new, g)
    BY <1>5, <2>4
  <2>6. Len(pending') \in 1 .. Len(pending')
    BY <1>6, <2>5 DEF Follows
  <2>7. new.key = id /\ new.ts = now /\ new.value = records
    BY DEF new
  <2>8. pending'[Len(pending')].key = id
    BY <2>5, <2>7 DEF Follows
  <2>9. ASSUME NEW k \in 1 .. Len(pending'), pending'[k].key = id
        PROVE  i.at = pending'[k].ts /\ i.operation = pending'[k].value[Place(i.index)].operation
    <3>1. pending'[k] = new
      BY <1>8, <2>5, <2>9
    <3> QED  BY <2>2, <2>3, <2>7, <3>1 DEF RowOf
  <2> QED  BY <2>6, <2>8, <2>9 DEF Recalled
<1>14. repeats' = 0 => Remembered'
  <2> SUFFICES ASSUME repeats' = 0, NEW d \in Call, OwnId(d), Open(d)', NEW i \in SentIn(log', "intent", d)
               PROVE  Recalled(pending, i, Event[d].id)'
    BY DEF Remembered
  <2>1. CASE d = c
    BY <1>13, <2>1 DEF id
  <2>2. CASE d # c
    BY <1>12, <2>2
  <2> QED  BY <2>1, <2>2
<1>15. repeats' = 0 => Matched'
  <2> SUFFICES ASSUME repeats' = 0, NEW d \in Call, OwnId(d), phase'[d] = "done",
                      SentIn(log', "intent", d) # {}, InTtl(log', d)
               PROVE  Operations(log', "result", d) = Operations(log', "intent", d)
    BY DEF Matched
  <2>1. d # c /\ phase[d] = "done"
    BY <1>4
  <2>2. SentIn(log', "intent", d) = SentIn(log, "intent", d)
        /\ SentIn(log', "result", d) = SentIn(log, "result", d)
    BY <1>2, <1>7, <2>1, SentElsewhere
  <2>3. Matched
    BY <1>10
  <2> QED  BY <2>1, <2>2, <2>3 DEF Matched, InTtl, Operations
<1> QED  BY <1>9, <1>14, <1>15 DEF MInv

LEMMA AfterMatches ==
    ASSUME HInv, Remembered, NEW c \in Call, OwnId(c), AfterToolCall(c), phase[c] = "ran",
           SentIn(log', "intent", c) # {}, InTtl(log', c)
    PROVE  Operations(log', "result", c) = Operations(log', "intent", c)
<1> USE DEF HInv
<1> DEFINE records == Closing(c)
           n == Len(records)
           id == Event[c].id
           has == Cache!Has(pending, id, now)
<1>1. PICK a : /\ Turned("result", c, records, n, a)
               /\ dedupe' = a.dedupe /\ log' = a.log /\ snapshots' = a.snapshots
  BY AfterTurns
<1>2. records \in Seq(Record) /\ n \in Nat /\ n = Len(After(c))
  BY ClosingType
<1>3. has => \E k \in Fresh(pending, now) :
                /\ pending[k].key = id
                /\ \A x \in 1 .. n : records[x].operation = pending[k].value[x].operation
  BY <1>2, ClosingType
<1>4. has <=> \E k \in Fresh(pending, now) : pending[k].key = id
  <2>1. pending \in Seq(Pending) /\ Len(pending) <= MaxEntries
    BY DEF TypeOK, Pending
  <2> QED  BY <2>1, HasIs
<1> HIDE DEF records, n, id, has
<1>5. log' \in Seq(Row) /\ Rowed("result", c, records, n, log')
  BY <1>1 DEF Turned, Sending
<1>6. SentIn(log', "intent", c) = SentIn(log, "intent", c)
  BY <1>2, <1>5, SentElsewhere
<1>7. RowsAre("result", c, records, log')
  <2>1. \A x \in 1 .. Len(log) : log[x].type # "result" \/ log[x].call # c
    BY DEF RowsInPhase
  <2> QED  BY <1>2, <1>5, <2>1, FirstRows DEF n
<1>8. ASSUME NEW i \in SentIn(log, "intent", c)  PROVE Recalled(pending, i, id)
  BY DEF Remembered, Open, id
<1>9. {i.index : i \in SentIn(log, "intent", c)} = Places(n) /\ n # 0
  <2> DEFINE b == Len(Before(c))
  <2>1. {i.index : i \in SentIn(log, "intent", c)} = Places(b)
    BY DEF IndexesSent
  <2>2. b \in {0, n}
    BY <1>2, EventType
  <2> HIDE DEF b
  <2>3. b # 0
    BY <1>6, <2>1 DEF Places
  <2> QED  BY <2>1, <2>2, <2>3
<1>10. \A i \in SentIn(log, "intent", c) : Place(i.index) \in 1 .. n /\ Index(records, Place(i.index)) = i.index
  <2>1. \A x \in Places(n) : Place(x) \in 1 .. n /\ (IF n = 1 THEN 0 ELSE Place(x)) = x
    BY <1>2, <1>9 DEF Places, Place
  <2>2. \A i \in SentIn(log, "intent", c) : i.index \in Places(n)
    BY <1>9
  <2> QED  BY <2>1, <2>2 DEF Index, n
<1>11. ASSUME NEW x \in 1 .. n
       PROVE  Index(records, x) \in Places(n) /\ Place(Index(records, x)) = x
  <2>1. Place(Index(records, x)) = x
    BY <1>2, PlaceOf DEF n
  <2> QED  BY <2>1 DEF Index, Places, n
<1>12. has
  <2> SUFFICES ASSUME ~has  PROVE FALSE
    OBVIOUS
  <2>1. PICK i \in SentIn(log, "intent", c) : TRUE
    BY <1>6
  <2>2. 1 \in 1 .. n
    BY <1>2, <1>9
  <2>3. PICK r \in SentIn(log', "result", c) : r.at = now
    BY <1>7, <2>2 DEF RowsAre, RowOf, n
  <2>4. now <= i.at + Ttl
    BY <1>6, <2>1, <2>3 DEF InTtl
  <2>5. i.at \in Nat /\ Ttl \in Nat /\ now \in Nat
    <3>1. i \in Row
      BY <2>1 DEF SentIn, TypeOK
    <3> QED  BY <3>1, LimitAssumption DEF Row, TypeOK
  <2>6. PICK k \in 1 .. Len(pending) : pending[k].key = id
    BY <1>8, <2>1, <2>4, <2>5 DEF Recalled
  <2>7. pending[k].ts = i.at
    BY <1>8, <2>1, <2>6 DEF Recalled
  <2>8. k \in Fresh(pending, now)
    BY <2>4, <2>5, <2>7 DEF Fresh
  <2> QED  BY <1>4, <2>6, <2>8
<1>13. PICK k \in Fresh(pending, now) :
          /\ pending[k].key = id
          /\ \A x \in 1 .. n : records[x].operation = pending[k].value[x].operation
  BY <1>3, <1>12
<1>14. \A i \in SentIn(log, "intent", c) : i.operation = records[Place(i.index)].operation
  <2>1. k \in 1 .. Len(pending)
    BY DEF Fresh
  <2> QED  BY <1>8, <1>10, <1>13, <2>1 DEF Recalled
<1>15. ASSUME NEW r \in SentIn(log', "result", c)
       PROVE  \E i \in SentIn(log, "intent", c) : <<r.index, r.operation>> = <<i.index, i.operation>>
  <2>1. PICK x \in 1 .. n : r.index = Index(records, x) /\ r.operation = records[x].operation
    BY <1>7 DEF RowsAre, RowOf, n
  <2>2. PICK i \in SentIn(log, "intent", c) : i.index = Index(records, x)
    BY <1>9, <1>11
  <2>3. i.operation = records[x].operation
    BY <1>11, <1>14, <2>2
  <2> QED  BY <2>1, <2>2, <2>3
<1>16. ASSUME NEW i \in SentIn(log, "intent", c)
       PROVE  \E r \in SentIn(log', "result", c) : <<r.index, r.operation>> = <<i.index, i.operation>>
  <2>1. Place(i.index) \in 1 .. n /\ Index(records, Place(i.index)) = i.index
    BY <1>10
  <2>2. PICK r \in SentIn(log', "result", c) :
            r.index = Index(records, Place(i.index)) /\ r.operation = records[Place(i.index)].operation
    BY <1>7, <2>1 DEF RowsAre, RowOf, n
  <2> QED  BY <1>14, <2>1, <2>2
<1> QED  BY <1>6, <1>15, <1>16 DEF Operations

LEMMA AfterRemembers ==
    ASSUME HInv, MInv, NEW c \in Call, AfterToolCall(c)
    PROVE  MInv'
<1> USE DEF HInv
<1> DEFINE id == Event[c].id
<1>1. PICK a : /\ Turned("result", c, Closing(c), Len(Closing(c)), a)
               /\ dedupe' = a.dedupe /\ log' = a.log /\ snapshots' = a.snapshots
  BY AfterTurns
<1>2. Len(Closing(c)) \in Nat
  BY ClosingType
<1>3. Fires(c, "ran", "done") /\ now' = now /\ pending' = Cache!Take(pending, id, now)
  BY DEF AfterToolCall
<1>4. /\ phase'[c] = "done"
      /\ \A d \in Call : d # c => phase'[d] = phase[d]
      /\ (phase[c] = "ran" /\ repeats' = repeats) \/ repeats' # 0
  BY <1>3, FiresIs
<1>5. PICK h : Lists(pending', pending, Others(pending, id, now), h)
  BY <1>3, PendingTake
<1>6. Len(pending) \in Nat /\ Len(pending') \in Nat /\ now \in Nat /\ Ttl \in Nat
  <2>1. pending \in Seq(Pending) /\ pending' \in Seq(Pending)
    BY <1>3, PendingTake DEF TypeOK, Pending
  <2> QED  BY <2>1, LimitAssumption DEF TypeOK
<1> HIDE DEF id
<1>7. log' \in Seq(Row) /\ Rowed("result", c, Closing(c), Len(Closing(c)), log')
  BY <1>1 DEF Turned, Sending
<1>8. \A k \in 1 .. Len(pending') : h[k] \in 1 .. Len(pending) /\ pending'[k] = pending[h[k]]
  BY <1>5 DEF Lists, Others, Fresh
<1>9. Distinct'
  <2> SUFFICES ASSUME NEW k \in 1 .. Len(pending'), NEW l \in 1 .. Len(pending'), k < l
               PROVE  pending'[k].key # pending'[l].key
    BY <1>6 DEF Distinct
  <2>1. h[k] < h[l]
    BY <1>5 DEF Lists
  <2> QED  BY <1>8, <2>1 DEF MInv, Distinct
<1>10. ASSUME repeats' = 0  PROVE phase[c] = "ran" /\ Remembered /\ Matched
  BY <1>4, <1>10 DEF MInv
<1>11. repeats' = 0 => Remembered'
  <2> SUFFICES ASSUME repeats' = 0, NEW d \in Call, OwnId(d), Open(d)', NEW i \in SentIn(log', "intent", d)
               PROVE  Recalled(pending, i, Event[d].id)'
    BY DEF Remembered
  <2>1. d # c /\ Open(d) /\ Event[d].id # id
    BY <1>4 DEF Open, OwnId, id
  <2>2. SentIn(log', "intent", d) = SentIn(log, "intent", d)
    BY <1>2, <1>7, SentElsewhere
  <2>3. Recalled(pending, i, Event[d].id)
    BY <1>10, <2>1, <2>2 DEF Remembered
  <2>4. \A k \in 1 .. Len(pending') : pending'[k].key = Event[d].id =>
            \E l \in 1 .. Len(pending) : pending'[k] = pending[l]
    BY <1>8
  <2>5. ASSUME NEW l \in 1 .. Len(pending), pending[l].key = Event[d].id, ~(pending[l].ts + Ttl < now)
        PROVE  \E k \in 1 .. Len(pending') : pending'[k] = pending[l]
    <3>1. pending[l].ts \in Nat
      <4>1. pending \in Seq(Pending)
        BY DEF TypeOK, Pending
      <4>2. pending[l] \in Pending
        BY <4>1
      <4> QED  BY <1>6, <4>2 DEF Pending
    <3>2. l \in Others(pending, id, now)
      <4>1. pending[l].ts + Ttl >= now /\ pending[l].key # id
        BY <1>6, <2>1, <2>5, <3>1
      <4> QED  BY <4>1 DEF Others, Fresh
    <3>3. PICK k \in 1 .. Len(pending') : h[k] = l
      BY <1>5, <3>2 DEF Lists
    <3> QED  BY <1>8, <3>3
  <2>6. Recalled(pending', i, Event[d].id)
    BY <2>3, <2>4, <2>5, RecalledStays
  <2> QED  BY <1>3, <2>6 DEF Recalled
<1>12. repeats' = 0 => Matched'
  <2> SUFFICES ASSUME repeats' = 0, NEW d \in Call, OwnId(d), phase'[d] = "done",
                      SentIn(log', "intent", d) # {}, InTtl(log', d)
               PROVE  Operations(log', "result", d) = Operations(log', "intent", d)
    BY DEF Matched
  <2>1. CASE d = c
    BY <1>10, <2>1, AfterMatches
  <2>2. CASE d # c
    <3>1. SentIn(log', "intent", d) = SentIn(log, "intent", d)
          /\ SentIn(log', "result", d) = SentIn(log, "result", d)
      BY <1>2, <1>7, <2>2, SentElsewhere
    <3>2. Matched /\ phase[d] = "done"
      BY <1>4, <1>10, <2>2
    <3> QED  BY <3>1, <3>2 DEF Matched, InTtl, Operations
  <2> QED  BY <2>1, <2>2
<1> QED  BY <1>9, <1>11, <1>12 DEF MInv

LEMMA TickRemembers ==
    ASSUME HInv, MInv, Tick
    PROVE  MInv'
<1>1. now' = now + 1 /\ UNCHANGED <<phase, pending, log, repeats>>
  BY DEF Tick
<1>2. ASSUME NEW c \in Call, NEW i \in SentIn(log, "intent", c), Recalled(pending, i, Event[c].id)
      PROVE  Recalled(pending, i, Event[c].id)'
  <2>1. i.at + Ttl \in Nat /\ now \in Nat
    <3>1. log \in Seq(Row)
      BY DEF HInv, TypeOK
    <3>2. i \in Row
      BY <3>1 DEF SentIn
    <3> QED  BY <3>2, LimitAssumption DEF Row, HInv, TypeOK
  <2> QED  BY <1>1, <1>2, <2>1 DEF Recalled
<1>3. Distinct' /\ (Matched => Matched')
  BY <1>1 DEF MInv, Distinct, Matched
<1>4. Remembered => Remembered'
  BY <1>1, <1>2 DEF Remembered, Open
<1> QED  BY <1>1, <1>3, <1>4 DEF MInv

LEMMA RunRemembers ==
    ASSUME HInv, MInv, NEW c \in Call, RunTool(c)
    PROVE  MInv'
<1>1. /\ UNCHANGED <<now, pending, log, repeats>>
      /\ phase[c] = "begun" /\ phase' = [phase EXCEPT ![c] = "ran"]
  BY DEF RunTool
<1>2. \A d \in Call : (Open(d)' <=> Open(d)) /\ (phase'[d] = "done" <=> phase[d] = "done")
  BY <1>1 DEF HInv, TypeOK, Open
<1> QED  BY <1>1, <1>2 DEF MInv, Distinct, Remembered, Recalled, Matched

LEMMA OtherRemembers ==
    ASSUME MInv, UNCHANGED <<now, phase, pending, log, repeats>>
    PROVE  MInv'
BY DEF MInv, Distinct, Remembered, Recalled, Matched, Open

LEMMA InitMInv == Init => MInv
<1> SUFFICES ASSUME Init  PROVE MInv
  OBVIOUS
<1>1. \A c \in Call : phase[c] = "new"
  BY DEF Init
<1>2. pending = <<>>
  BY DEF Init, Cache!Empty
<1> QED  BY <1>1, <1>2 DEF MInv, Distinct, Remembered, Matched, Open

LEMMA MInvHolds == Spec /\ []FewOpen => []MInv
<1>1. HInv /\ HInv' /\ FewOpen' /\ MInv /\ [Next]_vars => MInv'
  <2> SUFFICES ASSUME HInv, HInv', FewOpen', MInv, [Next]_vars  PROVE MInv'
    OBVIOUS
  <2>1. CASE UNCHANGED vars
    BY <2>1, OtherRemembers DEF vars
  <2>2. ASSUME NEW f \in Dream, NEW v \in {Absent, Dreamt}, Dreaming(f, v)  PROVE MInv'
    BY <2>2, OtherRemembers DEF Dreaming
  <2>3. ASSUME NEW s \in Scan, ScanStep(s)  PROVE MInv'
    BY <2>3, OtherRemembers DEF ScanStep, StartScan, ReadFile, InspectPath, EndScan
  <2> QED  BY <2>1, <2>2, <2>3, BeforeRemembers, AfterRemembers, RunRemembers, TickRemembers DEF Next
<1> QED  BY <1>1, InitMInv, HInvHolds, PTL DEF Spec

(* For any number of calls, one after another or at the same time: as long   *)
(* as no more calls are open than pending has room for, the after hook of a  *)
(* call closes what its before hook opened, with its operations.             *)
THEOREM ResultsMatch == Spec /\ []FewOpen => []ResultsMatchIntents
<1>1. HInv /\ MInv => ResultsMatchIntents
  <2> SUFFICES ASSUME HInv, MInv, NEW c \in Call, OwnId(c), phase[c] = "done",
                      SentIn(log, "intent", c) # {}
               PROVE  /\ {r.index : r \in SentIn(log, "result", c)} = {i.index : i \in SentIn(log, "intent", c)}
                      /\ repeats = 0 /\ InTtl(log, c)
                         => Operations(log, "result", c) = Operations(log, "intent", c)
    BY DEF ResultsMatchIntents, Sent, SentIn, InTtl, Operations
  <2>1. repeats = 0 /\ InTtl(log, c) => Operations(log, "result", c) = Operations(log, "intent", c)
    BY DEF MInv, Matched
  <2>2. {i.index : i \in SentIn(log, "intent", c)} = Places(Len(Before(c)))
        /\ {r.index : r \in SentIn(log, "result", c)} = Places(Len(After(c)))
    BY DEF HInv, IndexesSent
  <2>3. Len(Before(c)) # 0
    <3> DEFINE b == Len(Before(c))
    <3>1. {i.index : i \in SentIn(log, "intent", c)} = Places(b)
      BY <2>2
    <3> HIDE DEF b
    <3>2. b # 0
      BY <3>1 DEF Places
    <3> QED  BY <3>2 DEF b
  <2>4. Len(Before(c)) = Len(After(c))
    BY <2>3, EventType
  <2> QED  BY <2>1, <2>2, <2>4
<1> QED  BY <1>1, HInvHolds, MInvHolds, PTL
===============================================================================
