--------------------------- MODULE DedupeCacheProofs ---------------------------
(***************************************************************************)
(* Theorems about DedupeCache: for any number of keys, threads, hooks and  *)
(* items, what seen() answers is right by the TTL and by the size.         *)
(*                                                                         *)
(* The store is compared with the whole history of calls (Tracks): its     *)
(* items are last calls of their keys, in their order, with the times of   *)
(* the last intents of these keys; and a key that has no item is past the  *)
(* TTL, or MaxEntries other keys had calls after it.                       *)
(***************************************************************************)
EXTENDS DedupeCache, SequenceTheorems, FiniteSetTheorems, WellFoundedInduction, TLAPS

(* A set of naturals that has an element has a least one.                   *)
LEMMA NatMin ==
    ASSUME NEW T \in SUBSET Nat, T # {}
    PROVE  \E m \in T : \A n \in T : m <= n
<1> DEFINE R == OpToRel(<, Nat)
<1>1. PICK m \in T : \A n \in T : <<n, m>> \notin R
  <2>1. IsWellFoundedOn(R, Nat)
    BY NatLessThanWellFounded
  <2> HIDE DEF R
  <2> QED BY <2>1, WFMin
<1>2. \A n \in T : ~(n < m)
  BY <1>1 DEF OpToRel
<1> QED BY <1>2

-------------------------------------------------------------------------------
(* What the operators of the store return.                                  *)
Item == [key : HookKey, at : Nat]

(* _evict_expired leaves the items from the first young one on.             *)
Rest(Y, S, at, f) ==
    /\ f \in 1 .. Len(S) + 1 /\ Len(Y) = Len(S) - f + 1
    /\ \A i \in 1 .. Len(Y) : Y[i] = S[f - 1 + i]
    /\ \A i \in 1 .. f - 1 : Expired(S[i], at)
    /\ Len(Y) # 0 => ~Expired(Y[1], at)

LEMMA EvictIs ==
    ASSUME NEW S \in Seq(Item), NEW at
    PROVE  EvictExpired(S, at) \in Seq(Item) /\ \E f : Rest(EvictExpired(S, at), S, at, f)
<1> DEFINE n == Len(S)
           young == {i \in DOMAIN S : ~Expired(S[i], at)}
           Y == EvictExpired(S, at)
<1>1. n \in Nat /\ young = {i \in 1 .. n : ~Expired(S[i], at)}
  OBVIOUS
<1>2. CASE young = {}
  <2>1. Y = <<>>
    BY <1>2 DEF EvictExpired
  <2>2. \A i \in 1 .. n : Expired(S[i], at)
    <3> HIDE DEF n
    <3> QED  BY <1>1, <1>2
  <2>3. n + 1 \in 1 .. n + 1 /\ 0 = n - (n + 1) + 1 /\ (n + 1) - 1 = n
    BY <1>1
  <2>4. Rest(<<>>, S, at, n + 1)
    BY <2>2, <2>3 DEF Rest
  <2> HIDE DEF Y
  <2> QED  BY <2>1, <2>4 DEF Y
<1>3. CASE young # {}
  <2> DEFINE f == CHOOSE i \in young : \A j \in young : i <= j
  <2>1. \E i \in young : \A j \in young : i <= j
    <3>1. young \in SUBSET Nat
      BY <1>1
    <3> HIDE DEF young
    <3> QED  BY <1>3, <3>1, NatMin
  <2>2. f \in young /\ \A j \in young : f <= j
    <3> HIDE DEF young
    <3> QED  BY <2>1
  <2>3. Y = SubSeq(S, f, n)
    BY <1>3 DEF EvictExpired
  <2> HIDE DEF f
  <2>4. f \in 1 .. n /\ ~Expired(S[f], at)
    BY <1>1, <2>2
  <2>5. \A i \in 1 .. f - 1 : Expired(S[i], at)
    <3> SUFFICES ASSUME NEW i \in 1 .. f - 1, ~Expired(S[i], at)  PROVE FALSE
      OBVIOUS
    <3>1. i \in 1 .. n /\ ~(f <= i)
      BY <1>1, <2>4
    <3>2. i \in young
      BY <1>1, <3>1
    <3> HIDE DEF young
    <3> QED  BY <2>2, <3>1, <3>2
  <2>6. Y \in Seq(Item) /\ Len(Y) = n - f + 1 /\ \A i \in 1 .. Len(Y) : Y[i] = S[f - 1 + i]
    <3>1. f \in 1 .. Len(S) + 1 /\ Len(S) \in 1 .. Len(S)
      BY <1>1, <2>4
    <3>2. SubSeq(S, f, Len(S)) \in Seq(Item) /\ Len(SubSeq(S, f, Len(S))) = Len(S) - f + 1
          /\ \A i \in 1 .. Len(S) - f + 1 : SubSeq(S, f, Len(S))[i] = S[f - 1 + i]
      BY <2>4, <3>1
    <3> HIDE DEF Y
    <3> QED  BY <2>3, <3>2
  <2> HIDE DEF Y
  <2>7. Len(Y) # 0 => ~Expired(Y[1], at)
    <3>1. 1 \in 1 .. Len(Y) /\ f - 1 + 1 = f
      BY <1>1, <2>4, <2>6
    <3>2. Y[1] = S[f - 1 + 1]
      BY <2>6, <3>1
    <3> QED  BY <2>4, <3>1, <3>2
  <2>8. f \in 1 .. Len(S) + 1
    BY <1>1, <2>4
  <2> QED  BY <2>5, <2>6, <2>7, <2>8 DEF Rest, Y
<1> QED  BY <1>2, <1>3

(* A call leaves the item of its key last; the items before it are those of *)
(* other keys, in their order: all of them, or the newest of them in a      *)
(* store that is full.                                                      *)
Follows(D, Y, key, g) ==
    /\ Len(D) \in 1 .. MaxEntries /\ D[Len(D)].key = key
    /\ g \in [1 .. Len(D) - 1 -> 1 .. Len(Y)]
    /\ \A k, l \in 1 .. Len(D) - 1 : k < l => g[k] < g[l]
    /\ \A k \in 1 .. Len(D) - 1 : D[k] = Y[g[k]] /\ Y[g[k]].key # key
    /\ \A i \in 1 .. Len(Y) : Y[i].key # key =>
          \/ \E k \in 1 .. Len(D) - 1 : g[k] = i
          \/ Len(D) = MaxEntries /\ \A k \in 1 .. Len(D) - 1 : i < g[k]

LEMMA MoveIs ==
    ASSUME NEW Y \in Seq(Item), Len(Y) <= MaxEntries, NEW key, Known(Y, key),
           \A k, l \in 1 .. Len(Y) : k # l => Y[k].key # Y[l].key
    PROVE  LET D == MoveToEnd(Y, key)
           IN  /\ D \in Seq(Item)
               /\ \E g : Follows(D, Y, key, g)
               /\ \E i \in 1 .. Len(Y) : D[Len(D)] = Y[i]
<1> DEFINE n == Len(Y)
           D == MoveToEnd(Y, key)
           i == CHOOSE i \in DOMAIN Y : Y[i].key = key
<1>1. i \in 1 .. n /\ Y[i].key = key /\ n \in Nat /\ MaxEntries \in Nat
  BY CacheAssumption DEF Known
<1>2. D = Append(SubSeq(Y, 1, i - 1) \o SubSeq(Y, i + 1, n), Y[i])
  BY DEF MoveToEnd, RemoveAt
<1> HIDE DEF i, D
<1>3. /\ D \in Seq(Item) /\ Len(D) = n /\ D[n] = Y[i]
      /\ \A k \in 1 .. n - 1 : D[k] = IF k < i THEN Y[k] ELSE Y[k + 1]
  <2> DEFINE A == SubSeq(Y, 1, i - 1)
             B == SubSeq(Y, i + 1, n)
  <2>1. A \in Seq(Item) /\ Len(A) = i - 1 /\ \A k \in 1 .. i - 1 : A[k] = Y[k]
    BY <1>1
  <2>2. B \in Seq(Item) /\ Len(B) = n - i /\ \A k \in 1 .. n - i : B[k] = Y[i + k]
    BY <1>1
  <2> HIDE DEF A, B
  <2> DEFINE C == A \o B
  <2>3. C \in Seq(Item) /\ Len(C) = n - 1
        /\ \A k \in 1 .. n - 1 : C[k] = IF k < i THEN Y[k] ELSE Y[k + 1]
    <3>1. C \in Seq(Item) /\ Len(C) = Len(A) + Len(B)
          /\ \A k \in 1 .. Len(A) + Len(B) : C[k] = IF k <= Len(A) THEN A[k] ELSE B[k - Len(A)]
      <4>1. A \in Seq(Item) /\ B \in Seq(Item)
        BY <2>1, <2>2
      <4> QED  BY <4>1, ConcatProperties
    <3> HIDE DEF C
    <3>2. Len(A) + Len(B) = n - 1
      BY <1>1, <2>1, <2>2
    <3>3. ASSUME NEW k \in 1 .. n - 1  PROVE C[k] = IF k < i THEN Y[k] ELSE Y[k + 1]
      <4>1. CASE k < i
        <5>1. k \in 1 .. i - 1 /\ k <= Len(A) /\ k \in 1 .. Len(A) + Len(B)
          BY <1>1, <2>1, <3>2, <4>1
        <5> QED  BY <2>1, <3>1, <4>1, <5>1
      <4>2. CASE ~(k < i)
        <5>1. ~(k <= Len(A)) /\ k \in 1 .. Len(A) + Len(B) /\ k - Len(A) = k - i + 1
              /\ k - i + 1 \in 1 .. n - i /\ i + (k - i + 1) = k + 1
          BY <1>1, <2>1, <3>2, <4>2
        <5>2. C[k] = B[k - i + 1] /\ B[k - i + 1] = Y[i + (k - i + 1)]
          BY <2>2, <3>1, <5>1
        <5> QED  BY <4>2, <5>1, <5>2
      <4> QED  BY <4>1, <4>2
    <3> QED  BY <3>1, <3>2, <3>3
  <2> HIDE DEF C
  <2>4. D = Append(C, Y[i])
    BY <1>2 DEF C, A, B
  <2>5. Y[i] \in Item
    BY <1>1
  <2> QED  BY <1>1, <2>3, <2>4, <2>5
<1> HIDE DEF n
<1> DEFINE g == [k \in 1 .. n - 1 |-> IF k < i THEN k ELSE k + 1]
<1>4. \A k \in 1 .. n - 1 : /\ g[k] \in 1 .. n /\ g[k] # i /\ D[k] = Y[g[k]]
                            /\ g[k] = IF k < i THEN k ELSE k + 1
  BY <1>1, <1>3
<1>5. g \in [1 .. n - 1 -> 1 .. n]
  BY <1>4
<1> HIDE DEF g
<1>6. \A k, l \in 1 .. n - 1 : k < l => g[k] < g[l]
  BY <1>1, <1>4
<1>7. \A k \in 1 .. n - 1 : Y[g[k]].key # key
  BY <1>1, <1>4 DEF n
<1>8. ASSUME NEW j \in 1 .. n, Y[j].key # key  PROVE \E k \in 1 .. n - 1 : g[k] = j
  <2>1. j # i
    BY <1>1, <1>8
  <2>2. CASE j < i
    <3>1. j \in 1 .. n - 1 /\ g[j] = j
      BY <1>1, <1>4, <2>2
    <3> QED  BY <3>1
  <2>3. CASE j > i
    <3>1. j - 1 \in 1 .. n - 1 /\ ~(j - 1 < i) /\ (j - 1) + 1 = j
      BY <1>1, <2>3
    <3>2. g[j - 1] = j
      BY <1>4, <3>1
    <3> QED  BY <3>1, <3>2
  <2> QED  BY <1>1, <2>1, <2>2, <2>3
<1>9. n \in 1 .. MaxEntries
  BY <1>1 DEF n
<1>10. Follows(D, Y, key, g)
  BY <1>1, <1>3, <1>4, <1>5, <1>6, <1>7, <1>8, <1>9 DEF Follows, n
<1> QED  BY <1>1, <1>3, <1>10 DEF D, n

LEMMA RecordIs ==
    ASSUME NEW Y \in Seq(Item), Len(Y) <= MaxEntries, NEW key \in HookKey, NEW at \in Nat, ~Known(Y, key)
    PROVE  LET D == Record(Y, key, at)
           IN  /\ D \in Seq(Item)
               /\ \E g : Follows(D, Y, key, g)
               /\ D[Len(D)] = [key |-> key, at |-> at]
<1> DEFINE n == Len(Y)
           new == [key |-> key, at |-> at]
           R == Append(Y, new)
           D == Record(Y, key, at)
<1>1. new \in Item /\ n \in Nat /\ MaxEntries \in Nat /\ MaxEntries >= 1 /\ new.key = key
  BY CacheAssumption DEF Item
<1>2. \A k \in 1 .. n : Y[k].key # key
  BY DEF Known
<1>3. D = IF Len(R) > MaxEntries THEN Tail(R) ELSE R
  BY DEF Record
<1> HIDE DEF new, D
<1>4. R \in Seq(Item) /\ Len(R) = n + 1 /\ R[n + 1] = new /\ \A k \in 1 .. n : R[k] = Y[k]
  BY <1>1
<1> HIDE DEF R, n
<1>5. n <= MaxEntries
  BY DEF n
<1>6. CASE n < MaxEntries
  <2>1. D = R
    BY <1>1, <1>3, <1>4, <1>6
  <2> DEFINE g == [k \in 1 .. n |-> k]
  <2>2. Len(R) - 1 = n /\ Len(R) \in 1 .. MaxEntries
    BY <1>1, <1>4, <1>6
  <2>3. Follows(R, Y, key, g)
    <3>1. g \in [1 .. n -> 1 .. n] /\ \A k \in 1 .. n : g[k] = k
      OBVIOUS
    <3> HIDE DEF g
    <3> QED  BY <1>1, <1>2, <1>4, <2>2, <3>1 DEF Follows, n
  <2> QED  BY <1>4, <2>1, <2>3 DEF D, new
<1>7. CASE n = MaxEntries
  <2>1. D = Tail(R)
    BY <1>1, <1>3, <1>4, <1>7
  <2>2. D \in Seq(Item) /\ Len(D) = n /\ \A k \in 1 .. n : D[k] = R[k + 1]
    BY <1>1, <1>4, <2>1
  <2>3. n \in 1 .. n /\ D[n] = new
    BY <1>1, <1>4, <1>7, <2>2
  <2> DEFINE g == [k \in 1 .. n - 1 |-> k + 1]
  <2>4. \A k \in 1 .. n - 1 : g[k] = k + 1 /\ k + 1 \in 1 .. n /\ k \in 1 .. n
    BY <1>1
  <2>5. g \in [1 .. n - 1 -> 1 .. n]
    BY <2>4
  <2> HIDE DEF g
  <2>6. \A k \in 1 .. n - 1 : D[k] = Y[g[k]] /\ Y[g[k]].key # key
    BY <1>2, <1>4, <2>2, <2>4 DEF n
  <2>7. \A k, l \in 1 .. n - 1 : k < l => g[k] < g[l]
    BY <1>1, <2>4
  <2>8. ASSUME NEW i \in 1 .. n
        PROVE  (\E k \in 1 .. n - 1 : g[k] = i) \/ (\A k \in 1 .. n - 1 : i < g[k])
    <3>1. CASE i = 1
      BY <1>1, <2>4, <3>1
    <3>2. CASE i # 1
      <4>1. i - 1 \in 1 .. n - 1 /\ (i - 1) + 1 = i
        BY <1>1, <3>2
      <4> QED  BY <2>4, <4>1
    <3> QED  BY <3>1, <3>2
  <2>9. Follows(D, Y, key, g)
    BY <1>1, <1>7, <2>2, <2>3, <2>5, <2>6, <2>7, <2>8 DEF Follows, n
  <2> QED  BY <2>2, <2>3, <2>9 DEF D, new
<1> QED  BY <1>1, <1>5, <1>6, <1>7

-------------------------------------------------------------------------------
(* The store S against the history L of calls at time t.                    *)
IsLast(L, m)      == \A x \in m + 1 .. Len(L) : L[x].key # L[m].key
IsIntent(L, x)    == ~L[x].seen /\ \A y \in x + 1 .. Len(L) : L[y].key = L[x].key => L[y].seen
KeysIn(L, j, n)   == {L[x].key : x \in j + 1 .. n}
Since(L, item)    == \E x \in 1 .. Len(L) : L[x].key = item.key /\ L[x].at = item.at /\ IsIntent(L, x)
Past(L, key, t)   == \A x \in 1 .. Len(L) : L[x].key = key /\ IsIntent(L, x) => L[x].at + TtlS < t

Tracks(S, L, t, p) ==
    /\ p \in [1 .. Len(S) -> 1 .. Len(L)]
    /\ \A i, j \in 1 .. Len(S) : i < j => p[i] < p[j]
    /\ \A i \in 1 .. Len(S) : S[i].key = L[p[i]].key /\ IsLast(L, p[i]) /\ Since(L, S[i])
    /\ \A m \in 1 .. Len(L) : IsLast(L, m) => \/ \E i \in 1 .. Len(S) : p[i] = m
                                              \/ Past(L, L[m].key, t)
                                              \/ Cardinality(KeysIn(L, m, Len(L))) >= MaxEntries

InTime(L, t) ==
    /\ \A x \in 1 .. Len(L) : L[x].at \in Nat /\ L[x].when \in Nat /\ L[x].at <= L[x].when /\ L[x].when <= t
    /\ \A x, y \in 1 .. Len(L) : x <= y => L[x].when <= L[y].when

(* What RepeatsAreKnown says of one call.                                   *)
Earlier(L, j) == {i \in 1 .. j - 1 : L[i].key = L[j].key}
Intents(L, j) == {i \in Earlier(L, j) : ~L[i].seen /\ \A k \in Earlier(L, j) : k > i => L[k].seen}
KnownAt(L, j) ==
    IF L[j].seen
    THEN \E i \in Earlier(L, j) : L[j].at <= L[i].when + TtlS
    ELSE \/ \A i \in Intents(L, j) : L[j].when > L[i].at + TtlS
         \/ \A i \in Earlier(L, j) : Cardinality(KeysIn(L, i, j - 1) \ {L[j].key}) >= MaxEntries

LEMMA KeysFinite ==
    ASSUME NEW L, NEW n \in Nat, NEW j \in Nat
    PROVE  IsFiniteSet(KeysIn(L, j, n)) /\ Cardinality(KeysIn(L, j, n)) \in Nat
<1> DEFINE K == KeysIn(L, j, n)
           f == [i \in j + 1 .. n |-> L[i].key]
<1>1. IsFiniteSet(j + 1 .. n)
  BY FS_Interval
<1>2. f \in Surjection(j + 1 .. n, K)
  BY DEF Surjection, KeysIn
<1>3. IsFiniteSet(K)
  <2> HIDE DEF K, f
  <2> QED  BY <1>1, <1>2, FS_Surjection
<1> QED  BY <1>3, FS_CardinalityType

LEMMA UptoCardinality ==
    ASSUME NEW n \in Nat
    PROVE  IsFiniteSet(1 .. n) /\ Cardinality(1 .. n) = n
<1>1. 1 \in Int /\ n \in Int
  OBVIOUS
<1>2. IsFiniteSet(1 .. n) /\ Cardinality(1 .. n) = IF 1 > n THEN 0 ELSE n - 1 + 1
  BY <1>1, FS_Interval
<1> QED  BY <1>2

(* Every key that had a call had a last one.                                *)
LEMMA LastCall ==
    ASSUME NEW L, Len(L) \in Nat, NEW j \in 1 .. Len(L)
    PROVE  \E m \in j .. Len(L) : L[m].key = L[j].key /\ IsLast(L, m)
<1> DEFINE n == Len(L)
           T == {d \in 0 .. n - j : L[n - d].key = L[j].key}
<1>1. n - j \in T /\ T \in SUBSET Nat
  BY SMTT(20)
<1>2. PICK d \in T : \A e \in T : d <= e
  <2> HIDE DEF T
  <2> QED  BY <1>1, NatMin
<1>3. d \in 0 .. n - j /\ n - d \in j .. n /\ L[n - d].key = L[j].key
  BY <1>2
<1>4. IsLast(L, n - d)
  <2> SUFFICES ASSUME NEW x \in n - d + 1 .. n, L[x].key = L[j].key  PROVE FALSE
    BY <1>3 DEF IsLast
  <2>1. n - x \in 0 .. n - j /\ n - (n - x) = x /\ n - x < d
    BY <1>3
  <2>2. n - x \in T
    BY <2>1
  <2> HIDE DEF T
  <2> QED  BY <1>2, <1>3, <2>1, <2>2
<1> QED  BY <1>3, <1>4

(* The last intent of a key is one call.                                    *)
LEMMA OneIntent ==
    ASSUME NEW L, Len(L) \in Nat, NEW x \in 1 .. Len(L), NEW y \in 1 .. Len(L),
           L[x].key = L[y].key, IsIntent(L, x), IsIntent(L, y)
    PROVE  x = y
<1>1. x < y => y \in x + 1 .. Len(L)
  OBVIOUS
<1>2. y < x => x \in y + 1 .. Len(L)
  OBVIOUS
<1>3. x < y \/ y < x \/ x = y
  OBVIOUS
<1> QED  BY <1>1, <1>2, <1>3 DEF IsIntent

(* Expiry drops only what is past the TTL.                                  *)
LEMMA EvictKeepsTrack ==
    ASSUME NEW S \in Seq(Item), NEW L, Len(L) \in Nat, NEW t \in Nat, InTime(L, t), NEW p, Tracks(S, L, t, p),
           NEW at \in 0 .. t, NEW Y \in Seq(Item), NEW f, Rest(Y, S, at, f)
    PROVE  \E q : Tracks(Y, L, t, q)
<1> DEFINE n == Len(S)
           k == Len(Y)
           q == [i \in 1 .. k |-> p[f - 1 + i]]
<1>1. /\ n \in Nat /\ k \in Nat /\ f \in 1 .. n + 1 /\ k = n - f + 1 /\ TtlS \in Nat
      /\ \A i \in 1 .. k : Y[i] = S[f - 1 + i]
      /\ \A i \in 1 .. f - 1 : Expired(S[i], at)
  <2>1. n \in Nat /\ k \in Nat
    OBVIOUS
  <2>2. /\ f \in 1 .. n + 1 /\ k = n - f + 1
        /\ \A i \in 1 .. k : Y[i] = S[f - 1 + i]
        /\ \A i \in 1 .. f - 1 : Expired(S[i], at)
    BY DEF Rest
  <2> QED  BY <2>1, <2>2, CacheAssumption
<1> HIDE DEF n, k
<1>2. \A i \in 1 .. k : f - 1 + i \in 1 .. n /\ q[i] = p[f - 1 + i]
  BY <1>1
<1>3. /\ p \in [1 .. n -> 1 .. Len(L)]
      /\ \A i, j \in 1 .. n : i < j => p[i] < p[j]
      /\ \A i \in 1 .. n : S[i].key = L[p[i]].key /\ IsLast(L, p[i]) /\ Since(L, S[i])
  BY DEF Tracks, n
<1>4. q \in [1 .. k -> 1 .. Len(L)]
  <2>1. \A i \in 1 .. k : p[f - 1 + i] \in 1 .. Len(L)
    BY <1>2, <1>3
  <2> QED  BY <2>1
<1> HIDE DEF q
<1>5. \A i, j \in 1 .. k : i < j => q[i] < q[j]
  <2> SUFFICES ASSUME NEW i \in 1 .. k, NEW j \in 1 .. k, i < j  PROVE q[i] < q[j]
    OBVIOUS
  <2>1. f - 1 + i < f - 1 + j
    BY <1>1
  <2> QED  BY <1>2, <1>3, <2>1
<1>6. ASSUME NEW i \in 1 .. k  PROVE Y[i].key = L[q[i]].key /\ IsLast(L, q[i]) /\ Since(L, Y[i])
  <2>1. Y[i] = S[f - 1 + i] /\ f - 1 + i \in 1 .. n /\ q[i] = p[f - 1 + i]
    BY <1>1, <1>2
  <2> QED  BY <1>3, <2>1
<1>7. ASSUME NEW i \in 1 .. n, \A l \in 1 .. k : q[l] # p[i]  PROVE Past(L, L[p[i]].key, t)
  <2>1. i \in 1 .. f - 1
    <3>1. i \notin f .. n
      <4> SUFFICES ASSUME i \in f .. n  PROVE FALSE
        OBVIOUS
      <4>1. i - f + 1 \in 1 .. k /\ f - 1 + (i - f + 1) = i
        BY <1>1
      <4> QED  BY <1>2, <1>7, <4>1
    <3> QED  BY <1>1, <3>1
  <2>2. S[i].at + TtlS < at
    BY <1>1, <2>1 DEF Expired
  <2>3. PICK x \in 1 .. Len(L) : L[x].key = S[i].key /\ L[x].at = S[i].at /\ IsIntent(L, x)
    BY <1>3 DEF Since
  <2>4. ASSUME NEW y \in 1 .. Len(L), L[y].key = L[p[i]].key, IsIntent(L, y)  PROVE L[y].at + TtlS < t
    <3>1. y = x
      BY <1>3, <2>3, <2>4, OneIntent
    <3>2. L[x].at \in Nat
      BY DEF InTime
    <3> QED  BY <1>1, <2>2, <2>3, <3>1, <3>2
  <2> QED  BY <2>4 DEF Past
<1>8. ASSUME NEW m \in 1 .. Len(L), IsLast(L, m)
      PROVE  \/ \E i \in 1 .. k : q[i] = m
             \/ Past(L, L[m].key, t)
             \/ Cardinality(KeysIn(L, m, Len(L))) >= MaxEntries
  <2>1. \/ \E i \in 1 .. n : p[i] = m
        \/ Past(L, L[m].key, t)
        \/ Cardinality(KeysIn(L, m, Len(L))) >= MaxEntries
    BY <1>8 DEF Tracks, n
  <2> QED  BY <1>7, <2>1
<1>9. Tracks(Y, L, t, q)
  BY <1>4, <1>5, <1>6, <1>8 DEF Tracks, k
<1> QED  BY <1>9

(* One call: a hit keeps the time of its intent, a miss is a new intent.     *)
Ends(D, Y, row) ==
    IF row.seen THEN \E i \in 1 .. Len(Y) : D[Len(D)] = Y[i] /\ Y[i].key = row.key
                ELSE D[Len(D)].at = row.at /\ \A i \in 1 .. Len(Y) : Y[i].key # row.key

LEMMA Appended ==
    ASSUME NEW R, NEW L \in Seq(R), NEW row \in R
    PROVE  LET M == Append(L, row)
               n == Len(L)
           IN  /\ M \in Seq(R) /\ n \in Nat /\ Len(M) = n + 1 /\ M[n + 1] = row
               /\ \A m \in 1 .. n : M[m] = L[m]
OBVIOUS

LEMMA CallKeepsTrack ==
    ASSUME NEW R, NEW L \in Seq(R), NEW Y \in Seq(Item), NEW t \in Nat, NEW p,
           Len(Y) <= MaxEntries, Tracks(Y, L, t, p), InTime(L, t),
           NEW row \in R, row.when = t, row.at \in 0 .. t, row.seen \in BOOLEAN,
           NEW D \in Seq(Item), NEW g, Follows(D, Y, row.key, g), Ends(D, Y, row),
           NEW M, M = Append(L, row)
    PROVE  /\ \E q : Tracks(D, M, t, q)
           /\ InTime(M, t)
<1> DEFINE key == row.key
           n == Len(L)
           d == Len(D)
<1>1. /\ M \in Seq(R) /\ n \in Nat /\ Len(M) = n + 1 /\ M[n + 1] = row
      /\ \A m \in 1 .. n : M[m] = L[m]
  BY Appended
<1> HIDE DEF key, n, d
<1>2. /\ d \in 1 .. MaxEntries /\ d \in Nat /\ MaxEntries \in Nat
      /\ \A k \in 1 .. d - 1 : g[k] \in 1 .. Len(Y) /\ Y[g[k]].key # key /\ D[k] = Y[g[k]]
      /\ D[d].key = key
  <2>1. MaxEntries \in Nat
    BY CacheAssumption
  <2>2. d \in 1 .. MaxEntries /\ D[d].key = key
    BY DEF Follows, key, d
  <2>3. d \in Nat
    BY <2>1, <2>2
  <2>4. \A k \in 1 .. d - 1 : g[k] \in 1 .. Len(Y) /\ Y[g[k]].key # key /\ D[k] = Y[g[k]]
    BY DEF Follows, key, d
  <2> QED  BY <2>1, <2>2, <2>3, <2>4
<1>3. ASSUME NEW i \in 1 .. Len(Y)
      PROVE  p[i] \in 1 .. n /\ Y[i].key = L[p[i]].key /\ IsLast(L, p[i]) /\ Since(L, Y[i])
  BY DEF Tracks, n
<1>4. TtlS \in Nat
  BY CacheAssumption
<1> DEFINE q == [k \in 1 .. d |-> IF k = d THEN n + 1 ELSE p[g[k]]]
<1>5. \A k \in 1 .. d : k # d => k \in 1 .. d - 1
  BY <1>2
<1>6. d \in 1 .. d /\ q[d] = n + 1 /\ \A k \in 1 .. d - 1 : k \in 1 .. d /\ k # d /\ q[k] = p[g[k]]
  BY <1>2
<1>7. \A k \in 1 .. d - 1 : q[k] \in 1 .. n
  BY <1>2, <1>3, <1>6
<1>8. q \in [1 .. d -> 1 .. Len(M)]
  <2>1. \A k \in 1 .. d : (IF k = d THEN n + 1 ELSE p[g[k]]) \in 1 .. n + 1
    BY <1>1, <1>2, <1>3, <1>5
  <2> QED  BY <1>1, <2>1
<1> HIDE DEF q
<1>9. \A i, j \in 1 .. d : i < j => q[i] < q[j]
  <2> SUFFICES ASSUME NEW i \in 1 .. d, NEW j \in 1 .. d, i < j  PROVE q[i] < q[j]
    OBVIOUS
  <2>1. i \in 1 .. d - 1
    BY <1>2
  <2>2. CASE j = d
    BY <1>1, <1>6, <1>7, <2>1, <2>2
  <2>3. CASE j # d
    <3>1. j \in 1 .. d - 1
      BY <1>5, <2>3
    <3>2. g[i] < g[j]
      BY <2>1, <3>1 DEF Follows, d
    <3>3. p[g[i]] < p[g[j]]
      BY <1>2, <2>1, <3>1, <3>2 DEF Tracks
    <3> QED  BY <1>6, <2>1, <3>1, <3>3
  <2> QED  BY <2>2, <2>3
<1>10. ASSUME NEW m \in 1 .. n
       PROVE  /\ IsLast(M, m) <=> IsLast(L, m) /\ L[m].key # key
              /\ IsIntent(M, m) <=> IsIntent(L, m) /\ (L[m].key = key => row.seen)
  <2>1. n \in Nat /\ m \in Nat /\ m <= n /\ 1 <= m
    BY <1>1
  <2>2. \A x \in m + 1 .. n + 1 : x = n + 1 \/ x \in m + 1 .. n
    BY <2>1
  <2>3. \A x \in m + 1 .. n : x \in m + 1 .. n + 1 /\ x \in 1 .. n
    BY <2>1
  <2>4. \A x \in m + 1 .. n + 1 : (x = n + 1 /\ M[x] = row) \/ (x \in m + 1 .. n /\ M[x] = L[x])
    BY <1>1, <2>2, <2>3
  <2>5. \A x \in m + 1 .. n : x \in m + 1 .. n + 1 /\ M[x] = L[x]
    BY <1>1, <2>3
  <2>6. n + 1 \in m + 1 .. n + 1 /\ M[m] = L[m]
    BY <1>1, <2>1
  <2>7. IsLast(M, m) <=> IsLast(L, m) /\ L[m].key # key
    BY <1>1, <2>4, <2>5, <2>6 DEF IsLast, key, n
  <2>8. IsIntent(M, m) <=> IsIntent(L, m) /\ (L[m].key = key => row.seen)
    BY <1>1, <2>4, <2>5, <2>6 DEF IsIntent, key, n
  <2> QED  BY <2>7, <2>8
<1>11. ASSUME NEW item, Since(L, item), item.key = key => row.seen  PROVE Since(M, item)
  <2>1. PICK x \in 1 .. n : L[x].key = item.key /\ L[x].at = item.at /\ IsIntent(L, x)
    BY <1>11 DEF Since, n
  <2>2. M[x] = L[x] /\ IsIntent(M, x) /\ x \in 1 .. Len(M)
    BY <1>1, <1>10, <1>11, <2>1
  <2> QED  BY <2>1, <2>2 DEF Since
<1>12. ASSUME NEW k \in 1 .. d
       PROVE  D[k].key = M[q[k]].key /\ IsLast(M, q[k]) /\ Since(M, D[k])
  <2>1. CASE k = d
    <3>1. IsLast(M, n + 1)
      BY <1>1 DEF IsLast
    <3>2. CASE row.seen
      <4>1. PICK i \in 1 .. Len(Y) : D[d] = Y[i]
        BY <3>2 DEF Ends, d
      <4> QED  BY <1>1, <1>2, <1>3, <1>6, <1>11, <2>1, <3>1, <3>2, <4>1 DEF key
    <3>3. CASE ~row.seen
      <4>1. D[d].at = row.at
        BY <3>3 DEF Ends, d
      <4>2. IsIntent(M, n + 1) /\ n + 1 \in 1 .. Len(M)
        BY <1>1, <3>3 DEF IsIntent
      <4>3. Since(M, D[d])
        BY <1>1, <1>2, <4>1, <4>2 DEF Since, key
      <4> QED  BY <1>1, <1>2, <1>6, <2>1, <3>1, <4>3 DEF key
    <3> QED  BY <3>2, <3>3
  <2>2. CASE k # d
    <3>1. k \in 1 .. d - 1
      BY <1>5, <2>2
    <3>2. /\ q[k] = p[g[k]] /\ q[k] \in 1 .. n /\ g[k] \in 1 .. Len(Y)
          /\ Y[g[k]].key # key /\ D[k] = Y[g[k]]
      BY <1>2, <1>6, <1>7, <3>1
    <3>3. IsLast(L, q[k]) /\ Y[g[k]].key = L[q[k]].key /\ Since(L, Y[g[k]])
      BY <1>3, <3>2
    <3>4. Since(M, D[k])
      BY <1>11, <3>2, <3>3
    <3> QED  BY <1>1, <1>10, <3>2, <3>3, <3>4
  <2> QED  BY <2>1, <2>2
<1>13. ASSUME NEW m \in 1 .. n, IsLast(M, m)
       PROVE  \/ \E k \in 1 .. d : q[k] = m
              \/ Past(M, M[m].key, t)
              \/ Cardinality(KeysIn(M, m, Len(M))) >= MaxEntries
  <2>1. IsLast(L, m) /\ L[m].key # key /\ M[m] = L[m]
    BY <1>1, <1>10, <1>13
  <2>2. ASSUME NEW i \in 1 .. Len(Y), p[i] = m
        PROVE  \/ \E k \in 1 .. d : q[k] = m
               \/ Cardinality(KeysIn(M, m, Len(M))) >= MaxEntries
    <3>1. Y[i].key # key
      BY <1>3, <2>1, <2>2
    <3>2. CASE \E k \in 1 .. d - 1 : g[k] = i
      BY <1>6, <2>2, <3>2
    <3>3. CASE d = MaxEntries /\ \A k \in 1 .. d - 1 : i < g[k]
      <4> DEFINE w == [k \in 1 .. d |-> D[k].key]
                 K == KeysIn(M, m, Len(M))
      <4>1. ASSUME NEW k \in 1 .. d  PROVE q[k] \in m + 1 .. n + 1
        <5>1. CASE k = d
          BY <1>1, <1>6, <5>1
        <5>2. CASE k # d
          <6>1. k \in 1 .. d - 1
            BY <1>5, <5>2
          <6>2. p[i] < p[g[k]]
            BY <1>2, <3>3, <6>1 DEF Tracks
          <6> QED  BY <1>1, <1>6, <1>7, <2>2, <6>1, <6>2
        <5> QED  BY <5>1, <5>2
      <4>2. ASSUME NEW k \in 1 .. d  PROVE w[k] \in K
        BY <1>1, <1>12, <4>1, <4>2 DEF KeysIn
      <4>3. ASSUME NEW k \in 1 .. d, NEW l \in 1 .. d, k < l  PROVE w[k] # w[l]
        <5>1. q[k] < q[l] /\ q[k] \in m + 1 .. n + 1 /\ q[l] \in m + 1 .. n + 1
          BY <1>9, <4>1, <4>3
        <5>2. q[l] \in q[k] + 1 .. Len(M)
          BY <1>1, <5>1
        <5>3. M[q[l]].key # M[q[k]].key
          BY <1>12, <5>2 DEF IsLast
        <5> QED  BY <1>12, <5>3
      <4> HIDE DEF K
      <4>4. w \in Injection(1 .. d, K)
        <5>1. w \in [1 .. d -> K]
          BY <4>2
        <5>2. \A k, l \in 1 .. d : k # l => w[k] # w[l]
          <6> SUFFICES ASSUME NEW k \in 1 .. d, NEW l \in 1 .. d, k # l  PROVE w[k] # w[l]
            OBVIOUS
          <6>1. k < l \/ l < k
            BY <1>2
          <6> HIDE DEF w
          <6> QED  BY <4>3, <6>1
        <5> HIDE DEF w
        <5> QED  BY <5>1, <5>2 DEF Injection, IsInjective
      <4>5. IsFiniteSet(K) /\ Cardinality(K) \in Nat
        BY <1>1, KeysFinite DEF K
      <4>6. Cardinality(1 .. d) <= Cardinality(K)
        <5> HIDE DEF w
        <5> QED  BY <4>4, <4>5, FS_Injection
      <4> QED  BY <1>2, <3>3, <4>5, <4>6, UptoCardinality DEF K
    <3> QED  BY <3>1, <3>2, <3>3 DEF Follows, d, key
  <2>3. ASSUME Cardinality(KeysIn(L, m, n)) >= MaxEntries
        PROVE  Cardinality(KeysIn(M, m, Len(M))) >= MaxEntries
    <3>1. KeysIn(L, m, n) \subseteq KeysIn(M, m, Len(M))
      <4>1. \A x \in m + 1 .. n : x \in m + 1 .. Len(M) /\ M[x] = L[x]
        BY <1>1
      <4> QED  BY <4>1 DEF KeysIn
    <3>2. IsFiniteSet(KeysIn(M, m, Len(M))) /\ Cardinality(KeysIn(M, m, Len(M))) \in Nat
      BY <1>1, KeysFinite
    <3>3. Cardinality(KeysIn(L, m, n)) <= Cardinality(KeysIn(M, m, Len(M)))
      BY <3>1, <3>2, FS_Subset
    <3>4. Cardinality(KeysIn(L, m, n)) \in Nat
      BY <1>1, KeysFinite
    <3> QED  BY <1>2, <2>3, <3>2, <3>3, <3>4
  <2>4. ASSUME Past(L, L[m].key, t)  PROVE Past(M, M[m].key, t)
    <3> SUFFICES ASSUME NEW x \in 1 .. Len(M), M[x].key = L[m].key, IsIntent(M, x)
                 PROVE  M[x].at + TtlS < t
      BY <2>1 DEF Past
    <3>1. x \in 1 .. n
      BY <1>1, <2>1 DEF key
    <3>2. IsIntent(L, x) /\ L[x].key = L[m].key /\ M[x] = L[x]
      BY <1>1, <1>10, <3>1
    <3> QED  BY <2>4, <3>1, <3>2 DEF Past, n
  <2> QED  BY <2>1, <2>2, <2>3, <2>4 DEF Tracks, n
<1>14. \A m \in 1 .. Len(M) : m # n + 1 => m \in 1 .. n
  BY <1>1
<1>15. Tracks(D, M, t, q)
  <2>1. ASSUME NEW m \in 1 .. Len(M), IsLast(M, m)
        PROVE  \/ \E k \in 1 .. d : q[k] = m
               \/ Past(M, M[m].key, t)
               \/ Cardinality(KeysIn(M, m, Len(M))) >= MaxEntries
    <3>1. CASE m = n + 1
      BY <1>6, <3>1
    <3>2. CASE m # n + 1
      BY <1>13, <1>14, <2>1, <3>2
    <3> QED  BY <3>1, <3>2
  <2> QED  BY <1>8, <1>9, <1>12, <2>1 DEF Tracks, d
<1>16. InTime(M, t)
  <2>1. \A m \in 1 .. Len(M) : M[m].at \in Nat /\ M[m].when \in Nat /\ M[m].at <= M[m].when /\ M[m].when <= t
    BY <1>1, <1>14 DEF InTime, n
  <2>2. ASSUME NEW k \in 1 .. Len(M), NEW m \in 1 .. Len(M), k <= m  PROVE M[k].when <= M[m].when
    <3>1. CASE m = n + 1
      BY <1>1, <2>1, <3>1
    <3>2. CASE m # n + 1
      <4>1. m \in 1 .. n /\ k \in 1 .. n
        BY <1>1, <2>2, <3>2
      <4> QED  BY <1>1, <2>2, <4>1 DEF InTime, n
    <3> QED  BY <3>1, <3>2
  <2> QED  BY <2>1, <2>2 DEF InTime
<1> QED  BY <1>15, <1>16

(* What the call answers.                                                    *)
LEMMA CallIsKnown ==
    ASSUME NEW R, NEW L \in Seq(R), NEW Y \in Seq(Item), NEW t \in Nat, NEW p,
           Tracks(Y, L, t, p), InTime(L, t),
           NEW row \in R, row.when = t, row.at \in 0 .. t, row.seen \in BOOLEAN,
           row.seen <=> \E i \in 1 .. Len(Y) : Y[i].key = row.key,
           Len(Y) # 0 => ~Expired(Y[1], row.at),
           NEW M, M = Append(L, row)
    PROVE  KnownAt(M, Len(M))
<1> DEFINE key == row.key
           n == Len(L)
<1>1. /\ n \in Nat /\ Len(M) = n + 1 /\ M[n + 1] = row /\ TtlS \in Nat /\ MaxEntries \in Nat
      /\ \A m \in 1 .. n : M[m] = L[m]
  BY Appended, CacheAssumption
<1> HIDE DEF key, n
<1>2. Earlier(M, n + 1) = {i \in 1 .. n : L[i].key = key}
  BY <1>1 DEF Earlier, key
<1>3. ASSUME NEW i \in 1 .. Len(Y)
      PROVE  p[i] \in 1 .. n /\ Y[i].key = L[p[i]].key /\ IsLast(L, p[i]) /\ Since(L, Y[i])
  BY DEF Tracks, n
<1>4. Len(Y) \in Nat
  OBVIOUS
<1>5. CASE row.seen
  <2>1. PICK i \in 1 .. Len(Y) : Y[i].key = key
    BY <1>5 DEF key
  <2>2. 1 \in 1 .. Len(Y) /\ ~Expired(Y[1], row.at)
    BY <1>4, <2>1
  <2>3. PICK x \in 1 .. n : L[x].key = Y[1].key /\ L[x].at = Y[1].at
    BY <1>3, <2>2 DEF Since, n
  <2>4. x <= p[1]
    <3> SUFFICES ASSUME ~(x <= p[1])  PROVE FALSE
      OBVIOUS
    <3>1. p[1] \in 1 .. n /\ IsLast(L, p[1]) /\ L[p[1]].key = Y[1].key
      BY <1>3, <2>2
    <3>2. x \in p[1] + 1 .. n
      BY <1>1, <3>1
    <3> QED  BY <2>3, <3>1, <3>2 DEF IsLast, n
  <2>5. p[1] <= p[i] /\ p[1] \in 1 .. n /\ p[i] \in 1 .. n
    <3>1. p[1] \in 1 .. n /\ p[i] \in 1 .. n
      BY <1>3, <2>1, <2>2
    <3>2. CASE i = 1
      BY <1>1, <3>1, <3>2
    <3>3. CASE i # 1
      <4>1. 1 < i
        BY <1>4, <3>3
      <4>2. p[1] < p[i]
        BY <2>2, <4>1 DEF Tracks
      <4> QED  BY <1>1, <3>1, <4>2
    <3> QED  BY <3>2, <3>3
  <2>6. x <= p[i]
    BY <1>1, <2>4, <2>5
  <2>7. L[x].at \in Nat /\ L[x].when \in Nat /\ L[p[i]].when \in Nat
        /\ L[x].at <= L[x].when /\ L[x].when <= L[p[i]].when
    BY <2>5, <2>6 DEF InTime, n
  <2>8. row.at <= L[p[i]].when + TtlS
    <3>1. ~(Y[1].at + TtlS < row.at) /\ Y[1].at = L[x].at /\ row.at \in Nat
      BY <2>2, <2>3 DEF Expired
    <3> DEFINE a == L[x].at
               u == L[x].when
               w == L[p[i]].when
               r == row.at
    <3>2. a \in Nat /\ u \in Nat /\ w \in Nat /\ r \in Nat /\ TtlS \in Nat
          /\ ~(a + TtlS < r) /\ a <= u /\ u <= w
      BY <1>1, <2>7, <3>1
    <3> HIDE DEF a, u, w, r
    <3>3. r <= w + TtlS
      BY <3>2
    <3> QED  BY <3>3 DEF r, w
  <2>9. p[i] \in Earlier(M, n + 1)
    BY <1>2, <1>3, <2>1
  <2>10. M[p[i]] = L[p[i]]
    BY <1>1, <2>5
  <2> QED  BY <1>1, <1>5, <2>8, <2>9, <2>10 DEF KnownAt
<1>6. CASE ~row.seen
  <2>1. CASE Earlier(M, n + 1) = {}
    BY <1>1, <1>6, <2>1 DEF KnownAt
  <2>2. CASE Earlier(M, n + 1) # {}
    <3>1. PICK j \in 1 .. n : L[j].key = key
      BY <1>2, <2>2
    <3>2. PICK m \in j .. n : L[m].key = key /\ IsLast(L, m)
      <4>1. \E m \in j .. Len(L) : L[m].key = L[j].key /\ IsLast(L, m)
        BY <1>1, LastCall DEF n
      <4> QED  BY <3>1, <4>1 DEF n
    <3>3. m \in 1 .. n
      BY <1>1, <3>2
    <3>4. ~ \E i \in 1 .. Len(Y) : p[i] = m
      BY <1>3, <1>6, <3>2 DEF key
    <3>5. Past(L, key, t) \/ Cardinality(KeysIn(L, m, n)) >= MaxEntries
      BY <3>2, <3>3, <3>4 DEF Tracks, n
    <3>6. ASSUME Past(L, key, t), NEW i \in Intents(M, n + 1)  PROVE t > M[i].at + TtlS
      <4>1. i \in 1 .. n /\ L[i].key = key /\ M[i] = L[i] /\ ~L[i].seen
        BY <1>1, <1>2 DEF Intents
      <4>2. ASSUME NEW y \in i + 1 .. n, L[y].key = key  PROVE L[y].seen
        <5>1. y \in 1 .. n /\ y > i
          BY <1>1, <4>1
        <5>2. y \in Earlier(M, n + 1) /\ M[y] = L[y]
          BY <1>1, <1>2, <4>2, <5>1
        <5> QED  BY <5>1, <5>2 DEF Intents
      <4>3. IsIntent(L, i)
        BY <4>1, <4>2 DEF IsIntent, n
      <4>4. L[i].at + TtlS < t /\ L[i].at \in Nat
        BY <3>6, <4>1, <4>3 DEF Past, InTime, n
      <4> QED  BY <1>1, <4>1, <4>4
    <3>7. ASSUME Cardinality(KeysIn(L, m, n)) >= MaxEntries, NEW i \in Earlier(M, n + 1)
          PROVE  Cardinality(KeysIn(M, i, n) \ {key}) >= MaxEntries
      <4> DEFINE K == KeysIn(M, i, n)
      <4>1. i \in 1 .. n /\ L[i].key = key
        BY <1>2
      <4>2. i <= m
        <5> SUFFICES ASSUME ~(i <= m)  PROVE FALSE
          OBVIOUS
        <5>1. i \in m + 1 .. n
          BY <1>1, <3>3, <4>1
        <5> QED  BY <3>2, <4>1, <5>1 DEF IsLast, n
      <4>3. KeysIn(L, m, n) \subseteq K \ {key}
        <5>1. \A x \in m + 1 .. n : x \in i + 1 .. n /\ x \in 1 .. n
          BY <1>1, <3>3, <4>1, <4>2
        <5>2. \A x \in m + 1 .. n : M[x] = L[x] /\ L[x].key # key
          BY <1>1, <3>2, <5>1 DEF IsLast, n
        <5> QED  BY <5>1, <5>2 DEF KeysIn
      <4>4. IsFiniteSet(K)
        BY <1>1, <4>1, KeysFinite
      <4> HIDE DEF K
      <4>5. IsFiniteSet(K \ {key}) /\ Cardinality(K \ {key}) \in Nat
        BY <4>4, FS_Subset, FS_CardinalityType
      <4>6. Cardinality(KeysIn(L, m, n)) <= Cardinality(K \ {key})
        BY <4>3, <4>5, FS_Subset
      <4>7. Cardinality(KeysIn(L, m, n)) \in Nat
        BY <1>1, <3>3, KeysFinite
      <4> QED  BY <1>1, <3>7, <4>5, <4>6, <4>7 DEF K
    <3>8. (n + 1) - 1 = n /\ M[n + 1].key = key /\ M[n + 1].when = t
      BY <1>1 DEF key
    <3> QED  BY <1>1, <1>6, <3>5, <3>6, <3>7, <3>8 DEF KnownAt
  <2> QED  BY <2>1, <2>2
<1> QED  BY <1>1, <1>5, <1>6

LEMMA KnownStays ==
    ASSUME NEW L, NEW M, Len(L) \in Nat, NEW k \in 1 .. Len(L),
           \A x \in 1 .. Len(L) : M[x] = L[x]
    PROVE  KnownAt(M, k) <=> KnownAt(L, k)
<1>1. M[k] = L[k] /\ \A j \in 1 .. k - 1 : j \in 1 .. Len(L) /\ M[j] = L[j]
  OBVIOUS
<1>2. Earlier(M, k) = Earlier(L, k)
  BY <1>1 DEF Earlier
<1>3. ASSUME NEW j \in Earlier(L, k)  PROVE KeysIn(M, j, k - 1) = KeysIn(L, j, k - 1) /\ M[j] = L[j]
  <2>1. j \in 1 .. k - 1
    BY DEF Earlier
  <2>2. \A x \in j + 1 .. k - 1 : M[x] = L[x]
    BY <1>1, <2>1
  <2> QED  BY <1>1, <2>1, <2>2 DEF KeysIn
<1>4. Intents(M, k) = Intents(L, k) /\ \A j \in Intents(L, k) : j \in Earlier(L, k)
  BY <1>2, <1>3 DEF Intents
<1> QED  BY <1>1, <1>2, <1>3, <1>4 DEF KnownAt

-------------------------------------------------------------------------------
(* The invariant.                                                            *)
Stored == [key : HookKey, at : 0 .. clock]

Inv == /\ CacheTypeOK
       /\ \E p : Tracks(store, calls, clock, p)
       /\ InTime(calls, clock)
       /\ \A j \in 1 .. Len(calls) : KnownAt(calls, j)

LEMMA SeqGrows ==
    ASSUME NEW S, NEW T, S \subseteq T, NEW s \in Seq(S)
    PROVE  s \in Seq(T)
<1>1. s \in [1 .. Len(s) -> T] /\ Len(s) \in Nat
  OBVIOUS
<1> QED  BY <1>1

LEMMA SeqNarrows ==
    ASSUME NEW T, NEW s \in Seq(T), NEW S, \A i \in 1 .. Len(s) : s[i] \in S
    PROVE  s \in Seq(S)
<1>1. s \in [1 .. Len(s) -> S] /\ Len(s) \in Nat
  OBVIOUS
<1> QED  BY <1>1

LEMMA InitInv == CacheInit => Inv
<1> SUFFICES ASSUME CacheInit  PROVE Inv
  OBVIOUS
<1>1. store = <<>> /\ calls = <<>> /\ clock = 0
  BY DEF CacheInit
<1>2. CacheTypeOK
  BY <1>1, CacheAssumption DEF CacheInit, CacheTypeOK
<1>3. Tracks(store, calls, clock, <<>>)
  BY <1>1 DEF Tracks
<1>4. InTime(calls, clock) /\ \A j \in 1 .. Len(calls) : KnownAt(calls, j)
  BY <1>1 DEF InTime
<1> QED  BY <1>2, <1>3, <1>4 DEF Inv

LEMMA SeenKeeps ==
    ASSUME Inv, NEW t \in Thread, LookUp(t)
    PROVE  Inv'
<1> USE DEF Inv
<1> DEFINE key == caller[t].key
           at  == caller[t].at
           Y   == EvictExpired(store, at)
           row == [key |-> key, at |-> at, when |-> clock, seen |-> Known(Y, key)]
           D   == store'
<1>1. key \in HookKey /\ at \in 0 .. clock
  <2>1. caller[t] \in {NoCall} \cup [step : {"lock"}, key : HookKey, at : 0 .. clock] /\ caller[t] # NoCall
    BY DEF CacheTypeOK, LookUp
  <2> QED  BY <2>1
<1>2. /\ store' = IF Known(Y, key) THEN MoveToEnd(Y, key) ELSE Record(Y, key, at)
      /\ calls' = Append(calls, row) /\ caller' = [caller EXCEPT ![t] = NoCall] /\ clock' = clock
  BY DEF LookUp
<1> HIDE DEF key, at
<1>3. /\ clock \in Nat /\ MaxEntries \in Nat /\ TtlS \in Nat /\ calls \in Seq(Row)
      /\ store \in Seq(Stored) /\ Len(store) <= MaxEntries
  BY CacheAssumption DEF CacheTypeOK, Stored
<1>4. store \in Seq(Item)
  <2>1. Stored \subseteq Item
    BY <1>3 DEF Stored, Item
  <2> QED  BY <1>3, <2>1, SeqGrows
<1>5. PICK f : Y \in Seq(Item) /\ Rest(Y, store, at, f)
  BY <1>4, EvictIs
<1> HIDE DEF Y
<1>6. Len(Y) <= MaxEntries /\ \A i \in 1 .. Len(Y) : Y[i] \in Stored
  <2>1. /\ f \in 1 .. Len(store) + 1 /\ Len(Y) = Len(store) - f + 1 /\ Len(store) \in Nat
        /\ \A i \in 1 .. Len(Y) : Y[i] = store[f - 1 + i]
    BY <1>4, <1>5 DEF Rest
  <2>2. \A i \in 1 .. Len(Y) : f - 1 + i \in 1 .. Len(store)
    BY <2>1
  <2>3. \A i \in 1 .. Len(store) : store[i] \in Stored
    BY <1>3
  <2> QED  BY <1>3, <2>1, <2>2, <2>3
<1>7. PICK p : Tracks(Y, calls, clock, p)
  <2>1. Len(calls) \in Nat
    BY <1>3
  <2>2. PICK r : Tracks(store, calls, clock, r)
    OBVIOUS
  <2> QED  BY <1>1, <1>3, <1>4, <1>5, <2>1, <2>2, EvictKeepsTrack
<1>8. \A k, l \in 1 .. Len(Y) : k # l => Y[k].key # Y[l].key
  <2>1. /\ p \in [1 .. Len(Y) -> 1 .. Len(calls)] /\ Len(calls) \in Nat /\ Len(Y) \in Nat
        /\ \A i, j \in 1 .. Len(Y) : i < j => p[i] < p[j]
        /\ \A i \in 1 .. Len(Y) : Y[i].key = calls[p[i]].key /\ IsLast(calls, p[i])
    BY <1>3, <1>5, <1>7 DEF Tracks
  <2>2. ASSUME NEW k \in 1 .. Len(Y), NEW l \in 1 .. Len(Y), k < l  PROVE Y[k].key # Y[l].key
    <3>1. p[k] \in 1 .. Len(calls) /\ p[l] \in 1 .. Len(calls) /\ p[k] < p[l]
      BY <2>1, <2>2
    <3>2. p[l] \in p[k] + 1 .. Len(calls)
      BY <2>1, <3>1
    <3> QED  BY <2>1, <3>2 DEF IsLast
  <2> SUFFICES ASSUME NEW k \in 1 .. Len(Y), NEW l \in 1 .. Len(Y), k # l  PROVE Y[k].key # Y[l].key
    OBVIOUS
  <2>3. k < l \/ l < k
    OBVIOUS
  <2> QED  BY <2>2, <2>3
<1>9. row \in Row /\ row.when = clock /\ row.at = at /\ row.key = key /\ row.seen = Known(Y, key)
  <2>1. Known(Y, key) \in BOOLEAN
    BY DEF Known
  <2> QED  BY <1>1, <1>3, <2>1 DEF Row
<1>10. row.seen \in BOOLEAN /\ (row.seen <=> \E i \in 1 .. Len(Y) : Y[i].key = row.key)
  <2>1. DOMAIN Y = 1 .. Len(Y)
    BY <1>5
  <2> QED  BY <1>9, <2>1 DEF Known
<1> HIDE DEF row
<1>11. /\ D \in Seq(Item) /\ \E g : Follows(D, Y, key, g)
       /\ Ends(D, Y, row)
  <2>1. CASE row.seen
    <3>1. D = MoveToEnd(Y, key) /\ Known(Y, key)
      BY <1>2, <1>9, <2>1
    <3>2. /\ D \in Seq(Item) /\ \E g : Follows(D, Y, key, g)
          /\ \E i \in 1 .. Len(Y) : D[Len(D)] = Y[i]
      BY <1>5, <1>6, <1>8, <3>1, MoveIs
    <3>3. D[Len(D)].key = key
      BY <3>2 DEF Follows
    <3> QED  BY <1>9, <2>1, <3>2, <3>3 DEF Ends
  <2>2. CASE ~row.seen
    <3>1. D = Record(Y, key, at) /\ ~Known(Y, key)
      BY <1>2, <1>9, <2>2
    <3>2. at \in Nat
      BY <1>1, <1>3
    <3>3. /\ D \in Seq(Item) /\ \E g : Follows(D, Y, key, g)
          /\ D[Len(D)] = [key |-> key, at |-> at]
      BY <1>1, <1>5, <1>6, <3>1, <3>2, RecordIs
    <3> QED  BY <1>9, <1>10, <2>2, <3>3 DEF Ends
  <2> QED  BY <1>10, <2>1, <2>2
<1>12. PICK g : Follows(D, Y, key, g)
  BY <1>11
<1> DEFINE M == calls'
<1>13. M = Append(calls, row) /\ row.at \in 0 .. clock
  BY <1>1, <1>2, <1>9 DEF row
<1> HIDE DEF D, M
<1>14. (\E q : Tracks(D, M, clock, q)) /\ InTime(M, clock)
  BY <1>3, <1>5, <1>6, <1>7, <1>9, <1>10, <1>11, <1>12, <1>13, CallKeepsTrack
<1>15. KnownAt(M, Len(M))
  <2>1. Len(Y) # 0 => ~Expired(Y[1], row.at)
    BY <1>5, <1>9 DEF Rest
  <2> QED  BY <1>3, <1>5, <1>7, <1>9, <1>10, <1>13, <2>1, CallIsKnown
<1>16. M \in Seq(Row) /\ Len(M) = Len(calls) + 1 /\ Len(calls) \in Nat /\ \A m \in 1 .. Len(calls) : M[m] = calls[m]
  BY <1>3, <1>9, <1>13, Appended
<1>17. \A j \in 1 .. Len(M) : KnownAt(M, j)
  <2> SUFFICES ASSUME NEW j \in 1 .. Len(M)  PROVE KnownAt(M, j)
    OBVIOUS
  <2>1. CASE j = Len(M)
    BY <1>15, <2>1
  <2>2. CASE j # Len(M)
    <3>1. j \in 1 .. Len(calls)
      BY <1>16, <2>2
    <3> QED  BY <1>16, <3>1, KnownStays
  <2> QED  BY <2>1, <2>2
<1>18. D \in Seq(Stored) /\ Len(D) <= MaxEntries
  <2>1. Len(D) \in 1 .. MaxEntries /\ D[Len(D)].key = key
        /\ \A k \in 1 .. Len(D) - 1 : g[k] \in 1 .. Len(Y) /\ D[k] = Y[g[k]]
    BY <1>12 DEF Follows
  <2>2. D[Len(D)] \in Stored
    <3>1. CASE row.seen
      BY <1>6, <1>11, <3>1 DEF Ends
    <3>2. CASE ~row.seen
      <4>1. Len(D) \in 1 .. Len(D)
        BY <1>3, <2>1
      <4>2. D[Len(D)] \in Item /\ D[Len(D)].at \in 0 .. clock
        BY <1>11, <1>13, <3>2, <4>1 DEF Ends
      <4> QED  BY <4>2 DEF Item, Stored
    <3> QED  BY <1>10, <3>1, <3>2
  <2>3. \A k \in 1 .. Len(D) : k = Len(D) \/ k \in 1 .. Len(D) - 1
    BY <1>3, <2>1
  <2>4. \A k \in 1 .. Len(D) : D[k] \in Stored
    BY <1>6, <2>1, <2>2, <2>3
  <2> QED  BY <1>3, <1>11, <2>1, <2>4, SeqNarrows
<1>19. CacheTypeOK'
  <2>1. caller' \in [Thread -> {NoCall} \cup [step : {"lock"}, key : HookKey, at : 0 .. clock]]
    BY <1>2 DEF CacheTypeOK
  <2>2. clock' \in 0 .. MaxClock
    BY <1>2 DEF CacheTypeOK
  <2>3. store' \in Seq([key : HookKey, at : 0 .. clock]) /\ Len(store') <= MaxEntries
    BY <1>18 DEF Stored, D
  <2>4. calls' \in Seq(Row)
    BY <1>16 DEF M
  <2> QED  BY <1>2, <2>1, <2>2, <2>3, <2>4 DEF CacheTypeOK, Row
<1> QED  BY <1>2, <1>14, <1>17, <1>19 DEF D, M

(* Time makes the history older.                                             *)
LEMMA TickKeeps ==
    ASSUME Inv, ClockTick
    PROVE  Inv'
<1> USE DEF Inv
<1>1. /\ clock' = clock + 1 /\ clock' \in 0 .. MaxClock /\ clock \in Nat /\ TtlS \in Nat
      /\ caller' = caller /\ store' = store /\ calls' = calls
  BY CacheAssumption DEF ClockTick, CacheTypeOK
<1>2. 0 .. clock \subseteq 0 .. clock'
  BY <1>1
<1>3. CacheTypeOK'
  <2>1. caller' \in [Thread -> {NoCall} \cup [step : {"lock"}, key : HookKey, at : 0 .. clock']]
    BY <1>1, <1>2 DEF CacheTypeOK
  <2>2. store' \in Seq([key : HookKey, at : 0 .. clock'])
    <3>1. [key : HookKey, at : 0 .. clock] \subseteq [key : HookKey, at : 0 .. clock']
      BY <1>2
    <3>2. store \in Seq([key : HookKey, at : 0 .. clock])
      BY DEF CacheTypeOK
    <3>3. store \in Seq([key : HookKey, at : 0 .. clock'])
      BY <3>1, <3>2, SeqGrows
    <3> QED  BY <1>1, <3>3
  <2>3. calls' \in Seq(Row')
    <3>1. Row \subseteq Row'
      BY <1>2 DEF Row
    <3>2. calls \in Seq(Row)
      BY DEF CacheTypeOK
    <3>3. calls \in Seq(Row')
      BY <3>1, <3>2, SeqGrows
    <3> QED  BY <1>1, <3>3
  <2> QED  BY <1>1, <2>1, <2>2, <2>3 DEF CacheTypeOK
<1>4. InTime(calls, clock')
  BY <1>1 DEF InTime
<1>5. PICK p : Tracks(store, calls, clock, p)
  OBVIOUS
<1>6. \A x \in 1 .. Len(calls) : calls[x].at + TtlS < clock => calls[x].at + TtlS < clock'
  BY <1>1 DEF InTime
<1>7. Tracks(store, calls, clock', p)
  BY <1>5, <1>6 DEF Tracks, Past
<1> QED  BY <1>1, <1>3, <1>4, <1>7

LEMMA InvHolds == CacheSpec => []Inv
<1>1. Inv /\ [CacheNext]_cacheVars => Inv'
  <2> SUFFICES ASSUME Inv, [CacheNext]_cacheVars  PROVE Inv'
    OBVIOUS
  <2>1. CASE UNCHANGED cacheVars
    BY <2>1 DEF cacheVars, Inv, CacheTypeOK, Row
  <2>2. ASSUME NEW t \in Thread, NEW key \in HookKey, ReadClock(t, key)  PROVE Inv'
    <3>1. clock \in 0 .. clock /\ "lock" \in {"lock"}
      BY CacheAssumption DEF Inv, CacheTypeOK
    <3>2. CacheTypeOK'
      BY <2>2, <3>1 DEF Inv, CacheTypeOK, Row, ReadClock
    <3> QED  BY <2>2, <3>2 DEF Inv, ReadClock
  <2> QED  BY <2>1, <2>2, SeenKeeps, TickKeeps DEF CacheNext
<1> QED  BY <1>1, InitInv, PTL DEF CacheSpec

(* Every variable keeps its type; the store never holds more than            *)
(* max_entries items.                                                        *)
THEOREM TypeCorrect == CacheSpec => []CacheTypeOK
BY InvHolds, PTL DEF Inv

(* For any number of threads, keys and hooks, any TTL and any size of the    *)
(* cache: a hook is taken for a repetition within the TTL of one with its    *)
(* key, and only the TTL or max_entries other keys make the cache forget.    *)
THEOREM RepeatsKnown == CacheSpec => []RepeatsAreKnown
<1>1. Inv => RepeatsAreKnown
  <2> SUFFICES ASSUME Inv, NEW j \in DOMAIN calls  PROVE
        LET earlier   == {i \in 1 .. j - 1 : calls[i].key = calls[j].key}
            intents   == {i \in earlier : ~calls[i].seen /\ \A k \in earlier : k > i => calls[k].seen}
            others(i) == {calls[k].key : k \in i + 1 .. j - 1} \ {calls[j].key}
        IN  IF calls[j].seen
            THEN \E i \in earlier : calls[j].at <= calls[i].when + TtlS
            ELSE \/ \A i \in intents : calls[j].when > calls[i].at + TtlS
                 \/ \A i \in earlier : Cardinality(others(i)) >= MaxEntries
    BY DEF RepeatsAreKnown
  <2>1. KnownAt(calls, j)
    BY DEF Inv, CacheTypeOK
  <2> QED  BY <2>1 DEF KnownAt, Earlier, Intents, KeysIn
<1> QED  BY <1>1, InvHolds, PTL
===============================================================================
