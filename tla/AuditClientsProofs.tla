-------------------------- MODULE AuditClientsProofs --------------------------
(***************************************************************************)
(* Proofs about those who use the chain: AuditReaders, what psy verify,    *)
(* psy tail, queries and exports tell of a store that others write         *)
(* meanwhile, and AuditedCall, what a host promises of a call it records.  *)
(* Each part is about the specification of its own module.                 *)
(*                                                                         *)
(* A reader holds rows of the chain (rows stay), which it read as a run of *)
(* consecutive numbers at a time. How that run lies to the rows archived   *)
(* since is what decides whether a later statement misses some.            *)
(*                                                                         *)
(* That a call acts only on what is in the store is not inductive: what a  *)
(* host concludes from "record returned" depends on the row its process is *)
(* carrying through the write path, step by step. CallInv says which row   *)
(* that is and where in the path it has been committed; that rows stay is  *)
(* IInv of AuditChainProofs.                                               *)
(***************************************************************************)
EXTENDS AuditReaders, AuditedCall, AuditChainProofs

(* ------------------------------- readers -------------------------------- *)

Increasing(s) == \A i, j \in DOMAIN s : i < j => s[i].seq < s[j].seq
Shown(s)      == {s[i].seq : i \in DOMAIN s}

LEMMA RowsAre ==
    ASSUME IInv, NEW a \in Nat, NEW b \in Nat, a <= b, b <= meta.last_seq
    PROVE  /\ Rows(a, b) \in Seq(AllRows)
           /\ Len(Rows(a, b)) = b - a /\ DOMAIN Rows(a, b) = 1 .. b - a
           /\ \A j \in 1 .. b - a : Rows(a, b)[j].seq = a + j
           /\ Rows(a, b) = [j \in 1 .. b - a |-> RowIn(AllRows, a + j)]
<1>1. meta.last_seq \in Nat
  BY DEF IInv, TypeOK
<1>2. ASSUME NEW j \in 1 .. b - a
      PROVE  RowIn(AllRows, a + j) \in AllRows /\ RowIn(AllRows, a + j).seq = a + j
  <2>1. a + j \in 1 .. meta.last_seq
    BY <1>1
  <2> QED  BY <2>1, ChainRows
<1> QED  BY <1>2 DEF Rows

(* A part of consecutive rows. *)
LEMMA PartOfRows ==
    ASSUME IInv, NEW a \in Nat, NEW b \in Nat, NEW c \in Nat, NEW d \in Nat,
           a <= c, c <= d, d <= b, b <= meta.last_seq
    PROVE  SubSeq(Rows(a, b), c - a + 1, d - a) = Rows(c, d)
<1> DEFINE s == Rows(a, b)
<1>1. s \in Seq(AllRows) /\ Len(s) = b - a /\ \A j \in 1 .. b - a : s[j] = RowIn(AllRows, a + j)
  BY RowsAre
<1> HIDE DEF s
<1>2. SubSeq(s, c - a + 1, d - a) = [j \in 1 .. d - c |-> s[j + (c - a)]]
  BY <1>1
<1>3. \A j \in 1 .. d - c : j + (c - a) \in 1 .. b - a /\ a + (j + (c - a)) = c + j
  OBVIOUS
<1>4. SubSeq(s, c - a + 1, d - a) = [j \in 1 .. d - c |-> RowIn(AllRows, c + j)]
  BY <1>1, <1>2, <1>3
<1> QED  BY <1>4 DEF s, Rows

LEMMA FirstOfRows ==
    ASSUME IInv, NEW a \in Nat, NEW b \in Nat, a <= b, b <= meta.last_seq, NEW n \in Nat
    PROVE  First(n, Rows(a, b)) = Rows(a, IF n < b - a THEN a + n ELSE b)
<1> DEFINE d == IF n < b - a THEN a + n ELSE b
<1>1. d \in Nat /\ a <= d /\ d <= b /\ a - a + 1 = 1 /\ d - a = IF n < b - a THEN n ELSE b - a
  OBVIOUS
<1>2. SubSeq(Rows(a, b), 1, d - a) = Rows(a, d)
  <2> HIDE DEF d
  <2>1. SubSeq(Rows(a, b), a - a + 1, d - a) = Rows(a, d)
    BY <1>1, PartOfRows
  <2> QED  BY <1>1, <2>1
<1>3. Len(Rows(a, b)) = b - a
  BY RowsAre
<1> QED  BY <1>1, <1>2, <1>3 DEF First

(* SELECT ... WHERE seq > n LIMIT limit *)
LEMMA EventAfterIs ==
    ASSUME IInv, NEW n \in 0 .. meta.last_seq, NEW limit \in Nat
    PROVE  \E lo \in Nat, hi \in Nat :
              /\ n > ArchivedUpTo => lo = n
              /\ ~(n > ArchivedUpTo) => lo = ArchivedUpTo
              /\ lo <= hi /\ hi <= meta.last_seq /\ hi <= lo + limit
              /\ hi = lo + limit \/ hi = meta.last_seq
              /\ EventAfter(n, limit) = Rows(lo, hi)
<1>1. ChainIntact /\ Split /\ TypeOK
  BY DEF IInv
<1> DEFINE last == meta.last_seq
           lo   == IF n > ArchivedUpTo THEN n ELSE ArchivedUpTo
           R    == {r \in events : r.seq > n}
<1>2. last \in Nat /\ ArchivedUpTo \in Nat /\ lo \in Nat /\ lo <= last /\ n <= lo
      /\ ArchivedUpTo <= lo
  BY <1>1 DEF Split, TypeOK
<1>3. \A r \in events : r.seq \in ArchivedUpTo + 1 .. last
  BY ActiveRowsAre
<1>4. Numbered(R, lo, last)
  <2>1. \A r \in R : r.seq \in lo + 1 .. last
    BY <1>2, <1>3
  <2>2. ASSUME NEW m \in lo + 1 .. last  PROVE \E r \in R : r.seq = m
    <3>1. m \in 1 .. last /\ m > n /\ m > ArchivedUpTo
      BY <1>2
    <3>2. PICK r \in AllRows : r.seq = m
      BY <1>1, <3>1 DEF ChainIntact
    <3>3. r \notin ArchivedRows
      BY <1>1, <1>2, <3>1, <3>2 DEF Split
    <3> QED  BY <3>1, <3>2, <3>3 DEF AllRows
  <2>3. \A r, q \in R : r.seq = q.seq => r = q
    BY <1>1 DEF ChainIntact, AllRows
  <2> HIDE DEF R, lo, last
  <2> QED  BY <2>1, <2>2, <2>3 DEF Numbered
<1>5. BySeq(R) = Rows(lo, last)
  <2>1. BySeq(R) = [j \in 1 .. last - lo |-> RowIn(R, lo + j)]
    <3> HIDE DEF R, lo, last
    <3> QED  BY <1>2, <1>4, BySeqIs
  <2>2. ASSUME NEW j \in 1 .. last - lo  PROVE RowIn(R, lo + j) = RowIn(AllRows, lo + j)
    <3>1. lo + j \in lo + 1 .. last /\ lo + j \in 1 .. last
      BY <1>2
    <3>2. RowIn(R, lo + j) \in R /\ RowIn(R, lo + j).seq = lo + j
      <4> HIDE DEF R, lo, last
      <4> QED  BY <1>2, <1>4, <3>1, NumberedRows
    <3>3. RowIn(R, lo + j) \in AllRows
      BY <3>2 DEF AllRows
    <3> HIDE DEF R, lo
    <3> QED  BY <3>1, <3>2, <3>3, ChainRows
  <2> HIDE DEF R, lo, last
  <2> QED  BY <2>1, <2>2 DEF Rows
<1> DEFINE hi == IF limit < last - lo THEN lo + limit ELSE last
<1>6. EventAfter(n, limit) = Rows(lo, hi)
  <2>1. EventAfter(n, limit) = First(limit, Rows(lo, last))
    BY <1>5 DEF EventAfter
  <2> HIDE DEF lo, R
  <2> QED  BY <1>2, <2>1, FirstOfRows
<1>7. hi \in Nat /\ lo <= hi /\ hi <= last /\ hi <= lo + limit /\ (hi = lo + limit \/ hi = last)
  BY <1>2
<1> HIDE DEF hi
<1> QED  BY <1>2, <1>6, <1>7

(* ... LIMIT limit OFFSET offset *)
LEMMA PageIs ==
    ASSUME IInv, NEW offset \in Nat, NEW limit \in Nat
    PROVE  \E k \in Nat :
              /\ k <= limit
              /\ k > 0 => ArchivedUpTo + offset + k <= meta.last_seq
              /\ k < limit => ArchivedUpTo + offset + k >= meta.last_seq
              /\ Page(limit, offset) = IF k = 0 THEN <<>>
                                       ELSE Rows(ArchivedUpTo + offset, ArchivedUpTo + offset + k)
<1>1. Split /\ TypeOK
  BY DEF IInv
<1> DEFINE last == meta.last_seq
           a    == ArchivedUpTo
           c    == a + offset
<1>2. last \in Nat /\ a \in Nat /\ a <= last /\ c \in Nat /\ a <= c
      /\ c - a + 1 = offset + 1
  BY <1>1 DEF Split, TypeOK
<1>3. BySeq(events) = Rows(a, last) /\ Cardinality(events) = last - a
  BY ActiveRowsAre
<1> DEFINE part == SubSeq(Rows(a, last), offset + 1, last - a)
<1>4. Page(limit, offset) = First(limit, part)
  BY <1>3 DEF Page
<1>5. CASE c <= last
  <2>1. part = Rows(c, last)
    <3>1. last <= meta.last_seq
      BY <1>2
    <3> HIDE DEF a, last, c
    <3>2. SubSeq(Rows(a, last), c - a + 1, last - a) = Rows(c, last)
      BY <1>2, <1>5, <3>1, PartOfRows, SMTT(20)
    <3> QED  BY <1>2, <3>2
  <2> DEFINE d == IF limit < last - c THEN c + limit ELSE last
             k == d - c
  <2>2. First(limit, Rows(c, last)) = Rows(c, d)
    <3> HIDE DEF c
    <3> QED  BY <1>2, <1>5, FirstOfRows
  <2>3. /\ k \in Nat /\ k <= limit /\ c + k = d
        /\ k > 0 => c + k <= last
        /\ k < limit => c + k >= last
    BY <1>2, <1>5
  <2>4. k = 0 => Rows(c, d) = <<>>
    <3>1. k = 0 => d - c = 0
      OBVIOUS
    <3> HIDE DEF c, d
    <3> QED  BY <3>1 DEF Rows
  <2> HIDE DEF k, d, part
  <2> QED  BY <1>4, <2>1, <2>2, <2>3, <2>4
<1>6. CASE c > last
  <2>1. part = <<>>
    <3>1. offset + 1 > last - a
      BY <1>2, <1>6
    <3> HIDE DEF a, last
    <3> QED  BY <1>2, <3>1, SubSeqEmpty
  <2>2. First(limit, <<>>) = <<>>
    BY DEF First
  <2>3. Page(limit, offset) = <<>>
    BY <1>4, <2>1, <2>2
  <2>4. c + 0 >= last
    BY <1>2, <1>6
  <2> HIDE DEF part
  <2> WITNESS 0 \in Nat
  <2> QED  BY <1>2, <2>3, <2>4
<1> QED  BY <1>2, <1>5, <1>6

-------------------------------------------------------------------------------
(* Rows held by a reader, and a further run of rows put behind them.        *)
LEMMA HeldRows ==
    ASSUME IInv, NEW s \in Seq(AllRows)
    PROVE  /\ Len(s) \in Nat /\ DOMAIN s = 1 .. Len(s)
           /\ \A i \in 1 .. Len(s) : s[i] \in AllRows /\ s[i].seq \in 1 .. meta.last_seq
           /\ LastSeqOf(s) \in 0 .. meta.last_seq
<1>1. \A r \in AllRows : r.seq \in 1 .. meta.last_seq
  <2>1. \A f \in DOMAIN archives : archives[f] \subseteq Row
    BY DEF IInv, TypeOK
  <2>2. AllRows \subseteq Row /\ meta.last_seq \in Nat
    BY <2>1 DEF AllRows, ArchivedRows, Locked, IInv, TypeOK
  <2> QED  BY <2>2 DEF Row, IInv, ChainIntact
<1>2. Len(s) \in Nat /\ DOMAIN s = 1 .. Len(s) /\ \A i \in 1 .. Len(s) : s[i] \in AllRows
  OBVIOUS
<1>3. LastSeqOf(s) \in 0 .. meta.last_seq
  <2>1. s # <<>> => Len(s) \in 1 .. Len(s)
    BY <1>2
  <2> QED  BY <1>1, <1>2, <2>1 DEF LastSeqOf, IInv, TypeOK
<1> QED  BY <1>1, <1>2, <1>3

LEMMA LastIsGreatest ==
    ASSUME IInv, NEW s \in Seq(AllRows), Increasing(s)
    PROVE  \A i \in 1 .. Len(s) : s[i].seq <= LastSeqOf(s)
<1> SUFFICES ASSUME NEW i \in 1 .. Len(s)  PROVE s[i].seq <= LastSeqOf(s)
  OBVIOUS
<1> DEFINE n == Len(s)
<1>0. n \in Nat
  BY HeldRows
<1>1. DOMAIN s = 1 .. n /\ \A j \in 1 .. n : s[j].seq \in Nat
  BY HeldRows
<1>2. n \in 1 .. n /\ n # 0 /\ i \in 1 .. n /\ (i < n \/ i = n)
  <2>1. i \in 1 .. n
    OBVIOUS
  <2> HIDE DEF n
  <2> QED  BY <1>0, <2>1
<1>3. s # <<>>
  BY <1>2
<1>4. s[i].seq <= s[Len(s)].seq
  <2>1. i < Len(s) => s[i].seq < s[Len(s)].seq
    BY <1>1, <1>2 DEF Increasing
  <2>2. s[i].seq \in Nat /\ s[Len(s)].seq \in Nat
    BY <1>1, <1>2
  <2> QED  BY <1>2, <2>1, <2>2
<1> QED  BY <1>3, <1>4 DEF LastSeqOf

LEMMA Extended ==
    ASSUME IInv, NEW s \in Seq(AllRows), NEW a \in Nat, NEW b \in Nat, a <= b, b <= meta.last_seq
    PROVE  /\ s \o Rows(a, b) \in Seq(AllRows)
           /\ Len(s \o Rows(a, b)) = Len(s) + (b - a)
           /\ \A i \in 1 .. Len(s) : (s \o Rows(a, b))[i] = s[i]
           /\ \A j \in 1 .. b - a : (s \o Rows(a, b))[Len(s) + j].seq = a + j
           /\ ~(a < b) => LastSeqOf(s \o Rows(a, b)) = LastSeqOf(s)
           /\ a < b => LastSeqOf(s \o Rows(a, b)) = b
           /\ Increasing(s) /\ LastSeqOf(s) <= a => Increasing(s \o Rows(a, b))
<1> DEFINE u == Rows(a, b)
           t == s \o u
<1>1. /\ u \in Seq(AllRows) /\ Len(u) = b - a
      /\ \A j \in 1 .. b - a : u[j].seq = a + j
  BY RowsAre
<1>2. Len(s) \in Nat /\ DOMAIN s = 1 .. Len(s)
  BY HeldRows
<1> HIDE DEF u
<1>3. /\ t \in Seq(AllRows) /\ Len(t) = Len(s) + (b - a) /\ DOMAIN t = 1 .. Len(s) + (b - a)
      /\ \A i \in 1 .. Len(s) : t[i] = s[i]
  BY <1>1, <1>2
<1>4. \A j \in 1 .. b - a : t[Len(s) + j].seq = a + j
  <2> SUFFICES ASSUME NEW j \in 1 .. b - a  PROVE t[Len(s) + j].seq = a + j
    OBVIOUS
  <2>1. t[Len(s) + j] = u[j]
    BY <1>1, <1>2
  <2> QED  BY <1>1, <2>1
<1> HIDE DEF t
<1>5. (~(a < b) => LastSeqOf(t) = LastSeqOf(s)) /\ (a < b => LastSeqOf(t) = b)
  <2>1. CASE a = b
    <3>1. b - a = 0 /\ Len(s) + 0 = Len(s)
      BY <1>2, <2>1
    <3>2. t = s
      BY <1>3, <3>1, SeqEqual
    <3> QED  BY <2>1, <3>2
  <2>2. CASE a # b
    <3>1. b - a \in 1 .. b - a /\ Len(t) = Len(s) + (b - a) /\ a + (b - a) = b /\ t # <<>>
      BY <1>2, <1>3, <2>2
    <3>2. t[Len(t)].seq = b
      BY <1>4, <3>1
    <3> QED  BY <2>2, <3>1, <3>2 DEF LastSeqOf
  <2> QED  BY <2>1, <2>2
<1>6. ASSUME Increasing(s), LastSeqOf(s) <= a  PROVE Increasing(t)
  <2> SUFFICES ASSUME NEW i \in DOMAIN t, NEW j \in DOMAIN t, i < j  PROVE t[i].seq < t[j].seq
    BY DEF Increasing
  <2>1. CASE j \in 1 .. Len(s)
    <3>1. i \in 1 .. Len(s)
      BY <1>2, <1>3, <2>1
    <3> QED  BY <1>2, <1>3, <1>6, <2>1, <3>1 DEF Increasing
  <2>2. CASE j \notin 1 .. Len(s)
    <3>1. j - Len(s) \in 1 .. b - a /\ Len(s) + (j - Len(s)) = j
      BY <1>2, <1>3, <2>2
    <3>2. t[j].seq = a + (j - Len(s))
      BY <1>4, <3>1
    <3>3. CASE i \in 1 .. Len(s)
      <4>1. t[i] = s[i] /\ s[i].seq <= LastSeqOf(s) /\ s[i].seq \in Nat /\ LastSeqOf(s) \in Nat
        BY <1>3, <1>6, <3>3, LastIsGreatest, HeldRows
      <4> QED  BY <1>2, <1>6, <3>1, <3>2, <4>1
    <3>4. CASE i \notin 1 .. Len(s)
      <4>1. i - Len(s) \in 1 .. b - a /\ Len(s) + (i - Len(s)) = i
        BY <1>2, <1>3, <3>4
      <4>2. t[i].seq = a + (i - Len(s))
        BY <1>4, <4>1
      <4>3. i - Len(s) < j - Len(s)
        BY <1>2, <1>3
      <4> QED  BY <3>1, <3>2, <4>1, <4>2, <4>3
    <3> QED  BY <3>3, <3>4
  <2> QED  BY <2>1, <2>2
<1> QED  BY <1>3, <1>4, <1>5, <1>6 DEF t, u

LEMMA ExtendedShown ==
    ASSUME IInv, NEW s \in Seq(AllRows), NEW a \in Nat, NEW b \in Nat, a <= b, b <= meta.last_seq
    PROVE  Shown(s \o Rows(a, b)) = Shown(s) \cup (a + 1 .. b)
<1> DEFINE t == s \o Rows(a, b)
<1>2. Len(s) \in Nat /\ DOMAIN s = 1 .. Len(s)
  BY HeldRows
<1>3. /\ t \in Seq(AllRows) /\ Len(t) = Len(s) + (b - a)
      /\ \A i \in 1 .. Len(s) : t[i] = s[i]
  BY Extended
<1>4. \A j \in 1 .. b - a : t[Len(s) + j].seq = a + j
  BY Extended
<1> HIDE DEF t
<1>5. DOMAIN t = 1 .. Len(s) + (b - a)
  BY <1>3
<1>6. Shown(t) = Shown(s) \cup (a + 1 .. b)
  <2>1. ASSUME NEW i \in DOMAIN t  PROVE t[i].seq \in Shown(s) \cup (a + 1 .. b)
    <3>1. CASE i \in 1 .. Len(s)
      BY <1>2, <1>3, <1>5, <3>1 DEF Shown
    <3>2. CASE i \notin 1 .. Len(s)
      <4>1. i - Len(s) \in 1 .. b - a /\ Len(s) + (i - Len(s)) = i
        BY <1>2, <1>3, <1>5, <3>2
      <4>2. t[i].seq = a + (i - Len(s))
        BY <1>4, <4>1
      <4> QED  BY <1>2, <4>1, <4>2
    <3> QED  BY <3>1, <3>2
  <2>2. ASSUME NEW i \in DOMAIN s  PROVE s[i].seq \in Shown(t)
    <3>1. i \in DOMAIN t /\ t[i] = s[i]
      BY <1>2, <1>3, <1>5
    <3> QED  BY <3>1 DEF Shown
  <2>3. ASSUME NEW n \in a + 1 .. b  PROVE n \in Shown(t)
    <3>1. n - a \in 1 .. b - a /\ a + (n - a) = n /\ Len(s) + (n - a) \in DOMAIN t
      BY <1>2, <1>3, <1>5
    <3>2. t[Len(s) + (n - a)].seq = n
      BY <1>4, <3>1
    <3> QED  BY <3>1, <3>2 DEF Shown
  <2> QED  BY <2>1, <2>2, <2>3 DEF Shown
<1> QED  BY <1>6 DEF t

(* Numbers in increasing order are distinct: nothing is shown twice.        *)
LEMMA ShownOnce ==
    ASSUME IInv, NEW s \in Seq(AllRows), \A i, j \in DOMAIN s : i # j => s[i].seq # s[j].seq
    PROVE  Cardinality(Shown(s)) = Len(s)
<1> DEFINE f == [i \in 1 .. Len(s) |-> s[i].seq]
<1>1. Len(s) \in Nat /\ DOMAIN s = 1 .. Len(s)
  BY HeldRows
<1>2. f \in Bijection(1 .. Len(s), Shown(s))
  <2>1. f \in [1 .. Len(s) -> Shown(s)]
    BY <1>1 DEF Shown
  <2>2. \A i, j \in 1 .. Len(s) : f[i] = f[j] => i = j
    BY <1>1
  <2>3. \A n \in Shown(s) : \E i \in 1 .. Len(s) : f[i] = n
    BY <1>1 DEF Shown
  <2> HIDE DEF f
  <2> QED  BY <2>1, <2>2, <2>3 DEF Bijection, Injection, Surjection, IsInjective
<1>3. ExistsBijection(1 .. Len(s), Shown(s))
  BY <1>2 DEF ExistsBijection
<1> QED  BY <1>1, <1>3, FS_CountingElements

LEMMA IncreasingShownOnce ==
    ASSUME IInv, NEW s \in Seq(AllRows), Increasing(s)
    PROVE  Cardinality(Shown(s)) = Len(s)
<1>1. ASSUME NEW i \in DOMAIN s, NEW j \in DOMAIN s, i # j  PROVE s[i].seq # s[j].seq
  <2>1. DOMAIN s = 1 .. Len(s) /\ Len(s) \in Nat /\ s[i].seq \in Nat /\ s[j].seq \in Nat
    BY HeldRows
  <2>2. i < j \/ j < i
    BY <1>1, <2>1
  <2> QED  BY <2>1, <2>2 DEF Increasing
<1> QED  BY <1>1, ShownOnce

(* Sorting what is in order already permutes it: the same rows, as many.    *)
LEMMA SortedIs ==
    ASSUME IInv, NEW s \in Seq(AllRows), Increasing(s)
    PROVE  /\ Sorted(s) \in Seq(AllRows) /\ Len(Sorted(s)) = Len(s)
           /\ Shown(Sorted(s)) = Shown(s)
<1> DEFINE D == DOMAIN s
           P(f) == \A i, j \in D : i < j => s[f[i]].seq <= s[f[j]].seq
           id == [i \in D |-> i]
           f == CHOOSE f \in Bijection(D, D) : P(f)
<1>1. /\ Len(s) \in Nat /\ D = 1 .. Len(s)
      /\ \A i \in D : s[i] \in AllRows /\ s[i].seq \in Nat
  BY HeldRows
<1>2. id \in Bijection(D, D)
  BY DEF Bijection, Injection, Surjection, IsInjective
<1>3. P(id)
  <2> SUFFICES ASSUME NEW i \in D, NEW j \in D, i < j  PROVE s[id[i]].seq <= s[id[j]].seq
    OBVIOUS
  <2>1. s[i].seq < s[j].seq
    BY DEF Increasing
  <2> QED  BY <1>1, <2>1
<1>4. f \in Bijection(D, D)
  <2> HIDE DEF P, id, D
  <2> QED  BY <1>2, <1>3
<1>5. Sorted(s) = [i \in D |-> s[f[i]]]
  BY DEF Sorted
<1> HIDE DEF f, P, id
<1>6. f \in [D -> D] /\ \A j \in D : \E i \in D : f[i] = j
  BY <1>4 DEF Bijection, Injection, Surjection
<1>7. Sorted(s) \in Seq(AllRows) /\ Len(Sorted(s)) = Len(s) /\ DOMAIN Sorted(s) = D
  BY <1>1, <1>5, <1>6
<1>8. Shown(Sorted(s)) = Shown(s)
  <2>1. ASSUME NEW i \in D  PROVE Sorted(s)[i].seq \in Shown(s)
    BY <1>5, <1>6 DEF Shown
  <2>2. ASSUME NEW j \in D  PROVE s[j].seq \in Shown(Sorted(s))
    <3>1. PICK i \in D : f[i] = j
      BY <1>6
    <3>2. Sorted(s)[i] = s[j]
      BY <1>5, <3>1
    <3> QED  BY <1>7, <3>2 DEF Shown
  <2> QED  BY <1>7, <2>1, <2>2 DEF Shown
<1> QED  BY <1>7, <1>8

-------------------------------------------------------------------------------
(* What a writer's step can do to a reader: rows are added at the end, or    *)
(* moved to the archives; the ones read stay what they were.                *)
LEMMA WritersOnlyAdd ==
    ASSUME VerifyInv, VerifyInv', [Next]_vars
    PROVE  /\ AllRows \subseteq AllRows'
           /\ meta.last_seq <= meta'.last_seq
           /\ ArchivedUpTo <= ArchivedUpTo'
           /\ \A n \in 1 .. meta.last_seq : RowIn(AllRows', n) = RowIn(AllRows, n)
           /\ \A r \in events' : r \in events \/ r.seq > meta.last_seq
           /\ segments' = segments => ArchivedUpTo' = ArchivedUpTo
           /\ segments' = segments /\ meta' = meta => events' = events
<1>1. TypeOK /\ ChainIntact /\ Split /\ IInv /\ TypeOK' /\ ChainIntact' /\ Split'
  BY DEF VerifyInv, IInv
<1>2. AllRows \subseteq AllRows'
  BY <1>1, RowsStay
<1>3. /\ meta.last_seq \in Nat /\ meta'.last_seq \in Nat
      /\ ArchivedUpTo \in 0 .. meta.last_seq /\ ArchivedUpTo' \in 0 .. meta'.last_seq
  BY <1>1 DEF TypeOK, Split
<1>4. \A n \in 1 .. meta.last_seq :
         /\ RowIn(AllRows, n) \in AllRows /\ RowIn(AllRows, n).seq = n
         /\ RowIn(AllRows', n) = RowIn(AllRows, n)
  <2> SUFFICES ASSUME NEW n \in 1 .. meta.last_seq
               PROVE  /\ RowIn(AllRows, n) \in AllRows /\ RowIn(AllRows, n).seq = n
                      /\ RowIn(AllRows', n) = RowIn(AllRows, n)
    OBVIOUS
  <2>1. RowIn(AllRows, n) \in AllRows /\ RowIn(AllRows, n).seq = n
    BY <1>1, ChainRows
  <2>2. \A r \in AllRows' : r.seq = n => r = RowIn(AllRows, n)
    BY <1>1, <1>2, <2>1 DEF ChainIntact
  <2> QED  BY <1>2, <2>1, <2>2 DEF RowIn
<1>5. meta.last_seq <= meta'.last_seq
  <2>1. CASE meta.last_seq = 0
    BY <1>3, <2>1
  <2>2. CASE meta.last_seq # 0
    <3>1. meta.last_seq \in 1 .. meta.last_seq
      BY <1>3, <2>2
    <3> QED  BY <1>1, <1>2, <1>4, <3>1 DEF ChainIntact
  <2> QED  BY <2>1, <2>2
<1>6. segments' = segments => ArchivedUpTo' = ArchivedUpTo
  BY DEF ArchivedUpTo
<1>7. ArchivedUpTo <= ArchivedUpTo'
  <2>1. CASE \E p \in Proc : CommitRotation(p)
    <3>1. PICK p \in Proc : CommitRotation(p)
      BY <2>1
    <3>2. events # {}
      BY <1>1, <3>1 DEF IInv, Locked, CommitRotation
    <3>3. MaxRow(events).seq = meta.last_seq
      BY <1>1, <3>2, Extremes
    <3> DEFINE new == [path |-> path[p], start_seq |-> MinRow(events).seq,
                       end_seq |-> MaxRow(events).seq, start_hash |-> MinRow(events).prev,
                       end_hash |-> Hash(MaxRow(events))]
    <3>4. segments' = Append(segments, new) /\ segments \in Seq(Segment) /\ new.end_seq = meta.last_seq
      BY <1>1, <3>1, <3>3 DEF CommitRotation, TypeOK
    <3> HIDE DEF new
    <3>5. segments' # <<>> /\ segments'[Len(segments')] = new
      BY <3>4
    <3>6. ArchivedUpTo' = meta.last_seq
      BY <3>4, <3>5 DEF ArchivedUpTo
    <3> QED  BY <1>3, <3>6
  <2>2. CASE \A p \in Proc : ~CommitRotation(p)
    BY <1>1, <1>3, <1>6, <2>2, SegmentsStay
  <2> QED  BY <2>1, <2>2
<1>8. \A r \in events' : r \in events \/ r.seq > meta.last_seq
  <2> SUFFICES ASSUME NEW r \in events', ~(r.seq > meta.last_seq)  PROVE r \in events
    OBVIOUS
  <2>1. r.seq \in Nat /\ r.seq > ArchivedUpTo' /\ r \in AllRows'
    BY <1>1 DEF TypeOK, Row, Split, AllRows
  <2>2. r.seq \in 1 .. meta.last_seq
    BY <1>3, <2>1
  <2>3. RowIn(AllRows, r.seq) = r
    BY <1>1, <1>2, <1>4, <2>1, <2>2 DEF ChainIntact
  <2>4. r \in AllRows /\ ~(r.seq <= ArchivedUpTo)
    BY <1>3, <1>4, <1>7, <2>1, <2>2, <2>3
  <2> QED  BY <1>1, <2>4 DEF Split, AllRows
<1>9. ASSUME segments' = segments, meta' = meta  PROVE events' = events
  <2>1. \A r \in events' : r \in events
    <3> SUFFICES ASSUME NEW r \in events'  PROVE r \in events
      OBVIOUS
    <3>1. r \in AllRows' /\ r.seq <= meta.last_seq /\ r.seq \in Nat
      BY <1>1, <1>9 DEF AllRows, ChainIntact, TypeOK, Row
    <3>2. ~(r.seq > meta.last_seq)
      BY <1>3, <3>1
    <3> QED  BY <1>8, <3>2
  <2>2. \A r \in events : r \in events'
    <3> SUFFICES ASSUME NEW r \in events  PROVE r \in events'
      OBVIOUS
    <3>1. r \in AllRows' /\ r.seq > ArchivedUpTo' /\ r.seq \in Nat
      BY <1>1, <1>2, <1>6, <1>9 DEF AllRows, Split, TypeOK, Row
    <3>2. ~(r.seq <= ArchivedUpTo')
      BY <1>3, <3>1
    <3> QED  BY <1>1, <3>1, <3>2 DEF Split, AllRows
  <2> QED  BY <2>1, <2>2
<1> QED  BY <1>2, <1>4, <1>5, <1>6, <1>7, <1>8, <1>9

LEMMA ArchivedSeqs ==
    ASSUME IInv, NEW n \in 1 .. ArchivedUpTo
    PROVE  n \in {r.seq : r \in ArchivedRows}
<1>1. ChainIntact /\ Split /\ TypeOK
  BY DEF IInv
<1>2. n \in 1 .. meta.last_seq /\ ~(n > ArchivedUpTo)
  BY <1>1 DEF Split, TypeOK
<1>3. PICK r \in AllRows : r.seq = n
  BY <1>1, <1>2 DEF ChainIntact
<1> QED  BY <1>1, <1>2, <1>3 DEF Split, AllRows

-------------------------------------------------------------------------------
(* ------------------------ psy tail, queries, export ---------------------- *)

Unrotated == "rotation" \notin since
Held(n)   == n \in Shown(rows) \/ n <= ArchivedUpTo

(* What the reader holds is in the chain, and what it knows of the last     *)
(* number was true once.                                                    *)
Holds == rows \in Seq(AllRows) /\ metaRead.last_seq \in 0 .. meta.last_seq

Follows == role = "follow" =>
    Increasing(rows) /\ \A n \in 1 .. LastSeqOf(rows) : Held(n)

Newest == role = "newest" =>
    /\ at # "done" => rows = <<>>
    /\ at = "done" => Increasing(rows) /\ \A n \in TailStart + 1 .. metaRead.last_seq : Held(n)

(* The offset of the next page never points before the rows already shown:  *)
(* a rotation can only move the window forward.                             *)
Pages == role = "pages" =>
    /\ Increasing(rows) /\ LastSeqOf(rows) <= ArchivedUpTo + Len(rows)
    /\ at = "start" => rows = <<>>
    /\ at = "next" /\ Unrotated => \A i \in 1 .. Len(rows) : rows[i].seq = ArchivedUpTo + i
    /\ at = "done" /\ Unrotated =>
          \A r \in events : r.seq \in Shown(rows) \/ r.seq > LastSeqOf(rows)

History == role = "history" =>
    /\ at \notin {"rows", "done"} => rows = <<>>
    /\ at = "rows" => Increasing(rows) /\ LastSeqOf(rows) <= ArchivedUpTo
    /\ at = "rows" /\ Unrotated => Len(rows) = ArchivedUpTo /\ Shown(rows) = 1 .. ArchivedUpTo
    /\ at = "done" => Cardinality(Shown(rows)) = Len(rows)
    /\ at = "done" /\ Unrotated => Shown(rows) = 1 .. Len(rows)

Others == ~Verifying /\ role \notin {"follow", "newest", "pages", "history"} => rows = <<>>

ShowInv == VerifyInv /\ Holds /\ Follows /\ Newest /\ Pages /\ History /\ Others

LEMMA NothingShown ==
    /\ <<>> \in Seq(AllRows) /\ Len(<<>>) = 0 /\ LastSeqOf(<<>>) = 0
    /\ Increasing(<<>>) /\ Shown(<<>>) = {} /\ Cardinality(Shown(<<>>)) = 0
<1>1. <<>> \in Seq(AllRows) /\ Len(<<>>) = 0 /\ DOMAIN <<>> = {}
  OBVIOUS
<1>2. Shown(<<>>) = {}
  BY <1>1 DEF Shown
<1> QED  BY <1>1, <1>2, FS_EmptySet DEF LastSeqOf, Increasing

LEMMA ShowInit == ReaderInit => ShowInv
<1> SUFFICES ASSUME ReaderInit  PROVE ShowInv
  OBVIOUS
<1>1. VerifyInv
  BY VerifyInit DEF ReaderInit
<1>2. meta.last_seq \in Nat /\ ArchivedUpTo \in Nat
  BY <1>1 DEF VerifyInv, IInv, TypeOK, Split
<1>3. rows = <<>> /\ metaRead = meta /\ at = "start"
  BY DEF ReaderInit
<1>4. Holds
  BY <1>2, <1>3, NothingShown DEF Holds
<1>5. Increasing(rows) /\ LastSeqOf(rows) = 0 /\ Len(rows) = 0
  BY <1>3, NothingShown
<1>6. Follows /\ Newest /\ Pages /\ History /\ Others
  BY <1>2, <1>3, <1>5 DEF Follows, Newest, Pages, History, Others
<1> QED  BY <1>1, <1>4, <1>6 DEF ShowInv

(* Writers leave all of it true. *)
LEMMA WritersKeepShown ==
    ASSUME ShowInv, WriterStep
    PROVE  ShowInv'
<1>1. VerifyInv /\ VerifyInv' /\ [Next]_vars
  BY VerifyNext DEF ShowInv, WriterStep
<1>2. UNCHANGED <<role, at, rows, metaRead>>
  BY DEF WriterStep
<1>3. /\ AllRows \subseteq AllRows'
      /\ meta.last_seq <= meta'.last_seq
      /\ ArchivedUpTo <= ArchivedUpTo'
      /\ \A r \in events' : r \in events \/ r.seq > meta.last_seq
      /\ segments' = segments => ArchivedUpTo' = ArchivedUpTo
  BY <1>1, WritersOnlyAdd
<1>4. /\ meta.last_seq \in Nat /\ meta'.last_seq \in Nat
      /\ ArchivedUpTo \in Nat /\ ArchivedUpTo' \in Nat
  BY <1>1 DEF VerifyInv, IInv, TypeOK, Split
<1>5. /\ Unrotated' => Unrotated
      /\ at \notin {"start", "done"} /\ Unrotated' => segments' = segments
  BY DEF WriterStep, Unrotated
<1>6. /\ Len(rows) \in Nat /\ LastSeqOf(rows) \in 0 .. meta.last_seq
      /\ DOMAIN rows = 1 .. Len(rows)
  BY <1>1, HeldRows DEF ShowInv, Holds, VerifyInv
<1>7. Holds'
  <2>1. rows' \in Seq(AllRows')
    BY <1>2, <1>3, SeqMonotonic DEF ShowInv, Holds
  <2> QED  BY <1>2, <1>3, <1>4, <2>1 DEF ShowInv, Holds
<1>8. \A n \in Int : Held(n) => Held(n)'
  BY <1>2, <1>3, <1>4 DEF Held, Shown
<1>9. Follows'
  BY <1>2, <1>6, <1>8 DEF ShowInv, Follows, LastSeqOf, Increasing
<1>10. Newest'
  <2>1. TailStart' = TailStart /\ TailStart \in Nat
    BY <1>2, <1>4, PageAssumption DEF TailStart, ShowInv, Holds
  <2> QED  BY <1>2, <1>8, <2>1 DEF ShowInv, Newest, Increasing
<1>11. Pages'
  <2>1. /\ role = "pages" => Increasing(rows) /\ LastSeqOf(rows) <= ArchivedUpTo + Len(rows)
        /\ Increasing(rows)' = Increasing(rows) /\ LastSeqOf(rows)' = LastSeqOf(rows)
        /\ Shown(rows)' = Shown(rows) /\ Len(rows)' = Len(rows)
    BY <1>2 DEF ShowInv, Pages, Increasing, LastSeqOf, Shown
  <2>2. ASSUME role = "pages", at = "done", Unrotated', NEW r \in events'
        PROVE  r.seq \in Shown(rows) \/ r.seq > LastSeqOf(rows)
    <3>1. CASE r \in events
      BY <1>5, <2>2, <3>1 DEF ShowInv, Pages
    <3>2. CASE r.seq > meta.last_seq
      <4>1. r.seq \in Nat
        BY <1>1 DEF VerifyInv, IInv, TypeOK, Row
      <4> QED  BY <1>4, <1>6, <3>2, <4>1
    <3> QED  BY <1>3, <3>1, <3>2
  <2>3. role = "pages" => LastSeqOf(rows) <= ArchivedUpTo' + Len(rows)
    BY <1>3, <1>4, <1>6, <2>1
  <2>4. role = "pages" /\ at = "start" => rows = <<>>
    BY DEF ShowInv, Pages
  <2>5. role = "pages" /\ at = "next" /\ Unrotated' =>
           \A i \in 1 .. Len(rows) : rows[i].seq = ArchivedUpTo' + i
    BY <1>3, <1>5 DEF ShowInv, Pages
  <2> QED  BY <1>2, <2>1, <2>2, <2>3, <2>4, <2>5 DEF Pages
<1>12. History'
  <2>1. role = "history" => /\ at \notin {"rows", "done"} => rows = <<>>
                            /\ at = "rows" => Increasing(rows) /\ LastSeqOf(rows) <= ArchivedUpTo'
    <3>1. role = "history" => /\ at \notin {"rows", "done"} => rows = <<>>
                              /\ at = "rows" => Increasing(rows) /\ LastSeqOf(rows) <= ArchivedUpTo
      BY DEF ShowInv, History
    <3>2. LastSeqOf(rows) <= ArchivedUpTo => LastSeqOf(rows) <= ArchivedUpTo'
      BY <1>3, <1>4, <1>6
    <3> QED  BY <3>1, <3>2
  <2>2. role = "history" /\ at = "rows" /\ Unrotated' =>
           Len(rows) = ArchivedUpTo' /\ Shown(rows) = 1 .. ArchivedUpTo'
    BY <1>3, <1>5 DEF ShowInv, History
  <2>3. role = "history" /\ at = "done" =>
           Cardinality(Shown(rows)) = Len(rows) /\ (Unrotated' => Shown(rows) = 1 .. Len(rows))
    BY <1>5 DEF ShowInv, History
  <2>4. Increasing(rows)' = Increasing(rows) /\ LastSeqOf(rows)' = LastSeqOf(rows)
        /\ Shown(rows)' = Shown(rows) /\ Len(rows)' = Len(rows)
    BY <1>2 DEF Increasing, LastSeqOf, Shown
  <2> QED  BY <1>2, <2>1, <2>2, <2>3, <2>4 DEF History
<1>13. Others'
  BY <1>2 DEF ShowInv, Others, Verifying
<1> QED  BY <1>1, <1>7, <1>9, <1>10, <1>11, <1>12, <1>13 DEF ShowInv

(* ... and so does each statement of a reader. *)
LEMMA PollShows ==
    ASSUME ShowInv, Poll
    PROVE  rows' \in Seq(AllRows) /\ (role = "follow" => Increasing(rows') /\
              \A n \in 1 .. LastSeqOf(rows') : n \in Shown(rows') \/ n <= ArchivedUpTo)
<1>1. IInv /\ rows \in Seq(AllRows) /\ Increasing(rows)
      /\ \A n \in 1 .. LastSeqOf(rows) : Held(n)
  BY DEF ShowInv, VerifyInv, Holds, Follows, Poll
<1> DEFINE m == LastSeqOf(rows)
<1>2. m \in 0 .. meta.last_seq /\ meta.last_seq \in Nat /\ ArchivedUpTo \in Nat
  BY <1>1, HeldRows DEF IInv, TypeOK, Split
<1>3. PICK lo \in Nat, hi \in Nat :
         /\ (m > ArchivedUpTo => lo = m) /\ (~(m > ArchivedUpTo) => lo = ArchivedUpTo)
         /\ lo <= hi /\ hi <= meta.last_seq
         /\ EventAfter(m, MaxSeq) = Rows(lo, hi)
  BY <1>1, <1>2, EventAfterIs, BoundAssumption
<1>4. rows' = rows \o Rows(lo, hi)
  BY <1>3 DEF Poll
<1>5. /\ rows' \in Seq(AllRows) /\ Increasing(rows')
      /\ (~(lo < hi) => LastSeqOf(rows') = m) /\ (lo < hi => LastSeqOf(rows') = hi)
      /\ Shown(rows') = Shown(rows) \cup (lo + 1 .. hi)
  <2>1. /\ rows \o Rows(lo, hi) \in Seq(AllRows) /\ Increasing(rows \o Rows(lo, hi))
        /\ ~(lo < hi) => LastSeqOf(rows \o Rows(lo, hi)) = LastSeqOf(rows)
        /\ lo < hi => LastSeqOf(rows \o Rows(lo, hi)) = hi
    <3>1. LastSeqOf(rows) <= lo
      BY <1>2, <1>3
    <3> HIDE DEF m
    <3> QED  BY <1>1, <1>3, <3>1, Extended
  <2>2. Shown(rows \o Rows(lo, hi)) = Shown(rows) \cup (lo + 1 .. hi)
    BY <1>1, <1>3, ExtendedShown
  <2> QED  BY <1>4, <2>1, <2>2
<1>6. ASSUME NEW n \in 1 .. LastSeqOf(rows')  PROVE n \in Shown(rows') \/ n <= ArchivedUpTo
  <2>1. n <= m \/ n \in lo + 1 .. hi \/ n <= ArchivedUpTo
    BY <1>2, <1>3, <1>5
  <2>2. n <= m => Held(n)
    BY <1>1, <1>2
  <2> QED  BY <1>5, <2>1, <2>2 DEF Held
<1> QED  BY <1>5, <1>6

LEMMA TailShows ==
    ASSUME ShowInv, ReadTail
    PROVE  /\ rows' \in Seq(AllRows) /\ Increasing(rows')
           /\ \A n \in TailStart + 1 .. metaRead.last_seq : n \in Shown(rows') \/ n <= ArchivedUpTo
<1>1. IInv /\ metaRead.last_seq \in 0 .. meta.last_seq
  BY DEF ShowInv, VerifyInv, Holds
<1>2. /\ meta.last_seq \in Nat /\ ArchivedUpTo \in Nat /\ metaRead.last_seq \in Nat
      /\ PageSize \in Nat
  BY <1>1, PageAssumption DEF IInv, TypeOK, Split
<1>3. TailStart \in 0 .. meta.last_seq /\ TailStart + PageSize >= metaRead.last_seq
  BY <1>1, <1>2 DEF TailStart
<1>4. PICK lo \in Nat, hi \in Nat :
         /\ TailStart > ArchivedUpTo => lo = TailStart
         /\ ~(TailStart > ArchivedUpTo) => lo = ArchivedUpTo
         /\ lo <= hi /\ hi <= meta.last_seq
         /\ (hi = lo + PageSize \/ hi = meta.last_seq)
         /\ EventAfter(TailStart, PageSize) = Rows(lo, hi)
  <2> DEFINE m == TailStart
  <2>1. m \in 0 .. meta.last_seq
    BY <1>3
  <2> HIDE DEF m
  <2>2. \E lo \in Nat, hi \in Nat :
           /\ (m > ArchivedUpTo => lo = m) /\ (~(m > ArchivedUpTo) => lo = ArchivedUpTo)
           /\ lo <= hi /\ hi <= meta.last_seq
           /\ (hi = lo + PageSize \/ hi = meta.last_seq)
           /\ EventAfter(m, PageSize) = Rows(lo, hi)
    BY <1>1, <1>2, <2>1, EventAfterIs
  <2> QED  BY <2>2 DEF m
<1>5. rows' = <<>> \o Rows(lo, hi)
  <2>1. Rows(lo, hi) \in Seq(AllRows)
    BY <1>1, <1>4, RowsAre
  <2> QED  BY <1>4, <2>1, ConcatEmptySeq DEF ReadTail
<1>6. /\ rows' \in Seq(AllRows) /\ Increasing(rows')
      /\ Shown(rows') = lo + 1 .. hi
  <2> DEFINE no == <<>>
  <2>1. no \in Seq(AllRows) /\ lo \in Nat /\ hi \in Nat /\ lo <= hi /\ hi <= meta.last_seq
    BY <1>4
  <2>2. Increasing(no) /\ LastSeqOf(no) <= lo /\ Shown(no) = {}
    BY <1>4, NothingShown
  <2> HIDE DEF no
  <2>3. /\ no \o Rows(lo, hi) \in Seq(AllRows) /\ Increasing(no \o Rows(lo, hi))
    BY <1>1, <2>1, <2>2, Extended
  <2>4. Shown(no \o Rows(lo, hi)) = Shown(no) \cup (lo + 1 .. hi)
    BY <1>1, <2>1, ExtendedShown
  <2> QED  BY <1>5, <2>2, <2>3, <2>4 DEF no
<1>7. ASSUME NEW n \in TailStart + 1 .. metaRead.last_seq
      PROVE  n \in lo + 1 .. hi \/ n <= ArchivedUpTo
  BY <1>1, <1>2, <1>3, <1>4
<1> QED  BY <1>6, <1>7

LEMMA PageShows ==
    ASSUME ShowInv, ReadPage, UNCHANGED vars
    PROVE  rows' \in Seq(AllRows) /\ Pages'
<1>1. IInv /\ rows \in Seq(AllRows) /\ role = "pages" /\ Increasing(rows)
      /\ LastSeqOf(rows) <= ArchivedUpTo + Len(rows)
  BY DEF ShowInv, VerifyInv, Holds, Pages, ReadPage
<1> DEFINE n == Len(rows)
           a == ArchivedUpTo
           last == meta.last_seq
<1>2. n \in Nat /\ DOMAIN rows = 1 .. n /\ LastSeqOf(rows) \in 0 .. last /\ a \in Nat /\ last \in Nat
      /\ PageSize \in Nat
  BY <1>1, HeldRows, PageAssumption DEF IInv, TypeOK, Split
<1>3. PICK k \in Nat :
         /\ k <= PageSize
         /\ k > 0 => a + n + k <= last
         /\ k < PageSize => a + n + k >= last
         /\ Page(PageSize, n) = IF k = 0 THEN <<>> ELSE Rows(a + n, a + n + k)
  BY <1>1, <1>2, PageIs
<1> DEFINE t == rows \o Page(PageSize, n)
<1> HIDE DEF n, a, last
<1>4. /\ Len(Page(PageSize, n)) = k
      /\ t \in Seq(AllRows) /\ Len(t) = n + k /\ Increasing(t) /\ LastSeqOf(t) <= a + (n + k)
      /\ Shown(t) = Shown(rows) \cup (a + n + 1 .. a + n + k)
      /\ \A i \in 1 .. n : t[i] = rows[i]
      /\ \A j \in 1 .. k : t[n + j].seq = a + n + j
  <2>1. CASE k = 0
    <3>1. Page(PageSize, n) = <<>> /\ t = rows
      BY <1>1, <1>3, <2>1, ConcatEmptySeq
    <3>2. LastSeqOf(rows) <= a + n
      BY <1>1 DEF n, a
    <3> QED  BY <1>1, <1>2, <2>1, <3>1, <3>2, NothingShown DEF n
  <2>2. CASE k # 0
    <3> DEFINE c == a + n
               d == a + n + k
    <3>1. c \in Nat /\ d \in Nat /\ c <= d /\ d <= meta.last_seq /\ d - c = k /\ c < d
      BY <1>2, <1>3, <2>2 DEF last
    <3>2. Page(PageSize, n) = Rows(c, d) /\ LastSeqOf(rows) <= c
      BY <1>1, <1>3, <2>2 DEF n, a
    <3> HIDE DEF c, d
    <3>3. Len(Rows(c, d)) = k
      BY <1>1, <3>1, RowsAre
    <3>4. /\ t \in Seq(AllRows) /\ Len(t) = n + (d - c) /\ Increasing(t) /\ LastSeqOf(t) = d
          /\ Shown(t) = Shown(rows) \cup (c + 1 .. d)
          /\ \A i \in 1 .. n : t[i] = rows[i]
          /\ \A j \in 1 .. d - c : t[n + j].seq = c + j
      <4>1. /\ rows \o Rows(c, d) \in Seq(AllRows)
            /\ Len(rows \o Rows(c, d)) = Len(rows) + (d - c)
            /\ Increasing(rows \o Rows(c, d)) /\ LastSeqOf(rows \o Rows(c, d)) = d
            /\ \A i \in 1 .. Len(rows) : (rows \o Rows(c, d))[i] = rows[i]
            /\ \A j \in 1 .. d - c : (rows \o Rows(c, d))[Len(rows) + j].seq = c + j
        BY <1>1, <3>1, <3>2, Extended, ZenonT(40)
      <4>2. Shown(rows \o Rows(c, d)) = Shown(rows) \cup (c + 1 .. d)
        BY <1>1, <3>1, <3>2, ExtendedShown
      <4> QED  BY <3>2, <4>1, <4>2 DEF n
    <3> HIDE DEF t
    <3> QED  BY <1>2, <3>1, <3>2, <3>3, <3>4 DEF c, d
  <2> QED  BY <2>1, <2>2
<1>5. /\ rows' = t /\ at' = IF k < PageSize THEN "done" ELSE "next"
      /\ since' = since /\ at \in {"start", "next"} /\ role' = role
      /\ ArchivedUpTo' = a /\ events' = events
  BY <1>4 DEF ReadPage, n, vars, ArchivedUpTo, a
<1> HIDE DEF t
<1>6. ASSUME Unrotated, NEW i \in 1 .. n  PROVE rows[i].seq = a + i
  <2>1. CASE at = "start"
    BY <1>1, <1>2, <2>1, NothingShown DEF ShowInv, Pages, n
  <2>2. CASE at = "next"
    BY <1>1, <1>6, <2>2 DEF ShowInv, Pages, n, a
  <2> QED  BY <1>5, <2>1, <2>2
<1>7. ASSUME Unrotated, NEW i \in 1 .. n + k  PROVE t[i].seq = a + i
  <2>1. CASE i \in 1 .. n
    <3>1. t[i] = rows[i]
      BY <1>4, <2>1
    <3>2. rows[i].seq = a + i
      BY <1>6, <1>7, <2>1
    <3> QED  BY <3>1, <3>2
  <2>2. CASE i \notin 1 .. n
    <3>1. i - n \in 1 .. k /\ n + (i - n) = i /\ a + n + (i - n) = a + i
      BY <1>2, <2>2
    <3> QED  BY <1>4, <3>1
  <2> QED  BY <2>1, <2>2
<1>8. ASSUME Unrotated, k < PageSize, NEW r \in events  PROVE r.seq \in Shown(t)
  <2>1. r.seq \in a + 1 .. last
    BY <1>1, ActiveRowsAre DEF a, last
  <2>2. r.seq - a \in 1 .. n + k /\ a + (r.seq - a) = r.seq
    <3>1. a + n + k >= last /\ r.seq \in Nat
      BY <1>2, <1>3, <1>8, <2>1
    <3> QED  BY <1>2, <2>1, <3>1
  <2>3. t[r.seq - a].seq = r.seq /\ r.seq - a \in DOMAIN t
    BY <1>4, <1>7, <1>8, <2>2
  <2> QED  BY <2>3 DEF Shown
<1>9. rows' \in Seq(AllRows) /\ Increasing(rows') /\ LastSeqOf(rows') <= a + Len(rows')
      /\ Len(rows') = n + k
  BY <1>4, <1>5
<1>10. at' # "start" /\ (at' = "done" => k < PageSize) /\ (Unrotated' <=> Unrotated)
  BY <1>5 DEF Unrotated
<1>11. at' = "next" /\ Unrotated => \A i \in 1 .. Len(rows') : rows'[i].seq = a + i
  BY <1>5, <1>7, <1>9
<1>12. at' = "done" /\ Unrotated => \A r \in events : r.seq \in Shown(rows')
  BY <1>5, <1>8, <1>10
<1> QED  BY <1>5, <1>9, <1>10, <1>11, <1>12 DEF Pages, Increasing, LastSeqOf, Shown

LEMMA HistoryShows ==
    ASSUME ShowInv, ReadOldHistory \/ ReadNewHistory, UNCHANGED vars
    PROVE  rows' \in Seq(AllRows) /\ History'
<1>1. VerifyInv /\ IInv /\ rows \in Seq(AllRows) /\ role = "history" /\ role' = role
      /\ since' = since /\ ArchivedUpTo' = ArchivedUpTo
  BY DEF ShowInv, VerifyInv, Holds, ReadOldHistory, ReadNewHistory, vars, ArchivedUpTo
<1> DEFINE a == ArchivedUpTo
           last == meta.last_seq
<1>2. a \in Nat /\ last \in Nat /\ a <= last
  BY <1>1 DEF IInv, TypeOK, Split
<1>3. CASE ReadOldHistory
  <2>1. rows' = <<>> \o Rows(0, a) /\ at' = "rows"
    <3>1. Rows(0, a) \in Seq(AllRows)
      BY <1>1, <1>2, RowsAre
    <3> QED  BY <1>1, <1>3, <3>1, ConcatEmptySeq, ArchivedRowsAre DEF ReadOldHistory, At
  <2>2. /\ rows' \in Seq(AllRows) /\ Len(rows') = a /\ Increasing(rows')
        /\ LastSeqOf(rows') <= a /\ Shown(rows') = 1 .. a
    <3> DEFINE no == <<>>
               z  == 0
    <3>1. z \in Nat /\ a \in Nat /\ z <= a /\ a <= meta.last_seq /\ no \in Seq(AllRows)
      BY <1>2
    <3>2. Increasing(no) /\ LastSeqOf(no) <= z
      BY NothingShown
    <3>3. a - z = a /\ z + 1 = 1 /\ Len(no) = 0 /\ LastSeqOf(no) = 0 /\ Shown(no) = {}
      BY <1>2, NothingShown
    <3>4. rows' = no \o Rows(z, a)
      BY <2>1
    <3> HIDE DEF a, no, z
    <3>5. /\ no \o Rows(z, a) \in Seq(AllRows) /\ Len(no \o Rows(z, a)) = Len(no) + (a - z)
          /\ ~(z < a) => LastSeqOf(no \o Rows(z, a)) = LastSeqOf(no)
          /\ z < a => LastSeqOf(no \o Rows(z, a)) = a
          /\ Increasing(no \o Rows(z, a))
      BY <1>1, <3>1, <3>2, Extended
    <3>6. Shown(no \o Rows(z, a)) = Shown(no) \cup (z + 1 .. a)
      BY <1>1, <3>1, ExtendedShown
    <3> QED  BY <1>2, <3>1, <3>2, <3>4, <3>5, <3>6, <3>3
  <2> QED  BY <1>1, <2>1, <2>2 DEF History, Increasing, LastSeqOf, Shown
<1>4. CASE ReadNewHistory
  <2> DEFINE s == rows \o BySeq(events)
             n == Len(rows)
  <2>1. at = "rows" /\ at' = "done" /\ rows' = Sorted(s)
    BY <1>4 DEF ReadNewHistory, At
  <2>2. /\ Increasing(rows) /\ LastSeqOf(rows) <= a
        /\ Unrotated => Len(rows) = a /\ Shown(rows) = 1 .. a
    BY <1>1, <2>1 DEF ShowInv, History
  <2>3. /\ s \in Seq(AllRows) /\ Increasing(s) /\ Len(s) = n + (last - a)
        /\ Shown(s) = Shown(rows) \cup (a + 1 .. last)
    <3>1. BySeq(events) = Rows(a, last) /\ last <= meta.last_seq
      BY <1>1, <1>2, ActiveRowsAre
    <3> HIDE DEF a, last
    <3>2. /\ rows \o Rows(a, last) \in Seq(AllRows) /\ Increasing(rows \o Rows(a, last))
          /\ Len(rows \o Rows(a, last)) = Len(rows) + (last - a)
      BY <1>1, <1>2, <2>2, <3>1, Extended
    <3>3. Shown(rows \o Rows(a, last)) = Shown(rows) \cup (a + 1 .. last)
      BY <1>1, <1>2, <2>2, <3>1, ExtendedShown
    <3> QED  BY <3>1, <3>2, <3>3
  <2> HIDE DEF s
  <2>4. rows' \in Seq(AllRows) /\ Len(rows') = Len(s) /\ Shown(rows') = Shown(s)
    BY <1>1, <2>1, <2>3, SortedIs
  <2>5. Cardinality(Shown(rows')) = Len(rows')
    BY <1>1, <2>3, <2>4, IncreasingShownOnce
  <2>6. Unrotated => Shown(rows') = 1 .. Len(rows')
    <3> SUFFICES ASSUME Unrotated  PROVE Shown(rows') = 1 .. Len(rows')
      OBVIOUS
    <3>1. Len(rows') = last
      BY <1>2, <2>2, <2>3, <2>4
    <3>2. (1 .. a) \cup (a + 1 .. last) = 1 .. last
      BY <1>2
    <3> QED  BY <2>2, <2>3, <2>4, <3>1, <3>2
  <2>7. Unrotated' <=> Unrotated
    BY <1>1 DEF Unrotated
  <2> QED  BY <1>1, <2>1, <2>4, <2>5, <2>6, <2>7 DEF History, Shown
<1> QED  BY <1>3, <1>4
LEMMA ReadersKeepShown ==
    ASSUME ShowInv, ReaderStep, UNCHANGED vars
    PROVE  ShowInv'
<1>1. VerifyInv /\ IInv /\ rows \in Seq(AllRows) /\ metaRead.last_seq \in 0 .. meta.last_seq
  BY DEF ShowInv, VerifyInv, Holds
<1>2. /\ meta.last_seq \in Nat /\ ArchivedUpTo \in Nat /\ ArchivedUpTo <= meta.last_seq
  BY <1>1 DEF IInv, TypeOK, Split
<1>3. VerifyInv'
  BY <1>1, VerifyNext
<1>4. /\ AllRows' = AllRows /\ ArchivedUpTo' = ArchivedUpTo /\ meta' = meta
      /\ events' = events
  BY DEF vars, AllRows, ArchivedUpTo, ArchivedRows
<1>5. role' = role
  BY DEF ReaderStep, LoadSealer, ReadArchives, ReadActive, ReadMeta, ReadSegments,
         WalkAndReadSegments, ReadFirstActive, ReadHeadLast, Poll, ReadLastSeq, ReadTail,
         ReadPage, ReadOldHistory, ReadNewHistory
<1>6. CASE Verifying
  <2>1. role \notin {"follow", "newest", "pages", "history"}
    BY <1>6 DEF Verifying
  <2>2. rows' \in Seq(AllRows) /\ metaRead'.last_seq \in 0 .. meta.last_seq
    <3>1. CASE ReadArchives
      <4>1. Rows(0, ArchivedUpTo) \in Seq(AllRows)
        BY <1>1, <1>2, RowsAre
      <4> QED  BY <1>1, <3>1, <4>1, ArchivedRowsAre DEF ReadArchives
    <3>2. CASE ReadActive
      <4>1. BySeq(events) \in Seq(AllRows)
        <5> DEFINE a    == ArchivedUpTo
                   last == meta.last_seq
        <5>1. BySeq(events) = Rows(a, last)
          BY <1>1, ActiveRowsAre
        <5>2. a \in Nat /\ last \in Nat /\ a <= last /\ last <= meta.last_seq
          BY <1>2
        <5> HIDE DEF a, last
        <5> QED  BY <1>1, <5>1, <5>2, RowsAre
      <4>2. rows \o BySeq(events) \in Seq(AllRows)
        BY <1>1, <4>1
      <4> QED  BY <1>1, <3>2, <4>2 DEF ReadActive
    <3>3. CASE ReadMeta
      BY <1>1, <1>2, <3>3 DEF ReadMeta
    <3>4. CASE LoadSealer \/ ReadSegments \/ WalkAndReadSegments \/ ReadFirstActive \/ ReadHeadLast
      BY <1>1, <3>4 DEF LoadSealer, ReadSegments, WalkAndReadSegments, ReadFirstActive, ReadHeadLast
    <3> QED  BY <2>1, <3>1, <3>2, <3>3, <3>4
             DEF ReaderStep, Poll, ReadLastSeq, ReadTail, ReadPage, ReadOldHistory, ReadNewHistory
  <2> QED  BY <1>3, <1>4, <1>5, <1>6, <2>1, <2>2
           DEF ShowInv, Holds, Follows, Newest, Pages, History, Others, Verifying
<1>7. CASE Poll
  <2>1. rows' \in Seq(AllRows) /\ (role = "follow" => Increasing(rows') /\
              \A n \in 1 .. LastSeqOf(rows') : n \in Shown(rows') \/ n <= ArchivedUpTo)
    BY <1>7, PollShows
  <2>2. role = "follow" /\ metaRead' = metaRead
    BY <1>7 DEF Poll
  <2> QED  BY <1>1, <1>3, <1>4, <1>5, <2>1, <2>2
           DEF ShowInv, Holds, Follows, Newest, Pages, History, Others, Held, Increasing, Shown,
               LastSeqOf
<1>8. CASE ReadLastSeq
  <2>1. role = "newest" /\ at = "start" /\ at' = "rows" /\ metaRead' = meta /\ rows' = rows
    BY <1>8 DEF ReadLastSeq, At
  <2>2. rows = <<>>
    BY <2>1 DEF ShowInv, Newest
  <2> QED  BY <1>1, <1>2, <1>3, <1>4, <1>5, <2>1, <2>2
           DEF ShowInv, Holds, Follows, Newest, Pages, History, Others
<1>9. CASE ReadTail
  <2>1. /\ rows' \in Seq(AllRows) /\ Increasing(rows')
        /\ \A n \in TailStart + 1 .. metaRead.last_seq : n \in Shown(rows') \/ n <= ArchivedUpTo
    BY <1>9, TailShows
  <2>2. role = "newest" /\ at' = "done" /\ metaRead' = metaRead /\ TailStart' = TailStart
    BY <1>9 DEF ReadTail, At, TailStart
  <2> QED  BY <1>1, <1>3, <1>4, <1>5, <2>1, <2>2
           DEF ShowInv, Holds, Follows, Newest, Pages, History, Others, Held, Increasing, Shown
<1>10. CASE ReadPage
  <2>1. rows' \in Seq(AllRows) /\ Pages'
    BY <1>10, PageShows
  <2>2. role = "pages" /\ metaRead' = metaRead
    BY <1>10 DEF ReadPage
  <2> QED  BY <1>1, <1>3, <1>4, <1>5, <2>1, <2>2, SMTT(20)
           DEF ShowInv, Holds, Follows, Newest, History, Others
<1>11. CASE ReadOldHistory \/ ReadNewHistory
  <2>1. rows' \in Seq(AllRows) /\ History'
    BY <1>11, HistoryShows
  <2>2. role = "history" /\ metaRead' = metaRead
    BY <1>11 DEF ReadOldHistory, ReadNewHistory
  <2> QED  BY <1>1, <1>3, <1>4, <1>5, <2>1, <2>2
           DEF ShowInv, Holds, Follows, Newest, Pages, Others
<1> QED  BY <1>6, <1>7, <1>8, <1>9, <1>10, <1>11
         DEF ReaderStep, LoadSealer, ReadArchives, ReadActive, ReadMeta, ReadSegments,
             WalkAndReadSegments, ReadFirstActive, ReadHeadLast

LEMMA ShowNext == ShowInv /\ [ReadersNext]_everything => ShowInv'
<1> SUFFICES ASSUME ShowInv, [ReadersNext]_everything  PROVE ShowInv'
  OBVIOUS
<1>1. CASE ReaderStep /\ UNCHANGED vars
  BY <1>1, ReadersKeepShown
<1>2. CASE WriterStep
  BY <1>2, WritersKeepShown
<1>3. CASE UNCHANGED everything
  <2>1. UNCHANGED vars
    BY <1>3 DEF everything, vars
  <2>2. VerifyInv'
    BY <2>1, VerifyNext DEF ShowInv
  <2>3. UNCHANGED <<events, segments, archives, meta, role, at, rows, metaRead, since>>
    BY <1>3 DEF everything, vars, shared
  <2>4. AllRows' = AllRows /\ ArchivedUpTo' = ArchivedUpTo
    BY <2>3 DEF AllRows, ArchivedRows, ArchivedUpTo
  <2>5. Holds' /\ Follows' /\ Newest'
    BY <2>3, <2>4 DEF ShowInv, Holds, Follows, Newest, Held, Shown, Increasing, LastSeqOf, TailStart
  <2>6. Pages' /\ History' /\ Others'
    BY <2>3, <2>4 DEF ShowInv, Pages, History, Others, Unrotated, Verifying, Shown, Increasing,
       LastSeqOf
  <2> QED  BY <2>2, <2>5, <2>6 DEF ShowInv
<1> QED  BY <1>1, <1>2, <1>3 DEF ReadersNext

THEOREM ShowInvariance == ReadersSpec => []ShowInv
<1> QED  BY ShowInit, ShowNext, PTL DEF ReadersSpec

(* What the invariant says of the rows, against what is in the archives.    *)
LEMMA ShownAll == ShowInv => ReadersMissNothing
<1> SUFFICES ASSUME ShowInv  PROVE ReadersMissNothing
  OBVIOUS
<1> DEFINE shown    == {rows[i].seq : i \in DOMAIN rows}
           archived == {r.seq : r \in ArchivedRows}
<1>1. VerifyInv /\ IInv /\ rows \in Seq(AllRows) /\ metaRead.last_seq \in 0 .. meta.last_seq
  BY DEF ShowInv, VerifyInv, Holds
<1>2. /\ meta.last_seq \in Nat /\ ArchivedUpTo \in Nat
      /\ LastSeqOf(rows) \in Nat /\ LastSeqOf(rows) <= meta.last_seq
  BY <1>1, HeldRows DEF IInv, TypeOK, Split
<1>3. shown = Shown(rows)
  BY DEF Shown
<1>4. ASSUME NEW n \in Nat, n # 0, Held(n)  PROVE n \in shown \cup archived
  <2>1. n <= ArchivedUpTo => n \in archived
    BY <1>1, <1>2, <1>4, ArchivedSeqs
  <2> QED  BY <1>3, <1>4, <2>1 DEF Held
<1> HIDE DEF shown, archived
<1>5. ~Verifying => Cardinality(shown) = Len(rows)
  <2> SUFFICES ASSUME ~Verifying  PROVE Cardinality(Shown(rows)) = Len(rows)
    BY <1>3
  <2>1. CASE Increasing(rows)
    BY <1>1, <2>1, IncreasingShownOnce
  <2>2. CASE role = "history" /\ at = "done"
    BY <2>2 DEF ShowInv, History
  <2>3. Increasing(<<>>)
    BY NothingShown
  <2> QED  BY <2>1, <2>2, <2>3 DEF ShowInv, Follows, Newest, Pages, History, Others
<1>6. role = "follow" => 1 .. LastSeqOf(rows) \subseteq shown \cup archived
  BY <1>2, <1>4 DEF ShowInv, Follows
<1>7. role = "newest" /\ at = "done" =>
         (TailStart + 1) .. metaRead.last_seq \subseteq shown \cup archived
  <2>1. TailStart \in Nat
    BY <1>1, <1>2, PageAssumption DEF TailStart
  <2> QED  BY <1>1, <1>2, <1>4, <2>1 DEF ShowInv, Newest
<1>8. role = "pages" /\ at = "done" /\ "rotation" \notin since =>
         {r.seq : r \in events} \ shown \subseteq (LastSeqOf(rows) + 1) .. meta.last_seq
  <2> SUFFICES ASSUME role = "pages", at = "done", Unrotated, NEW r \in events, r.seq \notin shown
               PROVE  r.seq \in LastSeqOf(rows) + 1 .. meta.last_seq
    BY DEF Unrotated
  <2>1. r.seq > LastSeqOf(rows)
    BY <1>3 DEF ShowInv, Pages
  <2>2. r.seq \in Nat /\ r.seq <= meta.last_seq
    BY <1>1 DEF IInv, TypeOK, Row, ChainIntact, AllRows
  <2> QED  BY <1>2, <2>1, <2>2
<1>9. role = "history" /\ at = "done" /\ "rotation" \notin since => shown = 1 .. Len(rows)
  BY <1>3 DEF ShowInv, History, Unrotated
<1> QED  BY <1>5, <1>6, <1>7, <1>8, <1>9 DEF ReadersMissNothing, shown, archived

(* No reader misses a row that was there to be read, or shows one twice,    *)
(* whatever any number of writers do between its statements, crash, rotate  *)
(* or restart.                                                              *)
THEOREM NothingMissed == ReadersSpec => []ReadersMissNothing
<1> QED  BY ShowInvariance, ShownAll, PTL


-------------------------------------------------------------------------------
(* ------------------------------- psy verify ------------------------------ *)

WalkFrom == IF All THEN 0 ELSE ArchivedUpTo
Walked   == at \in {"meta", "segments", "walk", "continuity", "head"}

NoDamage == PairCodes \cup SealCodes \cup MetaCodes
                \cup {"seal_key_unavailable", "seal_missing_required"}

(* What verifyStore has gathered: unless a rotation came between, a run of  *)
(* consecutive rows, and the segments as they are.                          *)
Gathers == Verifying =>
    /\ at = "archives" => All
    /\ at \in {"start", "archives"} \/ (at = "active" /\ ~All) => rows = <<>>
    /\ at = "active" /\ All /\ Unrotated => rows = Rows(0, ArchivedUpTo)
    /\ Walked /\ Unrotated => /\ rows = Rows(WalkFrom, WalkFrom + Len(rows))
                              /\ WalkFrom + Len(rows) <= meta.last_seq
    /\ Walked /\ since = {} => WalkFrom + Len(rows) = meta.last_seq
    /\ at \in {"segments", "walk"} /\ since = {} => metaRead = meta
    /\ (at = "walk" /\ ~All) \/ at = "continuity" => (Unrotated => segsRead = segments)

(* ... and what it has reported of them. *)
Spares == Verifying =>
    /\ at = "start" => issues = {}
    /\ Unrotated => issues \subseteq NoDamage

Tells == Verifying =>
    /\ All /\ at \in {"continuity", "head", "done"} =>
          ChainIssues(rows, Genesis, metaRead) \cup PairIssues(rows) \subseteq issues
    /\ ~keyed /\ SealRequired => at # "start" /\ issues # {}

AlarmInv == ShowInv /\ Gathers /\ Spares /\ Tells

LEMMA AlarmInit == ReaderInit => AlarmInv
<1> SUFFICES ASSUME ReaderInit  PROVE AlarmInv
  OBVIOUS
<1>1. at = "start" /\ rows = <<>> /\ issues = {} /\ keyed = TRUE
  BY DEF ReaderInit
<1> QED  BY <1>1, ShowInit DEF AlarmInv, Gathers, Spares, Tells, Walked

(* A writer's step leaves the rows that were read as they are. *)
LEMMA WritersKeepGathered ==
    ASSUME AlarmInv, WriterStep
    PROVE  Gathers' /\ Spares' /\ Tells'
<1>1. VerifyInv /\ VerifyInv' /\ [Next]_vars /\ IInv
  BY VerifyNext DEF AlarmInv, ShowInv, WriterStep, VerifyInv
<1>2. UNCHANGED <<role, at, keyed, rows, metaRead, segsRead, issues>>
  BY DEF WriterStep
<1>3. /\ meta.last_seq <= meta'.last_seq
      /\ \A n \in 1 .. meta.last_seq : RowIn(AllRows', n) = RowIn(AllRows, n)
      /\ segments' = segments => ArchivedUpTo' = ArchivedUpTo
  BY <1>1, WritersOnlyAdd
<1>4. /\ Unrotated' => Unrotated
      /\ at \notin {"start", "done"} /\ Unrotated' => segments' = segments
      /\ at \notin {"start", "done"} /\ since' = {} => since = {} /\ meta' = meta
      /\ since' = {} => Unrotated'
  BY DEF WriterStep, Unrotated
<1>5. /\ meta.last_seq \in Nat /\ meta'.last_seq \in Nat /\ WalkFrom \in Nat
      /\ ArchivedUpTo \in 0 .. meta.last_seq /\ Len(rows) \in Nat
  BY <1>1 DEF AlarmInv, ShowInv, Holds, VerifyInv, IInv, TypeOK, Split, WalkFrom
<1>6. Spares' /\ Tells'
  BY <1>2, <1>4 DEF AlarmInv, Spares, Tells, Verifying, All
<1>7. ASSUME NEW a \in Nat, NEW b \in Nat, b <= meta.last_seq
      PROVE  Rows(a, b) = [j \in 1 .. b - a |-> RowIn(AllRows', a + j)]
  <2>1. \A j \in 1 .. b - a : a + j \in 1 .. meta.last_seq
    BY <1>5, <1>7
  <2> QED  BY <1>3, <2>1 DEF Rows
<1>8. ASSUME Verifying, at = "active", All, Unrotated'
      PROVE  rows = [j \in 1 .. ArchivedUpTo' - 0 |-> RowIn(AllRows', 0 + j)]
  <2>1. rows = Rows(0, ArchivedUpTo) /\ ArchivedUpTo' = ArchivedUpTo
    BY <1>3, <1>4, <1>8 DEF AlarmInv, Gathers
  <2> QED  BY <1>5, <1>7, <2>1
<1>9. ASSUME Verifying, Walked, Unrotated'
      PROVE  /\ rows = [j \in 1 .. (WalkFrom' + Len(rows)) - WalkFrom' |->
                          RowIn(AllRows', WalkFrom' + j)]
             /\ WalkFrom' + Len(rows) <= meta'.last_seq
             /\ since' = {} => WalkFrom' + Len(rows) = meta'.last_seq
  <2> DEFINE a == WalkFrom
             b == WalkFrom + Len(rows)
  <2>1. at \notin {"start", "done"}
    BY <1>9 DEF Walked
  <2>2. rows = Rows(a, b) /\ b <= meta.last_seq /\ WalkFrom' = WalkFrom
    BY <1>2, <1>3, <1>4, <1>9, <2>1 DEF AlarmInv, Gathers, WalkFrom, All
  <2>3. a \in Nat /\ b \in Nat
    BY <1>5
  <2>4. since' = {} => b = meta.last_seq /\ meta' = meta
    BY <1>4, <1>9, <2>1 DEF AlarmInv, Gathers
  <2>5. rows = [j \in 1 .. b - a |-> RowIn(AllRows', a + j)]
    <3> HIDE DEF a, b
    <3> QED  BY <1>7, <2>2, <2>3
  <2> QED  BY <1>3, <1>5, <2>2, <2>3, <2>4, <2>5
<1>10. ASSUME Verifying
       PROVE  /\ at \in {"segments", "walk"} /\ since' = {} => metaRead = meta'
              /\ (at = "walk" /\ ~All) \/ at = "continuity" => (Unrotated' => segsRead = segments')
  BY <1>4, <1>10 DEF AlarmInv, Gathers
<1>11. ASSUME Verifying
       PROVE  /\ at = "archives" => All
              /\ at \in {"start", "archives"} \/ (at = "active" /\ ~All) => rows = <<>>
  BY <1>11 DEF AlarmInv, Gathers
<1>12. Verifying' = Verifying /\ All' = All /\ Walked' = Walked
  BY <1>2 DEF Verifying, All, Walked
<1>13. Gathers'
  BY <1>2, <1>4, <1>8, <1>9, <1>10, <1>11, <1>12 DEF Gathers, Rows
<1> QED  BY <1>6, <1>13

(* The walk of verifyStore over what it has gathered. *)
LEMMA WalkFinds ==
    ASSUME AlarmInv, Verifying, at = "walk", Unrotated
    PROVE  LET found == ChainIssues(rows, WalkStart(All, segsRead), metaRead) IN
           found \subseteq MetaCodes /\ (since = {} => found = {})
<1> DEFINE a == WalkFrom
           b == WalkFrom + Len(rows)
           C == ChainIssues(Rows(a, b), RefTo(a), metaRead)
<1>1. VerifyInv /\ IInv
  BY DEF AlarmInv, ShowInv, VerifyInv
<1>2. /\ rows = Rows(a, b) /\ b <= meta.last_seq /\ (~All => segsRead = segments)
      /\ since = {} => b = meta.last_seq /\ metaRead = meta
  BY DEF AlarmInv, Gathers, Walked
<1>3. a \in Nat /\ b \in Nat /\ a <= b
  BY <1>1 DEF AlarmInv, ShowInv, Holds, VerifyInv, IInv, TypeOK, Split, WalkFrom
<1>4. WalkStart(All, segsRead) = RefTo(a)
  <2>1. CASE All
    BY <2>1 DEF WalkStart, RefTo, WalkFrom
  <2>2. CASE ~All
    <3>1. WalkStart(FALSE, segments) = RefTo(ArchivedUpTo)
      BY <1>1, WalkedRowsAre
    <3> QED  BY <1>2, <2>2, <3>1 DEF WalkFrom, WalkStart
  <2> QED  BY <2>1, <2>2
<1>5. since = {} => metaRead.chain_head_hash = RefTo(b) /\ metaRead.last_seq = b
  BY <1>1, <1>2, RefToHead
<1>6. /\ C \subseteq {"meta_head_mismatch", "meta_seq_mismatch"}
      /\ metaRead.chain_head_hash = RefTo(b) => "meta_head_mismatch" \notin C
      /\ metaRead.last_seq = b => "meta_seq_mismatch" \notin C
  <2> HIDE DEF a, b
  <2> QED  BY <1>1, <1>2, <1>3, WalkIssues
<1> HIDE DEF C
<1>7. C \subseteq MetaCodes /\ (since = {} => C = {})
  BY <1>5, <1>6 DEF MetaCodes
<1> QED  BY <1>2, <1>4, <1>7 DEF C


LEMMA ReadersKeepGathered ==
    ASSUME AlarmInv, ReaderStep, UNCHANGED vars
    PROVE  Gathers' /\ Spares' /\ Tells'
<1>1. VerifyInv /\ IInv
  BY DEF AlarmInv, ShowInv, VerifyInv
<1>2. /\ AllRows' = AllRows /\ ArchivedUpTo' = ArchivedUpTo /\ meta' = meta /\ head' = head
      /\ events' = events /\ segments' = segments
  BY DEF vars, AllRows, ArchivedUpTo, ArchivedRows
<1>3. role' = role /\ Verifying' = Verifying /\ All' = All /\ WalkFrom' = WalkFrom
      /\ (All => Verifying)
  BY <1>2 DEF ReaderStep, LoadSealer, ReadArchives, ReadActive, ReadMeta, ReadSegments,
         WalkAndReadSegments, ReadFirstActive, ReadHeadLast, Poll, ReadLastSeq, ReadTail,
         ReadPage, ReadOldHistory, ReadNewHistory, Verifying, All, WalkFrom
<1>4. /\ meta.last_seq \in Nat /\ ArchivedUpTo \in Nat /\ ArchivedUpTo <= meta.last_seq
      /\ since = {} => Unrotated
  BY <1>1 DEF IInv, TypeOK, Split, Unrotated
<1>5. CASE ~Verifying
  BY <1>3, <1>5 DEF Gathers, Spares, Tells
<1>6. ASSUME Verifying  PROVE ~Poll /\ ~ReadLastSeq /\ ~ReadTail /\ ~ReadPage
                              /\ ~ReadOldHistory /\ ~ReadNewHistory
  BY <1>6 DEF Verifying, Poll, ReadLastSeq, ReadTail, ReadPage, ReadOldHistory, ReadNewHistory
<1>7. CASE Verifying
  <2>1. CASE LoadSealer
    <3>1. /\ at = "start" /\ at' = (IF All THEN "archives" ELSE "active") /\ rows' = rows
          /\ issues' = SealPolicy(keyed') /\ keyed' \in BOOLEAN
      BY <2>1 DEF LoadSealer, At
    <3>2. rows = <<>>
      BY <1>7, <3>1 DEF AlarmInv, Gathers
    <3>3. SealPolicy(keyed') \subseteq NoDamage
          /\ (~keyed' /\ SealRequired => SealPolicy(keyed') # {})
      <4> DEFINE k == keyed'
      <4> HIDE DEF k
      <4>1. SealPolicy(k) \subseteq NoDamage
        BY DEF SealPolicy, NoDamage
      <4>2. ~k /\ SealRequired => \E c \in SealPolicy(k) : TRUE
        BY DEF SealPolicy
      <4> QED  BY <4>1, <4>2 DEF k
    <3> QED  BY <1>3, <1>7, <3>1, <3>2, <3>3 DEF Gathers, Spares, Tells, Walked
  <2>2. CASE ReadArchives
    <3>1. at = "archives" /\ at' = "active" /\ rows' = ArchivedEvents
          /\ UNCHANGED <<keyed, issues, since>>
      BY <2>2 DEF ReadArchives, At
    <3>2. All /\ rows' = Rows(0, ArchivedUpTo)
      BY <1>1, <1>7, <3>1, ArchivedRowsAre DEF AlarmInv, Gathers
    <3>3. Gathers'
      BY <1>2, <1>3, <3>1, <3>2 DEF Gathers, Walked, Rows
    <3> QED  BY <1>3, <1>7, <3>1, <3>3 DEF AlarmInv, Spares, Tells, Unrotated
  <2>3. CASE ReadActive
    <3>1. at = "active" /\ at' = "meta" /\ rows' = rows \o BySeq(events)
          /\ UNCHANGED <<keyed, issues, since>>
      BY <2>3 DEF ReadActive, At
    <3> DEFINE last == meta.last_seq
    <3>2. BySeq(events) = Rows(ArchivedUpTo, last)
      BY <1>1, ActiveRowsAre
    <3>3. ASSUME Unrotated  PROVE rows' = Rows(WalkFrom, last)
      <4>1. CASE All
        <5>1. rows = Rows(0, ArchivedUpTo)
          BY <1>7, <3>1, <3>3, <4>1 DEF AlarmInv, Gathers
        <5>2. Rows(0, ArchivedUpTo) \o Rows(ArchivedUpTo, last) = Rows(0, last)
          BY <1>4, JoinedRows
        <5> QED  BY <3>1, <3>2, <4>1, <5>1, <5>2 DEF WalkFrom
      <4>2. CASE ~All
        <5>1. rows = <<>>
          BY <1>7, <3>1, <4>2 DEF AlarmInv, Gathers
        <5>2. Rows(ArchivedUpTo, last) \in Seq(AllRows)
          <6> DEFINE a == ArchivedUpTo
          <6>1. a \in Nat /\ last \in Nat /\ a <= last /\ last <= meta.last_seq
            BY <1>4
          <6> HIDE DEF a, last
          <6>2. Rows(a, last) \in Seq(AllRows)
            BY <1>1, <6>1, RowsAre
          <6> QED  BY <6>2 DEF a
        <5> QED  BY <3>1, <3>2, <4>2, <5>1, <5>2, ConcatEmptySeq DEF WalkFrom
      <4> QED  BY <4>1, <4>2
    <3>4. ASSUME Unrotated  PROVE WalkFrom + Len(rows') = last
      <4> DEFINE a == WalkFrom
      <4>1. a \in Nat /\ last \in Nat /\ a <= last /\ last <= meta.last_seq
        BY <1>4 DEF WalkFrom
      <4> HIDE DEF a, last
      <4>2. Len(Rows(a, last)) = last - a
        BY <1>1, <4>1, RowsAre
      <4> QED  BY <3>3, <3>4, <4>1, <4>2 DEF a
    <3>5. Unrotated' = Unrotated /\ Walked'
      BY <3>1 DEF Unrotated, Walked
    <3>6. Gathers'
      BY <1>2, <1>3, <1>4, <3>1, <3>3, <3>4, <3>5 DEF Gathers, Rows
    <3> QED  BY <1>3, <1>7, <3>1, <3>6 DEF AlarmInv, Spares, Tells, Unrotated
  <2>4. CASE ReadMeta \/ ReadSegments
    <3>1. /\ UNCHANGED <<keyed, rows, issues, since>>
          /\ \/ at = "meta" /\ at' = (IF All THEN "walk" ELSE "segments") /\ metaRead' = meta
             \/ at = "segments" /\ at' = "walk" /\ segsRead' = segments /\ metaRead' = metaRead
      BY <2>4 DEF ReadMeta, ReadSegments, At
    <3>2. Unrotated' = Unrotated /\ Walked' /\ Walked /\ at' # "continuity"
      BY <3>1 DEF Unrotated, Walked
    <3>3. Gathers'
      BY <1>2, <1>3, <1>7, <3>1, <3>2 DEF AlarmInv, Gathers, Rows
    <3> QED  BY <1>3, <1>7, <3>1, <3>2, <3>3 DEF AlarmInv, Spares, Tells
  <2>5. CASE WalkAndReadSegments
    <3> DEFINE C == ChainIssues(rows, WalkStart(All, segsRead), metaRead)
               P == PairIssues(rows)
    <3>1. /\ at = "walk" /\ at' = "continuity" /\ issues' = issues \cup C \cup P
          /\ segsRead' = segments /\ UNCHANGED <<keyed, rows, metaRead, since>>
      BY <2>5 DEF WalkAndReadSegments, At
    <3>2. Unrotated' = Unrotated /\ Walked' /\ Walked
      BY <3>1 DEF Unrotated, Walked
    <3>3. Gathers'
      BY <1>2, <1>3, <1>7, <3>1, <3>2 DEF AlarmInv, Gathers, Rows
    <3>4. Unrotated => C \subseteq MetaCodes
      BY <1>7, <3>1, WalkFinds
    <3>5. P \subseteq PairCodes
      BY DEF PairIssues, PairCodes
    <3>6. All => C = ChainIssues(rows, Genesis, metaRead)
      BY DEF WalkStart
    <3>7. (ChainIssues(rows, Genesis, metaRead) \cup PairIssues(rows))'
            = ChainIssues(rows, Genesis, metaRead) \cup PairIssues(rows)
      BY <3>1 DEF ChainIssues, PairIssues, Expected
    <3> HIDE DEF C, P
    <3>8. Spares'
      BY <1>3, <1>7, <3>1, <3>2, <3>4, <3>5 DEF AlarmInv, Spares, NoDamage
    <3>9. Tells'
      BY <1>3, <1>7, <3>1, <3>6, <3>7 DEF AlarmInv, Tells, P
    <3> QED  BY <3>3, <3>8, <3>9
  <2>6. CASE ReadFirstActive \/ ReadHeadLast
    <3>1. /\ at \in {"continuity", "head"} /\ at' \in {"head", "done"}
          /\ at = "head" => at' = "done"
          /\ UNCHANGED <<keyed, rows, metaRead, segsRead, since>>
          /\ issues' = issues \cup (IF at = "head" THEN SealIssues(rows, head)
                                    ELSE RotationIssues(segsRead, events))
      BY <2>6 DEF ReadFirstActive, ReadHeadLast, At
    <3>2. Unrotated' = Unrotated /\ Walked
      BY <3>1 DEF Unrotated, Walked
    <3>3. Gathers'
      BY <1>2, <1>3, <1>7, <3>1, <3>2 DEF AlarmInv, Gathers, Rows, Walked
    <3>4. Unrotated /\ at = "continuity" => RotationIssues(segsRead, events) = {}
      BY <1>1, <1>7, NoRotationIssues DEF AlarmInv, Gathers
    <3>5. SealIssues(rows, head) \subseteq SealCodes
      BY DEF SealIssues, SealCodes
    <3>6. Spares'
      BY <1>3, <1>7, <3>1, <3>2, <3>4, <3>5 DEF AlarmInv, Spares, NoDamage
    <3>7. (ChainIssues(rows, Genesis, metaRead) \cup PairIssues(rows))'
            = ChainIssues(rows, Genesis, metaRead) \cup PairIssues(rows)
      BY <3>1 DEF ChainIssues, PairIssues, Expected
    <3>8. Tells'
      BY <1>3, <1>7, <3>1, <3>7 DEF AlarmInv, Tells
    <3> QED  BY <3>3, <3>6, <3>8
  <2> QED  BY <1>6, <1>7, <2>1, <2>2, <2>3, <2>4, <2>5, <2>6 DEF ReaderStep
<1> QED  BY <1>5, <1>7

LEMMA AlarmNext == AlarmInv /\ [ReadersNext]_everything => AlarmInv'
<1> SUFFICES ASSUME AlarmInv, [ReadersNext]_everything  PROVE AlarmInv'
  OBVIOUS
<1>1. ShowInv'
  BY ShowNext DEF AlarmInv
<1>2. CASE ReaderStep /\ UNCHANGED vars
  BY <1>1, <1>2, ReadersKeepGathered DEF AlarmInv
<1>3. CASE WriterStep
  BY <1>1, <1>3, WritersKeepGathered DEF AlarmInv
<1>4. CASE UNCHANGED everything
  <2>1. UNCHANGED <<events, meta, segments, archives, role, at, keyed, rows, metaRead, segsRead,
                    issues, since>>
    BY <1>4 DEF everything
  <2>2. /\ AllRows' = AllRows /\ ArchivedUpTo' = ArchivedUpTo /\ Verifying' = Verifying
        /\ All' = All /\ Walked' = Walked /\ Unrotated' = Unrotated /\ WalkFrom' = WalkFrom
    BY <2>1 DEF AllRows, ArchivedRows, ArchivedUpTo, Verifying, All, Walked, Unrotated, WalkFrom
  <2>3. Gathers'
    BY <2>1, <2>2 DEF AlarmInv, Gathers, Rows
  <2>4. Spares'
    BY <2>1, <2>2 DEF AlarmInv, Spares
  <2>5. (ChainIssues(rows, Genesis, metaRead) \cup PairIssues(rows))'
          = ChainIssues(rows, Genesis, metaRead) \cup PairIssues(rows)
    BY <2>1 DEF ChainIssues, PairIssues, Expected
  <2>6. Tells'
    BY <2>1, <2>2, <2>5 DEF AlarmInv, Tells
  <2> QED  BY <1>1, <2>3, <2>4, <2>6 DEF AlarmInv
<1> QED  BY <1>2, <1>3, <1>4 DEF ReadersNext

THEOREM AlarmInvariance == ReadersSpec => []AlarmInv
<1> QED  BY AlarmInit, AlarmNext, PTL DEF ReadersSpec


(* Beside writers of any kind and number, psy verify reports no damage but  *)
(* after a rotation that came between its statements.                       *)
THEOREM NoDamageUnlessRotated == ReadersSpec => [](Verifying /\ Unrotated => issues \subseteq NoDamage)
<1>1. AlarmInv => (Verifying /\ Unrotated => issues \subseteq NoDamage)
  BY DEF AlarmInv, Spares
<1> QED  BY <1>1, AlarmInvariance, PTL

-------------------------------------------------------------------------------
(* ------------------------- beside a single writer ------------------------ *)

(* While nothing was committed since verify began, the head covers the      *)
(* rows; what it says then is true.                                         *)
AtRest == Verifying /\ since = {} =>
    /\ at \notin {"start", "done"} => head = LastEvent /\ (events = {} => meta.last_seq = 0)
    /\ keyed => issues \subseteq PairCodes

Vouched == All /\ at = "done" /\ keyed /\ issues = {} => head.seq >= LastSeqOf(rows)

SoundInv == AlarmInv /\ LagInv /\ AtRest /\ Vouched

LEMMA HeadMovesOn ==
    ASSUME LagInv, [Next]_vars
    PROVE  head' = head \/ head'.seq > head.seq
<1>1. CASE \E p \in Proc : WriteHeadRename(p)
  BY <1>1, RenameCovers
<1>2. CASE \A p \in Proc : ~WriteHeadRename(p)
  <2>1. ASSUME NEW p \in Proc,
               \/ EnsureSealer(p) \/ BootstrapFails(p) \/ ReadHead(p) \/ Migrate(p) \/ Compare(p)
               \/ Lookup(p) \/ RotateIfNeeded(p) \/ WriteArchive(p) \/ CommitRotation(p)
               \/ AppendRow(p) \/ WriteHeadRead(p)
        PROVE  head' = head
    BY <2>1 DEF shared, EnsureSealer, BootstrapFails, ReadHead, Migrate, Compare, Lookup,
       RotateIfNeeded, WriteArchive, CommitRotation, AppendRow, WriteHeadRead
  <2>2. ASSUME NEW p \in Proc,
               \/ \E d \in Draft : Begin(p, d)
               \/ RotateActiveSegment(p) \/ InitMigrate(p) \/ RotationFails(p)
               \/ Busy(p) \/ IoError(p) \/ Crash(p)
        PROVE  head' = head
    BY <2>2 DEF shared, Begin, RotateActiveSegment, InitMigrate, RotationFails, Busy, IoError, Crash
  <2> QED  BY <1>2, <2>1, <2>2 DEF Next, Step, vars
<1> QED  BY <1>1, <1>2

LEMMA WritersKeepRest ==
    ASSUME SoundInv, WriterStep
    PROVE  AtRest' /\ Vouched'
<1>1. VerifyInv /\ VerifyInv' /\ [Next]_vars /\ LagInv
  BY VerifyNext DEF SoundInv, AlarmInv, ShowInv, WriterStep
<1>2. UNCHANGED <<role, at, keyed, rows, metaRead, segsRead, issues>>
  BY DEF WriterStep
<1>3. since' = {} => since = {}
  BY DEF WriterStep
<1>4. ASSUME at \notin {"start", "done"}, since' = {}
      PROVE  head' = head /\ meta' = meta /\ events' = events /\ LastEvent' = LastEvent
  <2>1. head' = head /\ meta' = meta /\ segments' = segments
    BY <1>4 DEF WriterStep
  <2>2. events' = events
    BY <1>1, <2>1, WritersOnlyAdd
  <2> QED  BY <2>1, <2>2 DEF LastEvent
<1>5. AtRest'
  BY <1>2, <1>3, <1>4 DEF SoundInv, AtRest, Verifying
<1>6. head.seq >= LastSeqOf(rows) => head'.seq >= LastSeqOf(rows)
  <2>1. head' = head \/ head'.seq > head.seq
    BY <1>1, HeadMovesOn
  <2>2. head.seq \in Nat /\ head'.seq \in Nat /\ LastSeqOf(rows) \in Nat
    <3>1. rows \in Seq(AllRows)
      BY DEF SoundInv, AlarmInv, ShowInv, Holds
    <3>2. head.seq \in Nat /\ head'.seq \in Nat
      BY <1>1 DEF VerifyInv, IInv, TypeOK, Ref
    <3> QED  BY <1>1, <3>1, <3>2, HeldRows DEF VerifyInv
  <2> QED  BY <2>1, <2>2
<1>7. Vouched'
  BY <1>2, <1>6 DEF SoundInv, Vouched, All, LastSeqOf
<1> QED  BY <1>5, <1>7

(* verifySeal, when the head is that of the tail. *)
LEMMA SealFinds ==
    ASSUME SoundInv, Verifying, at = "head", since = {}
    PROVE  SealIssues(rows, head) = {}
<1>1. VerifyInv /\ IInv
  BY DEF SoundInv, AlarmInv, ShowInv, VerifyInv
<1> DEFINE a == WalkFrom
           b == meta.last_seq
<1>2. rows = Rows(a, b) /\ a + Len(rows) = b
  BY DEF SoundInv, AlarmInv, Gathers, Walked, Unrotated
<1>3. a \in Nat /\ b \in Nat /\ Len(rows) \in Nat
  BY <1>1 DEF SoundInv, AlarmInv, ShowInv, Holds, IInv, TypeOK, Split, WalkFrom
<1>4. head = LastEvent /\ (events = {} => b = 0)
  BY DEF SoundInv, AtRest
<1>5. head = IF rows = <<>> THEN Genesis ELSE RefTo(b)
  <2>1. CASE events = {}
    <3>1. Len(rows) = 0
      BY <1>2, <1>3, <1>4, <2>1
    <3>2. rows = <<>>
      BY <3>1 DEF SoundInv, AlarmInv, ShowInv, Holds
    <3> QED  BY <1>4, <2>1, <3>2 DEF LastEvent
  <2>2. CASE events # {}
    <3>1. head = RefTo(b)
      BY <1>1, <1>4, <2>2, TailOfTable, RefToHead
    <3>2. ArchivedUpTo + 1 <= b /\ ArchivedUpTo \in Nat
      <4>1. PICK r \in events : TRUE
        BY <2>2
      <4>2. r.seq \in ArchivedUpTo + 1 .. b
        BY <1>1, <4>1, ActiveRowsAre
      <4> QED  BY <1>1, <1>3, <4>2 DEF IInv, TypeOK, Split
    <3>3. Len(rows) # 0
      BY <1>2, <1>3, <3>2 DEF WalkFrom
    <3> QED  BY <3>1, <3>3
  <2> QED  BY <2>1, <2>2
<1>6. Expected(rows, Genesis, Len(rows) + 1) = IF rows = <<>> THEN Genesis ELSE RefTo(b)
  <2>1. CASE rows = <<>>
    BY <2>1 DEF Expected
  <2>2. CASE rows # <<>>
    <3>1. Len(rows) # 0 /\ Len(rows) + 1 # 1 /\ (Len(rows) + 1) - 1 = Len(rows)
      BY <1>3, <2>2 DEF SoundInv, AlarmInv, ShowInv, Holds
    <3>2. Expected(rows, RefTo(a), Len(rows) + 1) = RefTo(b)
      <4>1. a <= b /\ b <= meta.last_seq
        BY <1>2, <1>3
      <4> HIDE DEF a, b
      <4> QED  BY <1>1, <1>2, <1>3, <4>1, WalkIssues
    <3> QED  BY <2>2, <3>1, <3>2 DEF Expected
  <2> QED  BY <2>1, <2>2
<1>7. head = Expected(rows, Genesis, Len(rows) + 1)
  BY <1>5, <1>6
<1> QED  BY <1>7 DEF SealIssues


LEMMA ReadersKeepRest ==
    ASSUME SoundInv, ReaderStep, UNCHANGED vars
    PROVE  AtRest' /\ Vouched'
<1>1. AlarmInv /\ VerifyInv /\ IInv /\ LagInv
  BY DEF SoundInv, AlarmInv, ShowInv, VerifyInv
<1>2. meta' = meta /\ head' = head /\ events' = events /\ LastEvent' = LastEvent
  BY DEF vars, LastEvent
<1>3. role' = role /\ Verifying' = Verifying /\ All' = All /\ (All => Verifying)
  BY DEF ReaderStep, LoadSealer, ReadArchives, ReadActive, ReadMeta, ReadSegments,
         WalkAndReadSegments, ReadFirstActive, ReadHeadLast, Poll, ReadLastSeq, ReadTail,
         ReadPage, ReadOldHistory, ReadNewHistory, Verifying, All
<1>4. CASE ~Verifying
  BY <1>3, <1>4 DEF AtRest, Vouched
<1>5. ASSUME Verifying  PROVE ~Poll /\ ~ReadLastSeq /\ ~ReadTail /\ ~ReadPage
                              /\ ~ReadOldHistory /\ ~ReadNewHistory
  BY <1>5 DEF Verifying, Poll, ReadLastSeq, ReadTail, ReadPage, ReadOldHistory, ReadNewHistory
<1>6. CASE Verifying
  <2>1. CASE LoadSealer
    <3>1. /\ at' \in {"archives", "active"} /\ issues' = SealPolicy(keyed') /\ keyed' \in BOOLEAN
          /\ since' = InTheMaking
      BY <2>1 DEF LoadSealer, At
    <3>2. ASSUME since' = {}  PROVE head = LastEvent /\ (events = {} => meta.last_seq = 0)
      <4>1. Quiet /\ faults = 0
        BY <3>1, <3>2 DEF InTheMaking
      <4>2. PICK p \in Proc : TRUE
        BY <1>1 DEF LagInv, OneWriter
      <4>3. head = LastEvent
        BY <1>1, <4>1, <4>2 DEF LagInv, Calm, Quiet, Sealing
      <4>4. events = {} => head = Genesis /\ meta.last_seq = head.seq
        BY <1>1, <4>3 DEF LagInv, Covered, LastEvent
      <4> QED  BY <4>3, <4>4 DEF Genesis
    <3>3. keyed' => issues' = {}
      BY <3>1 DEF SealPolicy
    <3> QED  BY <1>2, <1>3, <3>1, <3>2, <3>3 DEF AtRest, Vouched
  <2>2. CASE ReadArchives \/ ReadActive \/ ReadMeta \/ ReadSegments
    <3>1. at \notin {"start", "done"} /\ at' # "done" /\ UNCHANGED <<keyed, issues, since>>
      BY <2>2 DEF ReadArchives, ReadActive, ReadMeta, ReadSegments, At
    <3> QED  BY <1>2, <1>3, <3>1 DEF SoundInv, AtRest, Vouched
  <2>3. CASE WalkAndReadSegments
    <3> DEFINE C == ChainIssues(rows, WalkStart(All, segsRead), metaRead)
               P == PairIssues(rows)
    <3>1. /\ at = "walk" /\ at' = "continuity" /\ issues' = issues \cup C \cup P
          /\ UNCHANGED <<keyed, since>>
      BY <2>3 DEF WalkAndReadSegments, At
    <3>2. since = {} => C = {}
      BY <1>1, <1>6, <3>1, WalkFinds DEF Unrotated
    <3>3. P \subseteq PairCodes
      BY DEF PairIssues, PairCodes
    <3> HIDE DEF C, P
    <3> QED  BY <1>2, <1>3, <1>6, <3>1, <3>2, <3>3 DEF SoundInv, AtRest, Vouched
  <2>4. CASE ReadFirstActive
    <3>1. /\ at = "continuity" /\ at' = (IF keyed THEN "head" ELSE "done")
          /\ issues' = issues \cup RotationIssues(segsRead, events)
          /\ UNCHANGED <<keyed, since>>
      BY <2>4 DEF ReadFirstActive, At
    <3>2. since = {} => RotationIssues(segsRead, events) = {}
      BY <1>1, <1>6, <3>1, NoRotationIssues DEF AlarmInv, Gathers, Unrotated
    <3> QED  BY <1>2, <1>3, <1>6, <3>1, <3>2 DEF SoundInv, AtRest, Vouched
  <2>5. CASE ReadHeadLast
    <3>1. /\ at = "head" /\ at' = "done" /\ issues' = issues \cup SealIssues(rows, head)
          /\ UNCHANGED <<keyed, since, rows>>
      BY <2>5 DEF ReadHeadLast, At
    <3>2. since = {} => SealIssues(rows, head) = {}
      BY <1>6, <3>1, SealFinds
    <3>3. AtRest'
      BY <1>2, <1>3, <1>6, <3>1, <3>2 DEF SoundInv, AtRest
    <3>4. ASSUME SealIssues(rows, head) = {}  PROVE head.seq >= LastSeqOf(rows)
      <4> DEFINE tail == Expected(rows, Genesis, Len(rows) + 1)
      <4>1. Len(rows) \in Nat /\ (rows # <<>> => Len(rows) # 0) /\ LastSeqOf(rows) \in Nat
            /\ head.seq \in Nat
        BY <1>1, HeldRows DEF AlarmInv, ShowInv, Holds, IInv, TypeOK, Ref
      <4>2. tail.seq = LastSeqOf(rows) /\ (tail = Genesis => rows = <<>>)
        <5>1. CASE rows = <<>>
          BY <5>1 DEF Expected, LastSeqOf, Genesis
        <5>2. CASE rows # <<>>
          <6>1. Len(rows) \in 1 .. Len(rows) /\ Len(rows) + 1 # 1
                /\ (Len(rows) + 1) - 1 = Len(rows)
            BY <4>1, <5>2
          <6>2. tail = Hash(rows[Len(rows)]) /\ tail.seq = LastSeqOf(rows)
            BY <5>2, <6>1 DEF Expected, LastSeqOf, Hash
          <6>3. rows[Len(rows)].seq \in 1 .. meta.last_seq
            BY <1>1, <6>1, HeldRows DEF AlarmInv, ShowInv, Holds
          <6> QED  BY <6>2, <6>3 DEF Hash, Genesis
        <5> QED  BY <5>1, <5>2
      <4>3. head = Genesis => tail = Genesis
        BY <3>4 DEF SealIssues
      <4>4. head # Genesis => head.seq = tail.seq
        BY <3>4 DEF SealIssues
      <4> HIDE DEF tail
      <4>5. head.seq = tail.seq
        BY <4>3, <4>4
      <4> QED  BY <4>1, <4>2, <4>5
    <3>5. Vouched'
      BY <1>2, <1>3, <3>1, <3>4 DEF Vouched, LastSeqOf
    <3> QED  BY <3>3, <3>5
  <2> QED  BY <1>5, <1>6, <2>1, <2>2, <2>3, <2>4, <2>5 DEF ReaderStep
<1> QED  BY <1>4, <1>6

LEMMA SoundInit == OneWriter /\ ReaderInit => SoundInv
<1> SUFFICES ASSUME OneWriter, ReaderInit  PROVE SoundInv
  OBVIOUS
<1>1. AlarmInv /\ LagInv
  BY AlarmInit, LagInit DEF ReaderInit
<1>2. at = "start" /\ issues = {}
  BY DEF ReaderInit
<1> QED  BY <1>1, <1>2 DEF SoundInv, AtRest, Vouched

LEMMA SoundNext == SoundInv /\ [ReadersNext]_everything => SoundInv'
<1> SUFFICES ASSUME SoundInv, [ReadersNext]_everything  PROVE SoundInv'
  OBVIOUS
<1>1. AlarmInv'
  BY AlarmNext DEF SoundInv
<1>2. [Next]_vars
  BY DEF ReadersNext, WriterStep, everything, vars
<1>3. LagInv'
  BY <1>2, LagNext DEF SoundInv
<1>4. CASE ReaderStep /\ UNCHANGED vars
  BY <1>1, <1>3, <1>4, ReadersKeepRest DEF SoundInv
<1>5. CASE WriterStep
  BY <1>1, <1>3, <1>5, WritersKeepRest DEF SoundInv
<1>6. CASE UNCHANGED everything
  <2>1. UNCHANGED <<events, meta, head, role, at, keyed, rows, issues, since>>
    BY <1>6 DEF everything
  <2> QED  BY <1>1, <1>3, <2>1 DEF SoundInv, AtRest, Vouched, Verifying, All, LastEvent, LastSeqOf
<1> QED  BY <1>4, <1>5, <1>6 DEF ReadersNext

THEOREM SoundInvariance == OneWriter /\ ReadersSpec => []SoundInv
<1> QED  BY SoundInit, SoundNext, PTL DEF ReadersSpec

(* An alarm of psy verify that is none has a cause: of a store at rest it   *)
(* reports nothing but unpaired calls, and beside a writer that does not    *)
(* rotate nothing but them and an end of the chain that moved on.           *)
THEOREM NoCauselessAlarm == OneWriter /\ ReadersSpec => []AlarmsHaveACause
<1>1. SoundInv => AlarmsHaveACause
  BY DEF SoundInv, AlarmInv, Spares, AtRest, AlarmsHaveACause, NoDamage, Unrotated
<1> QED  BY <1>1, SoundInvariance, PTL

(* Rows that a walk from the genesis passes are numbered from 1. *)
LEMMA NoGapNoMiss ==
    ASSUME IInv, NEW s \in Seq(AllRows), NEW m, "seq_gap" \notin ChainIssues(s, Genesis, m)
    PROVE  \A i \in 1 .. Len(s) : s[i].seq = i
<1> DEFINE Bad == {i \in 1 .. Len(s) : s[i].seq # i}
<1>1. Len(s) \in Nat /\ DOMAIN s = 1 .. Len(s)
  BY HeldRows
<1>2. \A i \in 1 .. Len(s) : s[i].seq = Expected(s, Genesis, i).seq + 1
  BY <1>1 DEF ChainIssues
<1>3. ASSUME Bad # {}  PROVE FALSE
  <2>1. PICK i \in Bad : \A j \in Bad : i <= j
    <3>1. Bad \subseteq Nat
      BY <1>1
    <3> HIDE DEF Bad
    <3> QED  BY <1>3, <3>1, NatMin
  <2>2. i \in 1 .. Len(s) /\ s[i].seq # i
    OBVIOUS
  <2>3. CASE i = 1
    BY <1>2, <2>2, <2>3 DEF Expected, Genesis
  <2>4. CASE i # 1
    <3>1. i - 1 \in 1 .. Len(s) /\ i - 1 < i /\ (i - 1) + 1 = i
      BY <1>1, <2>2, <2>4
    <3>2. i - 1 \notin Bad
      BY <1>1, <2>1, <2>2, <3>1
    <3>3. s[i - 1].seq = i - 1
      BY <3>1, <3>2
    <3> QED  BY <1>2, <2>2, <2>4, <3>1, <3>3 DEF Expected, Hash
  <2> QED  BY <2>3, <2>4
<1> QED  BY <1>3

(* What psy verify --all passes is the whole truth, and under               *)
(* seal: "required" it was vouched for by the head.                         *)
THEOREM CleanReports == OneWriter /\ ReadersSpec => []CleanReportIsTrue
<1>1. SoundInv => CleanReportIsTrue
  <2> SUFFICES ASSUME SoundInv, All, at = "done", issues = {}
               PROVE  /\ Range(rows) = {r \in AllRows : r.seq <= Len(rows)}
                      /\ PairIssues(rows) = {}
                      /\ SealRequired => keyed /\ head.seq >= LastSeqOf(rows)
    BY DEF CleanReportIsTrue
  <2>1. IInv /\ ChainIntact /\ rows \in Seq(AllRows) /\ Verifying
    BY DEF SoundInv, AlarmInv, ShowInv, VerifyInv, Holds, IInv, All, Verifying
  <2>2. ChainIssues(rows, Genesis, metaRead) \cup PairIssues(rows) \subseteq {}
    BY <2>1 DEF SoundInv, AlarmInv, Tells
  <2>3. PairIssues(rows) = {} /\ "seq_gap" \notin ChainIssues(rows, Genesis, metaRead)
    BY <2>2
  <2>4. \A i \in 1 .. Len(rows) : rows[i].seq = i
    BY <2>1, <2>3, NoGapNoMiss
  <2>5. /\ Len(rows) \in Nat /\ DOMAIN rows = 1 .. Len(rows)
        /\ \A i \in 1 .. Len(rows) : rows[i] \in AllRows
    BY <2>1, HeldRows
  <2>6. ASSUME NEW r \in AllRows, r.seq <= Len(rows)  PROVE r \in Range(rows)
    <3>1. <<r>> \in Seq(AllRows) /\ Len(<<r>>) = 1 /\ <<r>>[1] = r
      OBVIOUS
    <3>2. r.seq \in 1 .. meta.last_seq
      <4> DEFINE one == <<r>>
      <4>1. one \in Seq(AllRows) /\ 1 \in 1 .. Len(one) /\ one[1] = r
        BY <3>1
      <4> HIDE DEF one
      <4> QED  BY <2>1, <4>1, HeldRows
    <3>3. r.seq \in 1 .. Len(rows)
      BY <2>1, <2>5, <2>6, <3>2 DEF IInv, TypeOK
    <3>4. rows[r.seq] = r
      BY <2>1, <2>4, <2>5, <3>3 DEF ChainIntact
    <3> QED  BY <2>5, <3>3, <3>4 DEF Range
  <2>7. ASSUME NEW i \in DOMAIN rows  PROVE rows[i] \in {r \in AllRows : r.seq <= Len(rows)}
    BY <2>4, <2>5, <2>7
  <2>8. Range(rows) = {r \in AllRows : r.seq <= Len(rows)}
    BY <2>6, <2>7 DEF Range
  <2>9. SealRequired => keyed /\ head.seq >= LastSeqOf(rows)
    BY <2>1 DEF SoundInv, AlarmInv, Tells, Vouched
  <2> QED  BY <2>3, <2>8, <2>9
<1> QED  BY <1>1, SoundInvariance, PTL

-------------------------------------------------------------------------------
(* ---------------------------- audited calls ----------------------------- *)

\* The intent of a call and, after it, the result are both in the store.
Paired(c) == \E r, s \in AllRows : /\ r.draft = IntentRow(c) /\ s.draft = ResultRow(c)
                                   /\ r.seq < s.seq

\* The row a call has asked for, and that it is there.
Asked(c)    == IF stage[c] = "intent" THEN IntentRow(c) ELSE ResultRow(c)
Answered(c) == IF stage[c] = "intent" THEN InStore(IntentRow(c)) ELSE Paired(c)

CallTypes == /\ stage \in [Calls -> {"new"} \cup Open \cup Final]
             /\ turn \in [Proc -> Calls \cup {NoCall}]
             /\ effects \subseteq Calls

(* A call is recording when its host's thread is its own. *)
Turns == \A c \in Calls : turn[Owner[c]] = c <=> stage[c] \in {"intent"} \cup Recording

(* What a write path carries, up to the append, is the row of the call whose *)
(* turn it is; after the append, and when record returned, it is committed.  *)
Writing == \A c \in Calls : turn[Owner[c]] = c =>
             CASE pc[Owner[c]] \in {"sealRead", "sealRename"} -> Answered(c)
               [] pc[Owner[c]] = "idle" -> result[Owner[c]] = "ok" => Answered(c)
               [] OTHER -> draft[Owner[c]] = Asked(c)

(* Past its intent, and with a change made, a call has its intent recorded. *)
Announced == \A c \in Calls : stage[c] \in {"running"} \cup Recording \/ c \in effects
                                => InStore(IntentRow(c))

CallInv == IInv /\ CallTypes /\ Turns /\ Writing /\ Announced /\ ReturnedIsRecorded
-------------------------------------------------------------------------------
(* Rows stay: what is in the store, and in what order, stays true.          *)
LEMMA FactsStay ==
  ASSUME AllRows \subseteq AllRows', NEW c \in Calls
  PROVE  /\ InStore(IntentRow(c)) => InStore(IntentRow(c))'
         /\ Paired(c) => Paired(c)'
BY DEF InStore, Paired, IntentRow, ResultRow

LEMMA RowsAreDrafts ==
  ASSUME NEW c \in Calls
  PROVE  /\ IntentRow(c) \in Draft /\ ResultRow(c) \in Draft
         /\ IntentRow(c) # NoDraft /\ ResultRow(c) # NoDraft
<1>1. IntentRow(c) \in Draft /\ ResultRow(c) \in Draft
  BY RowAssumption DEF IntentRow, ResultRow, Draft
<1> QED  BY <1>1, DraftAssumption

(* One step of the write path of process p: it goes on with its row, or     *)
(* commits it as the newest, or seals what is committed, or fails.          *)
GoesOn(p)  == /\ pc'[p] \notin {"idle", "sealRead", "sealRename"}
              /\ pc[p] \notin {"idle", "sealRead", "sealRename"}
              /\ draft'[p] = draft[p]
Commits(p) == /\ pc[p] = "append" /\ pc'[p] \in {"idle", "sealRead"}
              /\ NewRow(p) \in AllRows'
              /\ \A r \in AllRows : r.seq < NewRow(p).seq
SealsIt(p) == /\ pc[p] \in {"sealRead", "sealRename"}
              /\ pc'[p] \in {"idle", "sealRead", "sealRename"}
Fails(p)   == pc'[p] = "idle" /\ result'[p] # "ok"

WritePathStep(p) == Step(p) \/ BootstrapFails(p) \/ RotationFails(p) \/ Busy(p) \/ IoError(p)

LEMMA OnlyItself ==
  ASSUME TypeOK, NEW p \in Proc, WritePathStep(p)
  PROVE  /\ pc[p] # "idle"
         /\ \A q \in Proc \ {p} : /\ pc'[q] = pc[q] /\ draft'[q] = draft[q]
                                  /\ result'[q] = result[q]
<1> USE DEF TypeOK, Goto, End
<1>1. CASE EnsureSealer(p) \/ BootstrapFails(p) \/ ReadHead(p) \/ Migrate(p) \/ Compare(p)
  BY <1>1 DEF EnsureSealer, BootstrapFails, ReadHead, Migrate, Compare
<1>2. CASE Lookup(p) \/ RotateIfNeeded(p) \/ WriteArchive(p) \/ CommitRotation(p)
  BY <1>2 DEF Lookup, RotateIfNeeded, WriteArchive, CommitRotation, Rotated
<1>3. CASE AppendRow(p) \/ WriteHeadRead(p) \/ WriteHeadRename(p)
  BY <1>3 DEF AppendRow, WriteHeadRead, WriteHeadRename, HeadWritten
<1>4. CASE RotationFails(p) \/ Busy(p) \/ IoError(p)
  BY <1>4 DEF RotationFails, Busy, IoError
<1> QED  BY <1>1, <1>2, <1>3, <1>4 DEF WritePathStep, Step

LEMMA WritePath ==
  ASSUME IInv, NEW p \in Proc, WritePathStep(p),
         pc[p] \in {"sealRead", "sealRename"} \/ draft[p] # NoDraft
  PROVE  GoesOn(p) \/ Commits(p) \/ SealsIt(p) \/ Fails(p)
<1>1. TypeOK /\ ChainIntact
  BY DEF IInv
<1> USE <1>1 DEF TypeOK, Goto, End
<1> USE DEF GoesOn, SealsIt, Fails
<1>2. CASE EnsureSealer(p) \/ BootstrapFails(p)
  BY <1>2 DEF EnsureSealer, BootstrapFails
<1>3. CASE ReadHead(p)
  BY <1>3 DEF ReadHead, Checked, Unchecked
<1>4. CASE Migrate(p)
  BY <1>4 DEF Migrate, Adopted, Checked, Unchecked
<1>5. CASE Compare(p)
  BY <1>5 DEF Compare, Checked, Unchecked
<1>6. CASE Lookup(p)
  BY <1>6 DEF Lookup
<1>7. CASE RotateIfNeeded(p)
  BY <1>7 DEF RotateIfNeeded
<1>8. CASE WriteArchive(p)
  BY <1>8 DEF WriteArchive, Rotated
<1>9. CASE CommitRotation(p)
  BY <1>9 DEF CommitRotation, Rotated
<1>10. CASE AppendRow(p)
  <2>1. AllRows' = AllRows \cup {NewRow(p)}
    BY <1>10, AppendRowStep
  <2>2. \A r \in AllRows : r.seq < NewRow(p).seq
    <3>1. \A r \in AllRows : r.seq <= meta.last_seq
      BY DEF ChainIntact
    <3>2. \A r \in AllRows : r.seq \in Nat
      BY DEF IInv, Locked, AllRows, ArchivedRows, Row
    <3> QED  BY <3>1, <3>2 DEF NewRow
  <2>3. Commits(p)
    BY <1>10, <2>1, <2>2 DEF AppendRow, Commits
  <2> QED  BY <1>10, <2>3 DEF AppendRow
<1>11. CASE WriteHeadRead(p)
  BY <1>11 DEF WriteHeadRead, HeadWritten, Adopted, Checked, Unchecked
<1>12. CASE WriteHeadRename(p)
  BY <1>12 DEF WriteHeadRename, HeadWritten, Adopted, Checked, Unchecked
<1>13. CASE RotationFails(p) \/ Busy(p)
  BY <1>13 DEF RotationFails, Busy
<1>14. CASE IoError(p)
  BY <1>14 DEF IoError
<1> QED
  BY <1>2, <1>3, <1>4, <1>5, <1>6, <1>7, <1>8, <1>9, <1>10, <1>11, <1>12, <1>13, <1>14
  DEF WritePathStep, Step

(* A step of the store leaves the calls alone, and what they rely on holds. *)
LEMMA StoreStepKeeps ==
  ASSUME CallInv, IInv', AllRows \subseteq AllRows', NEW p \in Proc,
         WritePathStep(p), UNCHANGED callVars
  PROVE  CallInv'
<1>1. CallTypes' /\ Turns' /\ Announced' /\ ReturnedIsRecorded'
  <2>1. CallTypes' /\ Turns'
    BY DEF CallInv, callVars, CallTypes, Turns
  <2>2. Announced'
    BY FactsStay DEF CallInv, Announced, callVars
  <2>3. ReturnedIsRecorded'
    BY FactsStay DEF CallInv, ReturnedIsRecorded, Paired, callVars
  <2> QED  BY <2>1, <2>2, <2>3
<1>2. Writing'
  <2> SUFFICES ASSUME NEW c \in Calls, turn[Owner[c]] = c
               PROVE  CASE pc'[Owner[c]] \in {"sealRead", "sealRename"} -> Answered(c)'
                        [] pc'[Owner[c]] = "idle" -> result'[Owner[c]] = "ok" => Answered(c)'
                        [] OTHER -> draft'[Owner[c]] = Asked(c)'
    BY DEF Writing, callVars
  <2>1. Answered(c) => Answered(c)'
    BY FactsStay DEF Answered, callVars
  <2>2. Asked(c)' = Asked(c) /\ Asked(c) # NoDraft
    BY RowsAreDrafts DEF Asked, IntentRow, ResultRow, callVars
  <2>3. /\ pc[Owner[c]] \in {"sealRead", "sealRename"} => Answered(c)
        /\ pc[Owner[c]] = "idle" /\ result[Owner[c]] = "ok" => Answered(c)
        /\ pc[Owner[c]] \notin {"idle", "sealRead", "sealRename"} => draft[Owner[c]] = Asked(c)
    BY DEF CallInv, Writing
  <2>4. CASE Owner[c] # p
    <3>1. Owner[c] \in Proc \ {p}
      BY <2>4, OwnerAssumption
    <3> QED  BY <2>1, <2>2, <2>3, <3>1, OnlyItself DEF CallInv, IInv
  <2>5. CASE Owner[c] = p
    <3>1. pc[p] # "idle"
      BY OnlyItself DEF CallInv, IInv
    <3>2. GoesOn(p) \/ Commits(p) \/ SealsIt(p) \/ Fails(p)
      BY <2>2, <2>3, <2>5, <3>1, WritePath DEF CallInv
    <3>3. CASE Commits(p)
      <4>1. NewRow(p).draft = Asked(c) /\ NewRow(p) \in AllRows'
        BY <2>3, <2>5, <3>3 DEF Commits, NewRow
      <4>2. ASSUME stage[c] = "intent"  PROVE Answered(c)'
        BY <4>1, <4>2 DEF Asked, Answered, InStore, callVars
      <4>3. ASSUME stage[c] # "intent"  PROVE Answered(c)'
        <5>1. PICK r \in AllRows : r.draft = IntentRow(c)
          BY <4>3 DEF CallInv, Turns, Announced, InStore
        <5>2. r \in AllRows' /\ r.seq < NewRow(p).seq
          BY <3>3, <5>1 DEF Commits
        <5> QED  BY <4>1, <4>3, <5>1, <5>2 DEF Asked, Answered, Paired, IntentRow, ResultRow, callVars
      <4>4. Answered(c)'
        BY <4>2, <4>3
      <4> QED  BY <2>5, <3>3, <4>4 DEF Commits
    <3> QED  BY <2>1, <2>2, <2>3, <2>5, <3>1, <3>2, <3>3 DEF GoesOn, SealsIt, Fails
  <2> QED  BY <2>4, <2>5
<1> QED  BY <1>1, <1>2 DEF CallInv

(* A call that ends or goes on without a record: nothing is in the store     *)
(* that was not there, and its host's thread is free again.                  *)
LEMMA EndOfTurn ==
  ASSUME CallInv, NEW c \in Calls, turn[Owner[c]] = c, UNCHANGED <<vars, effects>>,
         NEW s \in {"running"} \cup Final, Stage(c, s), Turn(c, NoCall),
         s = "running" => InStore(IntentRow(c)),
         s = "returned" => Paired(c)
  PROVE  CallInv'
<1> USE DEF Stage, Turn, CallInv
<1>1. IInv' /\ AllRows' = AllRows
  BY NextPreserves DEF vars, AllRows, ArchivedRows
<1>2. CallTypes'
  BY NoCallAssumption, OwnerAssumption DEF CallTypes, Open, Final
<1>3. Turns'
  BY ZenonT(60), NoCallAssumption, OwnerAssumption DEF CallTypes, Turns, Recording, Final
<1>4. Writing'
  <2> SUFFICES ASSUME NEW d \in Calls, turn'[Owner[d]] = d
               PROVE  CASE pc'[Owner[d]] \in {"sealRead", "sealRename"} -> Answered(d)'
                        [] pc'[Owner[d]] = "idle" -> result'[Owner[d]] = "ok" => Answered(d)'
                        [] OTHER -> draft'[Owner[d]] = Asked(d)'
    BY DEF Writing
  <2>1. turn[Owner[d]] = d /\ stage'[d] = stage[d]
    BY NoCallAssumption, OwnerAssumption DEF CallTypes
  <2>2. Answered(d)' = Answered(d) /\ Asked(d)' = Asked(d)
    BY <1>1, <2>1 DEF Answered, Asked, InStore, Paired, IntentRow, ResultRow
  <2>3. pc' = pc /\ draft' = draft /\ result' = result
    BY DEF vars
  <2> QED  BY <2>1, <2>2, <2>3 DEF Writing
<1>5. Announced'
  BY <1>1 DEF Announced, CallTypes, InStore, Recording, Final
<1>6. ReturnedIsRecorded'
  BY <1>1 DEF ReturnedIsRecorded, Paired, CallTypes
<1> QED  BY <1>1, <1>2, <1>3, <1>4, <1>5, <1>6

(* A call asks for a row, the thread of its host being free or its own.      *)
LEMMA StartOfTurn ==
  ASSUME CallInv, NEW c \in Calls, turn[Owner[c]] \in {c, NoCall},
         NEW s \in {"intent"} \cup Recording, Stage(c, s), Turn(c, c),
         NEW d \in Draft, Begin(Owner[c], d), d = (IF s = "intent" THEN IntentRow(c) ELSE ResultRow(c)),
         s # "intent" => InStore(IntentRow(c)),
         UNCHANGED effects
  PROVE  CallInv'
<1> USE DEF Stage, Turn, CallInv
<1>1. IInv' /\ AllRows' = AllRows
  <2>1. Next
    BY OwnerAssumption DEF Next
  <2> QED  BY <2>1, NextPreserves DEF Begin, shared, AllRows, ArchivedRows
<1>2. CallTypes'
  BY OwnerAssumption DEF CallTypes, Open, Recording
<1>3. Turns'
  <2> SUFFICES ASSUME NEW e \in Calls
               PROVE  turn'[Owner[e]] = e <=> stage'[e] \in {"intent"} \cup Recording
    BY DEF Turns
  <2>1. turn[Owner[e]] = e <=> stage[e] \in {"intent"} \cup Recording
    BY DEF Turns
  <2>2. CASE e = c
    BY <2>2, OwnerAssumption DEF CallTypes
  <2>3. CASE e # c
    BY <2>1, <2>3, NoCallAssumption, OwnerAssumption DEF CallTypes
  <2> QED  BY <2>2, <2>3
<1>4. Writing'
  <2> SUFFICES ASSUME NEW e \in Calls, turn'[Owner[e]] = e
               PROVE  CASE pc'[Owner[e]] \in {"sealRead", "sealRename"} -> Answered(e)'
                        [] pc'[Owner[e]] = "idle" -> result'[Owner[e]] = "ok" => Answered(e)'
                        [] OTHER -> draft'[Owner[e]] = Asked(e)'
    BY DEF Writing
  <2>1. CASE e = c
    <3>1. pc'[Owner[c]] \notin {"idle", "sealRead", "sealRename"} /\ draft'[Owner[c]] = d
      BY OwnerAssumption DEF Begin, Goto, FirstStep, Unchecked, IInv, TypeOK
    <3>2. Asked(c)' = d
      BY DEF Asked, Recording, CallTypes
    <3> QED  BY <2>1, <3>1, <3>2
  <2>2. CASE e # c
    <3>1. /\ Owner[e] # Owner[c] /\ Owner[e] \in Proc /\ Owner[c] \in Proc
          /\ turn[Owner[e]] = e /\ stage'[e] = stage[e]
      BY <2>2, OwnerAssumption DEF CallTypes
    <3>2. Answered(e)' = Answered(e) /\ Asked(e)' = Asked(e)
      BY <1>1, <3>1 DEF Answered, Asked, InStore, Paired, IntentRow, ResultRow
    <3>3. /\ pc'[Owner[e]] = pc[Owner[e]] /\ draft'[Owner[e]] = draft[Owner[e]]
          /\ result'[Owner[e]] = result[Owner[e]]
      BY <3>1 DEF Begin, Goto, IInv, TypeOK
    <3> QED  BY <3>1, <3>2, <3>3 DEF Writing
  <2> QED  BY <2>1, <2>2
<1>5. Announced'
  BY <1>1 DEF Announced, CallTypes, InStore, Recording
<1>6. ReturnedIsRecorded'
  BY <1>1 DEF ReturnedIsRecorded, CallTypes, Recording
<1> QED  BY <1>1, <1>2, <1>3, <1>4, <1>5, <1>6

(* A host dies: its calls are lost, and no other host's is.                  *)
LEMMA CrashKeeps ==
  ASSUME CallInv, NEW p \in Proc, HostCrash(p)
  PROVE  CallInv'
<1> USE DEF CallInv, HostCrash
<1>1. IInv' /\ AllRows' = AllRows
  <2>1. Next
    BY DEF Next
  <2> QED  BY <2>1, NextPreserves DEF Crash, AllRows, ArchivedRows
<1>2. CallTypes'
  BY DEF CallTypes, Open, Final
<1>3. Turns'
  BY NoCallAssumption, OwnerAssumption DEF CallTypes, Turns, Recording, Open
<1>4. Writing'
  <2> SUFFICES ASSUME NEW e \in Calls, turn'[Owner[e]] = e
               PROVE  CASE pc'[Owner[e]] \in {"sealRead", "sealRename"} -> Answered(e)'
                        [] pc'[Owner[e]] = "idle" -> result'[Owner[e]] = "ok" => Answered(e)'
                        [] OTHER -> draft'[Owner[e]] = Asked(e)'
    BY DEF Writing
  <2>1. Owner[e] # p /\ Owner[e] \in Proc /\ turn[Owner[e]] = e /\ stage'[e] = stage[e]
    BY NoCallAssumption, OwnerAssumption DEF CallTypes
  <2>2. Answered(e)' = Answered(e) /\ Asked(e)' = Asked(e)
    BY <1>1, <2>1 DEF Answered, Asked, InStore, Paired, IntentRow, ResultRow
  <2>3. /\ pc'[Owner[e]] = pc[Owner[e]] /\ draft'[Owner[e]] = draft[Owner[e]]
        /\ result'[Owner[e]] = result[Owner[e]]
    BY <2>1 DEF Crash, Goto, IInv, TypeOK
  <2> QED  BY <2>1, <2>2, <2>3 DEF Writing
<1>5. Announced'
  BY <1>1 DEF Announced, CallTypes, InStore, Recording, Open
<1>6. ReturnedIsRecorded'
  BY <1>1 DEF ReturnedIsRecorded, CallTypes
<1> QED  BY <1>1, <1>2, <1>3, <1>4, <1>5, <1>6
-------------------------------------------------------------------------------
LEMMA CallInitEstablishes == CallInit => CallInv
<1> SUFFICES ASSUME CallInit  PROVE CallInv
  OBVIOUS
<1>1. IInv
  BY InitEstablishes DEF CallInit
<1>2. CallTypes /\ Turns /\ Announced /\ ReturnedIsRecorded
  BY NoCallAssumption, OwnerAssumption
  DEF CallInit, CallTypes, Turns, Announced, ReturnedIsRecorded, Recording
<1>3. Writing
  BY NoCallAssumption, OwnerAssumption DEF CallInit, Writing
<1> QED  BY <1>1, <1>2, <1>3 DEF CallInv

LEMMA CallNextPreserves == CallInv /\ [CallNext]_allVars => CallInv'
<1> SUFFICES ASSUME CallInv, [CallNext]_allVars  PROVE CallInv'
  OBVIOUS
<1> USE DEF CallInv
<1>1. ASSUME NEW c \in Calls, Invoke(c)  PROVE CallInv'
  BY <1>1, StartOfTurn, RowsAreDrafts DEF Invoke, Idle
<1>2. ASSUME NEW c \in Calls, CallStep(c)  PROVE CallInv'
  <2>1. turn[Owner[c]] = c /\ pc[Owner[c]] = "idle"
    BY <1>2 DEF CallStep, IntentRefused, Reject, CallHandler, ResultRecorded, Recorded
  <2>2. result[Owner[c]] = "ok" => Answered(c)
    BY <2>1 DEF Writing
  <2>3. CASE IntentRefused(c)
    BY <2>1, <2>3, EndOfTurn DEF IntentRefused, Final
  <2>4. CASE Reject(c)
    <3>1. Turn(c, c)
      BY <2>1, <2>4, OwnerAssumption DEF Reject, Turn, CallTypes
    <3>2. InStore(IntentRow(c)) /\ "rejected" \in {"intent"} \cup Recording
      BY <2>2, <2>4 DEF Reject, Answered, Recording
    <3> QED  BY <2>1, <2>4, <3>1, <3>2, StartOfTurn, RowsAreDrafts DEF Reject
  <2>5. CASE CallHandler(c)
    BY <2>1, <2>2, <2>5, EndOfTurn DEF CallHandler, Answered, Final
  <2>6. CASE ResultRecorded(c)
    BY <2>1, <2>2, <2>6, EndOfTurn DEF ResultRecorded, Answered, Final, Recording
  <2> QED  BY <1>2, <2>3, <2>4, <2>5, <2>6 DEF CallStep
<1>3. ASSUME NEW c \in Calls, Mutate(c)  PROVE CallInv'
  <2>1. IInv' /\ AllRows' = AllRows
    BY <1>3, NextPreserves DEF Mutate, vars, AllRows, ArchivedRows
  <2>2. CallTypes' /\ Turns'
    BY <1>3 DEF Mutate, CallTypes, Turns
  <2>3. Writing'
    BY <1>3, <2>1 DEF Mutate, Writing, Answered, Asked, InStore, Paired, vars
  <2>4. Announced' /\ ReturnedIsRecorded'
    BY <1>3, <2>1 DEF Mutate, Announced, ReturnedIsRecorded, InStore, CallTypes
  <2> QED  BY <2>1, <2>2, <2>3, <2>4
<1>4. ASSUME NEW c \in Calls, HandlerReturns(c) \/ HandlerThrows(c)  PROVE CallInv'
  BY <1>4, StartOfTurn, RowsAreDrafts DEF HandlerReturns, HandlerThrows, Idle, Announced, Recording
<1>5. ASSUME NEW p \in Proc, StoreStep(p)  PROVE CallInv'
  <2>1. Next /\ UNCHANGED callVars
    BY <1>5 DEF StoreStep, Next
  <2>2. IInv' /\ AllRows \subseteq AllRows'
    BY <2>1, NextPreserves, RowsStay
  <2>3. CASE WritePathStep(p)
    BY <2>1, <2>2, <2>3, StoreStepKeeps
  <2>4. CASE turn[p] = NoCall /\ RotateActiveSegment(p)
    <3>1. CallTypes' /\ Turns' /\ Announced' /\ ReturnedIsRecorded'
      BY <2>1, <2>2, FactsStay DEF callVars, CallTypes, Turns, Announced, ReturnedIsRecorded, Paired
    <3>2. Writing'
      BY <2>1, <2>4, NoCallAssumption, OwnerAssumption
      DEF RotateActiveSegment, Goto, Writing, Answered, Asked, InStore, Paired, callVars, shared,
          AllRows, ArchivedRows, IInv, TypeOK
    <3> QED  BY <2>2, <3>1, <3>2
  <2> QED  BY <1>5, <2>3, <2>4 DEF StoreStep, WritePathStep
<1>6. ASSUME NEW p \in Proc, HostCrash(p)  PROVE CallInv'
  BY <1>6, CrashKeeps
<1>7. CASE UNCHANGED allVars
  <2>1. IInv'
    BY <1>7, NextPreserves DEF allVars, vars
  <2> QED
    BY <1>7, <2>1 DEF allVars, CallTypes, Turns, Writing, Announced, ReturnedIsRecorded,
       Answered, Asked, InStore, Paired, AllRows, ArchivedRows
<1> QED  BY <1>1, <1>2, <1>3, <1>4, <1>5, <1>6, <1>7 DEF CallNext

THEOREM CallInvariance == CallSpec => []CallInv
BY CallInitEstablishes, CallNextPreserves, PTL DEF CallSpec

(* recordCommand and every runAudited fail closed: no handler changes the   *)
(* memory before its call's intent is committed, whichever of the hosts,    *)
(* records and rotations beside it fail or die.                             *)
THEOREM FailsClosed == CallSpec => []FailClosed
<1>1. CallInv => FailClosed
  BY DEF CallInv, Announced, FailClosed, CallTypes
<1> QED  BY <1>1, CallInvariance, PTL

(* A caller gets its handler's value only with an intent and a later result *)
(* in the store.                                                            *)
THEOREM SuccessIsRecorded == CallSpec => []ReturnedIsRecorded
<1>1. CallInv => ReturnedIsRecorded
  BY DEF CallInv
<1> QED  BY <1>1, CallInvariance, PTL
-------------------------------------------------------------------------------
(* Every row of a host is the intent or the result of a call.               *)
Phased == /\ \A r \in AllRows : r.draft.phase \in {"intent", "result"}
          /\ \A p \in Proc : draft[p] # NoDraft => draft[p].phase \in {"intent", "result"}

OrphanInv == CallInv /\ VerifyInv /\ Phased

LEMMA CallNextIsNext == [CallNext]_allVars => [Next]_vars
<1> SUFFICES ASSUME [CallNext]_allVars  PROVE [Next]_vars
  OBVIOUS
<1>1. ASSUME NEW c \in Calls,
             \/ Invoke(c) \/ CallStep(c) \/ Mutate(c) \/ HandlerReturns(c) \/ HandlerThrows(c)
      PROVE  [Next]_vars
  <2>1. Owner[c] \in Proc /\ IntentRow(c) \in Draft /\ ResultRow(c) \in Draft
    BY OwnerAssumption, RowsAreDrafts
  <2>2. \/ UNCHANGED vars
        \/ Begin(Owner[c], IntentRow(c)) \/ Begin(Owner[c], ResultRow(c))
    BY <1>1 DEF Invoke, CallStep, IntentRefused, Reject, CallHandler, ResultRecorded, Mutate,
       HandlerReturns, HandlerThrows
  <2> QED  BY <2>1, <2>2 DEF Next
<1>2. ASSUME NEW p \in Proc, StoreStep(p) \/ HostCrash(p)  PROVE [Next]_vars
  BY <1>2 DEF StoreStep, HostCrash, Next
<1>3. CASE UNCHANGED allVars
  BY <1>3 DEF allVars, vars
<1> QED  BY <1>1, <1>2, <1>3 DEF CallNext

(* A process carries on with the row it had, drops it, or is given the row   *)
(* of a call.                                                                *)
LEMMA DraftsComeFromCalls ==
  ASSUME TypeOK, [CallNext]_allVars, NEW q \in Proc
  PROVE  \/ draft'[q] \in {draft[q], NoDraft}
         \/ \E c \in Calls : draft'[q] \in {IntentRow(c), ResultRow(c)}
<1> USE DEF TypeOK
<1>1. ASSUME NEW c \in Calls,
             \/ Invoke(c) \/ CallStep(c) \/ Mutate(c) \/ HandlerReturns(c) \/ HandlerThrows(c)
      PROVE  \/ draft'[q] = draft[q]
             \/ \E e \in Calls : draft'[q] \in {IntentRow(e), ResultRow(e)}
  <2>1. \/ UNCHANGED vars
        \/ Begin(Owner[c], IntentRow(c)) \/ Begin(Owner[c], ResultRow(c))
    BY <1>1 DEF Invoke, CallStep, IntentRefused, Reject, CallHandler, ResultRecorded, Mutate,
       HandlerReturns, HandlerThrows
  <2> QED  BY <2>1 DEF Begin, vars
<1>2. ASSUME NEW p \in Proc, HostCrash(p)  PROVE draft'[q] \in {draft[q], NoDraft}
  BY <1>2 DEF HostCrash, Crash
<1>3. ASSUME NEW p \in Proc, StoreStep(p)  PROVE draft'[q] \in {draft[q], NoDraft}
  <2> USE DEF End, Rotated, HeadWritten
  <2>1. CASE EnsureSealer(p) \/ ReadHead(p) \/ Migrate(p) \/ Compare(p) \/ Lookup(p) \/ RotateIfNeeded(p)
    BY <2>1 DEF EnsureSealer, ReadHead, Migrate, Compare, Lookup, RotateIfNeeded
  <2>2. CASE WriteArchive(p) \/ CommitRotation(p) \/ AppendRow(p)
    BY <2>2 DEF WriteArchive, CommitRotation, AppendRow
  <2>3. CASE WriteHeadRead(p) \/ WriteHeadRename(p) \/ RotateActiveSegment(p) \/ BootstrapFails(p)
    BY <2>3 DEF WriteHeadRead, WriteHeadRename, RotateActiveSegment, BootstrapFails
  <2>4. CASE RotationFails(p) \/ Busy(p) \/ IoError(p)
    BY <2>4 DEF RotationFails, Busy, IoError
  <2> QED  BY <1>3, <2>1, <2>2, <2>3, <2>4 DEF StoreStep, Step
<1>4. CASE UNCHANGED allVars
  BY <1>4 DEF allVars
<1> QED  BY <1>1, <1>2, <1>3, <1>4 DEF CallNext

LEMMA OrphanInit == CallInit => OrphanInv
<1> SUFFICES ASSUME CallInit  PROVE OrphanInv
  OBVIOUS
<1>1. CallInv /\ VerifyInv
  BY CallInitEstablishes, VerifyInit DEF CallInit
<1>2. Phased
  BY DEF CallInit, Init, Phased, AllRows, ArchivedRows
<1> QED  BY <1>1, <1>2 DEF OrphanInv

LEMMA OrphanNext == OrphanInv /\ [CallNext]_allVars => OrphanInv'
<1> SUFFICES ASSUME OrphanInv, [CallNext]_allVars  PROVE OrphanInv'
  OBVIOUS
<1>1. [Next]_vars /\ IInv /\ TypeOK
  BY CallNextIsNext DEF OrphanInv, VerifyInv, IInv
<1>2. CallInv' /\ VerifyInv'
  BY <1>1, CallNextPreserves, VerifyNext DEF OrphanInv
<1>3. ASSUME NEW r \in AllRows'  PROVE r.draft.phase \in {"intent", "result"}
  <2>1. CASE r \in AllRows
    BY <2>1 DEF OrphanInv, Phased
  <2>2. CASE r \notin AllRows
    <3>1. PICK p \in Proc : AppendRow(p) /\ r = NewRow(p)
      BY <1>1, <2>2, RowsComeFromAppends
    <3>2. draft[p] # NoDraft
      BY <1>1, <3>1 DEF IInv, Working, AppendRow
    <3> QED  BY <3>1, <3>2 DEF OrphanInv, Phased, NewRow
  <2> QED  BY <2>1, <2>2
<1>4. ASSUME NEW q \in Proc, draft'[q] # NoDraft  PROVE draft'[q].phase \in {"intent", "result"}
  <2>1. CASE draft'[q] = draft[q]
    BY <1>4, <2>1 DEF OrphanInv, Phased
  <2>2. CASE \E c \in Calls : draft'[q] \in {IntentRow(c), ResultRow(c)}
    BY <2>2 DEF IntentRow, ResultRow
  <2> QED  BY <1>1, <1>4, <2>1, <2>2, DraftsComeFromCalls
<1> QED  BY <1>2, <1>3, <1>4 DEF OrphanInv, Phased

THEOREM OrphanInvariance == CallSpec => []OrphanInv
BY OrphanInit, OrphanNext, PTL DEF CallSpec

(* psy verify --all reports every call that changed the memory and left an   *)
(* intent without its result, however many hosts, crashes and rotations lie  *)
(* between the call and the verification (recordCommand and verifyPairs).    *)
THEOREM OrphansAreFlagged == CallSpec => []VerifyAllFlagsOrphans
<1>1. OrphanInv => VerifyAllFlagsOrphans
  <2> SUFFICES ASSUME OrphanInv, NEW c \in HalfRecorded
               PROVE  "orphaned_intent" \in VerifyIssues(TRUE)
    BY DEF VerifyAllFlagsOrphans
  <2> DEFINE n      == meta.last_seq
             walked == WalkedRows(TRUE)
             of     == {j \in DOMAIN walked : walked[j].draft.call = c}
  <2>1. IInv /\ VerifyInv /\ TypeOK /\ ChainIntact
    BY DEF OrphanInv, VerifyInv, IInv
  <2>2. n \in Nat /\ DOMAIN walked = 1 .. n /\ \A j \in 1 .. n : walked[j] = RowIn(AllRows, j)
    <3>1. walked = Rows(0, n) /\ n \in Nat
      BY <2>1, WalkedRowsAre
    <3>2. n - 0 = n /\ \A j \in 1 .. n : 0 + j = j
      BY <3>1
    <3> QED  BY <3>1, <3>2 DEF Rows
  <2>3. c \in Calls /\ ~InStore(ResultRow(c))
    BY DEF HalfRecorded, OrphanInv, CallInv, CallTypes
  <2>4. PICK r \in AllRows : r.draft = IntentRow(c)
    BY <2>3 DEF HalfRecorded, OrphanInv, CallInv, Announced, InStore
  <2>5. r.seq \in 1 .. n
    BY <2>1, <2>2 DEF IInv, ChainIntact, TypeOK, Row, Locked, AllRows, ArchivedRows
  <2>6. walked[r.seq] = r
    BY <2>1, <2>2, <2>5, ChainRows
  <2>7. r.seq \in of /\ walked[r.seq].draft.phase = "intent"
    <3>1. r.seq \in DOMAIN walked /\ walked[r.seq].draft = IntentRow(c)
      BY <2>2, <2>4, <2>5, <2>6
    <3> HIDE DEF walked
    <3> QED  BY <3>1 DEF IntentRow
  <2>8. ASSUME NEW i \in of  PROVE walked[i].draft.phase = "intent"
    <3>0. i \in 1 .. n /\ walked[i].draft.call = c
      <4>1. \A j \in of : j \in DOMAIN walked /\ walked[j].draft.call = c
        OBVIOUS
      <4> QED  BY <2>2, <4>1
    <3>1. walked[i] \in AllRows /\ walked[i].draft.call = c
      BY <2>1, <2>2, <3>0, ChainRows
    <3>2. walked[i].draft \in Draft /\ walked[i].draft.phase \in {"intent", "result"}
      <4>1. \A q \in AllRows : q.draft \in Draft
        BY <2>1 DEF IInv, TypeOK, Row, Locked, AllRows, ArchivedRows
      <4> HIDE DEF walked
      <4> QED  BY <3>1, <4>1 DEF OrphanInv, Phased
    <3>3. ASSUME walked[i].draft.phase = "result"  PROVE FALSE
      <4>1. walked[i].draft = ResultRow(c)
        BY <3>1, <3>2, <3>3 DEF Draft, ResultRow
      <4> QED  BY <2>3, <3>1, <4>1 DEF InStore
    <3> QED  BY <3>2, <3>3
  <2>9. {walked[i].draft.phase : i \in of} = {"intent"}
    BY <2>7, <2>8
  <2>10. "orphaned_intent" \in PairIssues(walked)
    BY <2>3, <2>9 DEF PairIssues
  <2> QED  BY <2>10 DEF VerifyIssues
<1> QED  BY <1>1, OrphanInvariance, PTL
-------------------------------------------------------------------------------
(* All calls are made by one host; other processes may only rotate, or die.  *)
(* With two hosts that seal, a late rename can put the head back behind an   *)
(* intent it had covered, so the next theorem needs this.                    *)
OneHost == \A c, d \in Calls : Owner[c] = Owner[d]

UnderSeal(c) == \E r \in AllRows : r.draft = IntentRow(c) /\ r.seq <= head.seq

Bystanders == \A p \in Proc : (\A c \in Calls : Owner[c] # p) =>
                 pc[p] \in {"idle", "archive", "commit"} /\ draft[p] = NoDraft

(* What the host knows while it records the intent of a call: whether it     *)
(* has a sealer, from the first step on; that the row it is sealing is the   *)
(* intent; and in the end that the head covers it.                           *)
AskingFor(c) ==
    LET p == Owner[c] IN
    /\ pc[p] \notin {"idle", "ensure"} => sealer[p] # "unset"
    /\ pc[p] \in {"sealRead", "sealRename"} => target[p].draft = IntentRow(c)
    /\ pc[p] = "idle" /\ result[p] = "ok" => sealer[p] = "null" \/ UnderSeal(c)

Asking == \A c \in Calls : turn[Owner[c]] = c /\ stage[c] = "intent" => AskingFor(c)

SealInv == OneHost /\ CallInv /\ Bystanders /\ Asking

LEMMA SealInit == OneHost /\ CallInit => SealInv
<1> SUFFICES ASSUME OneHost, CallInit  PROVE SealInv
  OBVIOUS
<1>1. CallInv
  BY CallInitEstablishes
<1>2. Bystanders
  BY DEF CallInit, Init, Bystanders
<1>3. Asking
  BY DEF CallInit, Asking
<1> QED  BY <1>1, <1>2, <1>3 DEF SealInv

(* A head that has reached the row a process is sealing covers that row.     *)
LEMMA TargetIsCovered ==
  ASSUME CallInv, NEW c \in Calls, NEW p \in Proc, target[p].draft = IntentRow(c),
         NEW h \in Ref, target[p].seq <= h.seq
  PROVE  \E r \in AllRows : r.draft = IntentRow(c) /\ r.seq <= h.seq
<1>1. target[p] # Genesis
  BY RowsAreDrafts DEF Genesis
<1>2. PICK r \in AllRows : Hash(r) = target[p]
  BY <1>1 DEF CallInv, IInv, Sealable, Committed
<1> QED  BY <1>2 DEF Hash

(* The write path that records an intent, step by step.                      *)
LEMMA AskingStep ==
  ASSUME CallInv, NEW c \in Calls, turn[Owner[c]] = c, stage[c] = "intent", AskingFor(c),
         WritePathStep(Owner[c]), AllRows \subseteq AllRows'
  PROVE  AskingFor(c)'
<1> DEFINE p == Owner[c]
<1>1. /\ TypeOK /\ p \in Proc /\ pc[p] # "idle"
      /\ pc[p] \notin {"sealRead", "sealRename"} => draft[p] = IntentRow(c) /\ draft[p] # NoDraft
  BY OnlyItself, OwnerAssumption, RowsAreDrafts DEF CallInv, IInv, Writing, Asked
<1>2. /\ pc[p] # "ensure" => sealer[p] # "unset"
      /\ pc[p] \in {"sealRead", "sealRename"} => target[p].draft = IntentRow(c)
  BY <1>1 DEF AskingFor
<1> HIDE DEF p
<1> SUFFICES /\ pc'[p] \notin {"idle", "ensure"} => sealer'[p] # "unset"
             /\ pc'[p] \in {"sealRead", "sealRename"} => target'[p].draft = IntentRow(c)
             /\ pc'[p] = "idle" /\ result'[p] = "ok" => sealer'[p] = "null" \/ UnderSeal(c)'
  BY DEF AskingFor, UnderSeal, IntentRow, p
<1> USE <1>1, <1>2 DEF TypeOK, Goto, End
<1>3. CASE EnsureSealer(p) \/ BootstrapFails(p)
  BY <1>3 DEF EnsureSealer, BootstrapFails
<1>4. CASE ReadHead(p) \/ Compare(p) \/ Lookup(p) \/ RotateIfNeeded(p)
  BY <1>4 DEF ReadHead, Compare, Lookup, RotateIfNeeded, Checked, Unchecked
<1>5. CASE Migrate(p)
  BY <1>5 DEF Migrate, Adopted, Checked, Unchecked
<1>6. CASE WriteArchive(p) \/ CommitRotation(p)
  BY <1>6 DEF WriteArchive, CommitRotation, Rotated
<1>7. CASE AppendRow(p)
  BY <1>7 DEF AppendRow, SealsRow, NewRow, Hash
<1>8. CASE WriteHeadRead(p)
  <2>1. CASE pc[p] = "adoptRead"
    BY <1>8, <2>1 DEF WriteHeadRead, HeadWritten, Adopted, Checked, Unchecked
  <2>2. CASE pc[p] = "sealRead"
    <3>1. CASE head.seq < target[p].seq
      <4>1. ~(head.seq = target[p].seq) /\ ~(head.seq > target[p].seq) /\ head # target[p]
        BY <3>1 DEF Ref
      <4> QED  BY <1>8, <2>2, <4>1 DEF WriteHeadRead
    <3>2. CASE head.seq = target[p].seq /\ head # target[p]
      <4>1. ~(head.seq < target[p].seq) /\ ~(head.seq > target[p].seq)
        BY <3>2 DEF Ref
      <4> QED  BY <1>8, <2>2, <3>2, <4>1 DEF WriteHeadRead
    <3>3. CASE head.seq > target[p].seq \/ head = target[p]
      <4>1. target[p].seq <= head.seq /\ ~(head.seq < target[p].seq)
        BY <3>3 DEF Ref
      <4>2. UnderSeal(c)
        BY <2>2, <4>1, TargetIsCovered DEF UnderSeal
      <4>3. UnderSeal(c)'
        BY <1>8, <4>2 DEF WriteHeadRead, shared, UnderSeal, IntentRow
      <4> QED  BY <1>8, <2>2, <4>1, <4>3 DEF WriteHeadRead, HeadWritten
    <3> QED  BY <1>8, <3>1, <3>2, <3>3 DEF WriteHeadRead
  <2> QED  BY <1>8, <2>1, <2>2 DEF WriteHeadRead
<1>9. CASE WriteHeadRename(p)
  <2>1. CASE pc[p] = "adoptRename"
    BY <1>9, <2>1 DEF WriteHeadRename, HeadWritten, Adopted, Checked, Unchecked
  <2>2. CASE pc[p] = "sealRename"
    <3>1. target[p].seq <= target[p].seq /\ target[p] \in Ref
      BY DEF Ref
    <3>2. \E r \in AllRows : r.draft = IntentRow(c) /\ r.seq <= target[p].seq
      BY <2>2, <3>1, TargetIsCovered
    <3>3. UnderSeal(c)'
      BY <1>9, <3>2 DEF WriteHeadRename, UnderSeal, IntentRow
    <3> QED  BY <1>9, <2>2, <3>3 DEF WriteHeadRename, HeadWritten
  <2> QED  BY <1>9, <2>1, <2>2 DEF WriteHeadRename
<1>10. CASE RotationFails(p) \/ Busy(p) \/ IoError(p)
  BY <1>10 DEF RotationFails, Busy, IoError
<1> QED
  BY <1>3, <1>4, <1>5, <1>6, <1>7, <1>8, <1>9, <1>10 DEF WritePathStep, Step, p

(* A process without calls only moves rows to the archives.                  *)
LEMMA BystanderStep ==
  ASSUME IInv, NEW p \in Proc, StoreStep(p) \/ Crash(p),
         pc[p] \in {"idle", "archive", "commit"}, draft[p] = NoDraft
  PROVE  /\ pc'[p] \in {"idle", "archive", "commit"} /\ draft'[p] = NoDraft
         /\ head' = head
         /\ \A q \in Proc \ {p} : /\ pc'[q] = pc[q] /\ draft'[q] = draft[q]
                                  /\ sealer'[q] = sealer[q] /\ target'[q] = target[q]
                                  /\ result'[q] = result[q]
<1> USE DEF IInv, TypeOK, Goto, End
<1>1. CASE EnsureSealer(p) \/ BootstrapFails(p) \/ ReadHead(p) \/ Migrate(p) \/ Compare(p)
  BY <1>1 DEF EnsureSealer, BootstrapFails, ReadHead, Migrate, Compare
<1>2. CASE Lookup(p) \/ RotateIfNeeded(p) \/ AppendRow(p) \/ WriteHeadRead(p) \/ WriteHeadRename(p)
  BY <1>2 DEF Lookup, RotateIfNeeded, AppendRow, WriteHeadRead, WriteHeadRename
<1>3. CASE WriteArchive(p) \/ CommitRotation(p) \/ RotateActiveSegment(p)
  BY <1>3 DEF WriteArchive, CommitRotation, RotateActiveSegment, Rotated, shared
<1>4. CASE RotationFails(p) \/ Busy(p) \/ IoError(p)
  BY <1>4 DEF RotationFails, Busy, IoError, shared
<1>5. CASE Crash(p)
  BY <1>5 DEF Crash
<1> QED  BY <1>1, <1>2, <1>3, <1>4, <1>5 DEF StoreStep, Step

LEMMA OwnerStep ==
  ASSUME IInv, NEW p \in Proc, StoreStep(p) \/ Crash(p)
  PROVE  \A q \in Proc \ {p} : pc'[q] = pc[q] /\ draft'[q] = draft[q]
<1> USE DEF IInv, TypeOK, Goto, End
<1>1. CASE WritePathStep(p)
  BY <1>1, OnlyItself
<1>2. CASE RotateActiveSegment(p)
  BY <1>2 DEF RotateActiveSegment
<1>3. CASE Crash(p)
  BY <1>3 DEF Crash
<1> QED  BY <1>1, <1>2, <1>3 DEF StoreStep, WritePathStep

(* Whatever a call does next, only an invocation has the thread ask for an   *)
(* intent, and it starts at the sealer.                                      *)
LEMMA CallActionAsks ==
  ASSUME SealInv, NEW e \in Calls,
         \/ Invoke(e) \/ CallStep(e) \/ Mutate(e) \/ HandlerReturns(e) \/ HandlerThrows(e)
  PROVE  Bystanders' /\ Asking'
<1> USE DEF SealInv, OneHost, CallInv, CallTypes
<1>1. TypeOK /\ Owner[e] \in Proc /\ NoCall \notin Calls
  BY OwnerAssumption, NoCallAssumption DEF IInv
<1>2. \/ UNCHANGED vars
      \/ Begin(Owner[e], IntentRow(e)) \/ Begin(Owner[e], ResultRow(e))
  BY DEF Invoke, CallStep, IntentRefused, Reject, CallHandler, ResultRecorded, Mutate,
     HandlerReturns, HandlerThrows
<1>3. Bystanders'
  <2> SUFFICES ASSUME NEW p \in Proc, p # Owner[e]
               PROVE  pc'[p] = pc[p] /\ draft'[p] = draft[p]
    BY DEF Bystanders
  <2> QED  BY <1>1, <1>2 DEF TypeOK, Begin, Goto, vars
<1>4. Asking'
  <2> SUFFICES ASSUME NEW c \in Calls, turn'[Owner[c]] = c, stage'[c] = "intent"
               PROVE  AskingFor(c)'
    BY DEF Asking
  <2>1. Owner[c] = Owner[e]
    OBVIOUS
  <2>2. CASE Invoke(e)
    <3>1. c = e
      BY <1>1, <2>1, <2>2 DEF Invoke, Turn
    <3>2. pc'[Owner[e]] \notin {"idle", "sealRead", "sealRename"}
          /\ (pc'[Owner[e]] # "ensure" => sealer'[Owner[e]] # "unset")
      BY <1>1, <2>2 DEF Invoke, Begin, Goto, FirstStep, Unchecked, TypeOK
    <3> QED  BY <3>1, <3>2 DEF AskingFor
  <2>3. CASE IntentRefused(e) \/ CallHandler(e) \/ ResultRecorded(e)
    BY <1>1, <2>1, <2>3 DEF IntentRefused, CallHandler, ResultRecorded, Turn
  <2>4. CASE Reject(e) \/ HandlerReturns(e) \/ HandlerThrows(e)
    <3>1. turn'[Owner[e]] = e /\ stage'[e] # "intent"
      BY <1>1, <2>4 DEF Reject, Recorded, HandlerReturns, HandlerThrows, Turn, Stage
    <3> QED  BY <2>1, <3>1
  <2>5. CASE Mutate(e)
    BY <2>5 DEF Mutate, vars, Asking, AskingFor, UnderSeal, IntentRow, AllRows, ArchivedRows
  <2> QED  BY <2>2, <2>3, <2>4, <2>5 DEF CallStep
<1> QED  BY <1>3, <1>4

LEMMA SealNext == SealInv /\ [CallNext]_allVars => SealInv'
<1> SUFFICES ASSUME SealInv, [CallNext]_allVars  PROVE SealInv'
  OBVIOUS
<1>1. CallInv' /\ OneHost'
  BY CallNextPreserves DEF SealInv, OneHost
<1>2. IInv /\ TypeOK /\ AllRows \subseteq AllRows'
  BY CallNextIsNext, RowsStay DEF SealInv, CallInv, IInv
<1>3. ASSUME NEW e \in Calls,
             \/ Invoke(e) \/ CallStep(e) \/ Mutate(e) \/ HandlerReturns(e) \/ HandlerThrows(e)
      PROVE  Bystanders' /\ Asking'
  BY <1>3, CallActionAsks
<1>4. ASSUME NEW p \in Proc, StoreStep(p) \/ HostCrash(p)  PROVE Bystanders' /\ Asking'
  <2>1. StoreStep(p) \/ Crash(p)
    BY <1>4 DEF HostCrash
  <2>2. Bystanders'
    BY <1>2, <2>1, OwnerStep, BystanderStep DEF SealInv, Bystanders
  <2>3. Asking'
    <3> SUFFICES ASSUME NEW c \in Calls, turn'[Owner[c]] = c, stage'[c] = "intent"
                 PROVE  AskingFor(c)'
      BY DEF Asking
    <3>1. Owner[c] \in Proc /\ NoCall \notin Calls
      BY OwnerAssumption, NoCallAssumption
    <3>2. turn[Owner[c]] = c /\ stage[c] = "intent" /\ AskingFor(c)
      BY <1>4, <3>1 DEF StoreStep, HostCrash, callVars, SealInv, CallInv, CallTypes, Asking
    <3>3. CASE p = Owner[c]
      <4>1. StoreStep(p)
        BY <1>4, <3>1, <3>3 DEF HostCrash, SealInv, CallInv, CallTypes
      <4>2. WritePathStep(p)
        BY <3>1, <3>2, <3>3, <4>1 DEF StoreStep, WritePathStep
      <4> QED  BY <1>2, <3>2, <3>3, <4>2, AskingStep DEF SealInv
    <3>4. CASE p # Owner[c]
      <4>1. \A d \in Calls : Owner[d] # p
        BY <3>4 DEF SealInv, OneHost
      <4>2. pc[p] \in {"idle", "archive", "commit"} /\ draft[p] = NoDraft
        BY <4>1 DEF SealInv, Bystanders
      <4>3. /\ head' = head
            /\ pc'[Owner[c]] = pc[Owner[c]] /\ sealer'[Owner[c]] = sealer[Owner[c]]
            /\ target'[Owner[c]] = target[Owner[c]] /\ result'[Owner[c]] = result[Owner[c]]
        BY <1>2, <2>1, <3>1, <3>4, <4>2, BystanderStep
      <4>4. UnderSeal(c) => UnderSeal(c)'
        BY <1>2, <4>3 DEF UnderSeal, IntentRow
      <4> QED  BY <3>2, <4>3, <4>4 DEF AskingFor, IntentRow
    <3> QED  BY <3>3, <3>4
  <2> QED  BY <2>2, <2>3
<1>5. ASSUME UNCHANGED allVars  PROVE Bystanders' /\ Asking'
  <2>1. Bystanders'
    BY <1>5 DEF allVars, SealInv, Bystanders
  <2>2. \A c \in Calls : UnderSeal(c) => UnderSeal(c)'
    BY <1>2, <1>5 DEF allVars, UnderSeal, IntentRow
  <2>3. Asking'
    BY <1>5, <2>2 DEF allVars, SealInv, Asking, AskingFor, IntentRow
  <2> QED  BY <2>1, <2>3
<1>6. Bystanders' /\ Asking'
  BY <1>3, <1>4, <1>5 DEF CallNext
<1> QED  BY <1>1, <1>6 DEF SealInv

THEOREM SealInvariance == OneHost /\ CallSpec => []SealInv
BY SealInit, SealNext, PTL DEF CallSpec

(* recordCommand runs a handler only when the head covers the call's intent, *)
(* or when its host has no sealer: whichever crashes and failures came       *)
(* before, and with other processes rotating beside it.                      *)
THEOREM HandlersRunUnderSeal == OneHost /\ CallSpec => RunsUnderSeal
<1> DEFINE A == \A c \in Calls : stage[c] = "intent" /\ stage'[c] = "running" =>
                  \/ sealer[Owner[c]] = "null"
                  \/ \E r \in AllRows : r.draft = IntentRow(c) /\ r.seq <= head.seq
<1>1. SealInv /\ [CallNext]_allVars => [A]_allVars
  <2> SUFFICES ASSUME SealInv, CallNext, NEW c \in Calls, stage[c] = "intent", stage'[c] = "running"
               PROVE  \/ sealer[Owner[c]] = "null"
                      \/ \E r \in AllRows : r.draft = IntentRow(c) /\ r.seq <= head.seq
    OBVIOUS
  <2>1. ASSUME NEW e \in Calls,
               \/ Invoke(e) \/ CallStep(e) \/ Mutate(e) \/ HandlerReturns(e) \/ HandlerThrows(e)
        PROVE  CallHandler(c)
    BY <2>1 DEF Invoke, CallStep, IntentRefused, Reject, CallHandler, ResultRecorded, Mutate,
       HandlerReturns, HandlerThrows, Stage, SealInv, CallInv, CallTypes, Recording
  <2>2. ASSUME NEW p \in Proc, StoreStep(p) \/ HostCrash(p)  PROVE FALSE
    BY <2>2 DEF StoreStep, HostCrash, callVars
  <2>3. CallHandler(c)
    BY <2>1, <2>2 DEF CallNext
  <2>4. sealer[Owner[c]] = "null" \/ UnderSeal(c)
    BY <2>3 DEF CallHandler, Recorded, SealInv, Asking, AskingFor
  <2> QED  BY <2>4 DEF UnderSeal
<1>2. RunsUnderSeal <=> [][A]_allVars
  BY DEF RunsUnderSeal
<1> QED  BY <1>1, <1>2, SealInvariance, PTL DEF CallSpec
===============================================================================
