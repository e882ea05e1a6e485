------------------------------- MODULE TtlCache -------------------------------
(***************************************************************************)
(* The cache of ttl-cache.js of the OpenClaw plugin: a JavaScript Map with *)
(* a time to live and a size limit. A Map keeps the order of insertion, so *)
(* a cache is a sequence of entries, the least recently set first.         *)
(***************************************************************************)
LOCAL INSTANCE Naturals
LOCAL INSTANCE Sequences

CONSTANTS Ttl, MaxEntries

Empty == <<>>

\* Mutant: makes room for one more than it needs.
TrimEarly(C) == IF Len(C) >= MaxEntries THEN SubSeq(C, Len(C) - MaxEntries + 2, Len(C)) ELSE C
TrimToSize(C) == IF Len(C) > MaxEntries THEN SubSeq(C, Len(C) - MaxEntries + 1, Len(C)) ELSE C

\* The entries at the places in I, in their order: what deleting the others leaves.
Keep(C, I) ==
    LET kept[n \in 0 .. Len(C)] == IF n = 0     THEN <<>> ELSE
                                   IF n \in I THEN Append(kept[n - 1], C[n]) ELSE kept[n - 1]
    IN  kept[Len(C)]

Prune(C, now) == TrimToSize(Keep(C, {i \in DOMAIN C : C[i].ts + Ttl >= now}))

Without(C, key) == Keep(C, {i \in DOMAIN C : C[i].key # key})

Has(C, key, now) == \E i \in DOMAIN Prune(C, now) : Prune(C, now)[i].key = key

\* get(key), of a key it has
Value(C, key, now) ==
    LET P == Prune(C, now) IN P[CHOOSE i \in DOMAIN P : P[i].key = key].value

Set(C, key, value, now) ==
    TrimToSize(Append(Without(Prune(C, now), key), [key |-> key, value |-> value, ts |-> now]))

\* What remember(key) leaves, whether it had the key (a hit counts as new) or not.
Remember(C, key, now) == Set(C, key, TRUE, now)

\* What take(key) leaves.
Take(C, key, now) == Without(Prune(C, now), key)
=============================================================================
