----------------------------- MODULE DedupeCache -----------------------------
(***************************************************************************)
(* DedupeCache of psy_core/hermes/hooks.py: an OrderedDict from keys to    *)
(* the time they were recorded, as the sequence of its items. A hit moves  *)
(* a key to the end and keeps its time, so the items are not in the order  *)
(* of their times, and expiry stops at the first one that is young.        *)
(*                                                                         *)
(* Hooks fire on several threads. Each reads the clock before it takes the *)
(* lock, so the times of the calls, in the order of the lock, are not in   *)
(* order either.                                                           *)
(*                                                                         *)
(* HermesHooks uses a cache that never forgets, the TTL being sixty times  *)
(* its pairing window; here is what the cache does over a longer time.     *)
(***************************************************************************)
EXTENDS Naturals, Sequences, FiniteSets, SequencesExt

CONSTANTS HookKey,            \* what _handle_pre makes of id, tool and arguments
          Thread,
          TtlS,               \* ttl_s
          MaxEntries,         \* max_entries
          MaxClock, MaxHooks  \* bounds

ASSUME CacheAssumption == TtlS \in Nat /\ MaxEntries \in Nat \ {0} /\ MaxClock \in Nat

VARIABLES clock,
          caller,  \* per thread, the call of seen() that waits for the lock
          store,   \* _store
          calls    \* history: the calls in the order they held the lock

cacheVars == <<clock, caller, store, calls>>

NoCall == [step |-> "idle"]

CacheInit == clock = 0 /\ caller = [t \in Thread |-> NoCall] /\ store = <<>> /\ calls = <<>>

(* ------------------------------- the store ------------------------------ *)

Expired(item, at) == item.at + TtlS < at

\* _evict_expired: from the front, up to the first item that is not expired.
EvictExpired(S, at) ==
    LET young == {i \in DOMAIN S : ~Expired(S[i], at)}
        first == CHOOSE i \in young : \A j \in young : i <= j
    IN  IF young = {} THEN <<>> ELSE SubSeq(S, first, Len(S))

Known(S, key) == \E i \in DOMAIN S : S[i].key = key

\* Mutant: a hit leaves its item where it is.
StayInPlace(S, key) == S
MoveToEnd(S, key) == LET i == CHOOSE i \in DOMAIN S : S[i].key = key
                     IN  Append(RemoveAt(S, i), S[i])

\* The item in front goes when there is one too many.
Record(S, key, at) == LET R == Append(S, [key |-> key, at |-> at])
                      IN  IF Len(R) > MaxEntries THEN Tail(R) ELSE R

(* ------------------------------ the threads ----------------------------- *)

\* seen(key), up to the lock
ReadClock(t, key) ==
    /\ caller[t] = NoCall /\ Len(calls) < MaxHooks
    /\ caller' = [caller EXCEPT ![t] = [step |-> "lock", key |-> key, at |-> clock]]
    /\ UNCHANGED <<clock, store, calls>>

\* The rest of seen(key), under the lock.
LookUp(t) ==
    /\ caller[t] # NoCall
    /\ LET key   == caller[t].key
           at    == caller[t].at
           young == EvictExpired(store, at)
           known == Known(young, key)
       IN  /\ store' = IF known THEN MoveToEnd(young, key) ELSE Record(young, key, at)
           /\ calls' = Append(calls, [key |-> key, at |-> at, when |-> clock, seen |-> known])
    /\ caller' = [caller EXCEPT ![t] = NoCall]
    /\ UNCHANGED clock

ClockTick == clock < MaxClock /\ clock' = clock + 1 /\ UNCHANGED <<caller, store, calls>>

CacheNext == (\E t \in Thread : LookUp(t) \/ \E key \in HookKey : ReadClock(t, key)) \/ ClockTick

CacheSpec == CacheInit /\ [][CacheNext]_cacheVars

(* ------------------------------- properties ----------------------------- *)

Row == [key : HookKey, at : 0 .. clock, when : 0 .. clock, seen : BOOLEAN]

CacheTypeOK ==
    /\ clock \in 0 .. MaxClock
    /\ caller \in [Thread -> {NoCall} \cup [step : {"lock"}, key : HookKey, at : 0 .. clock]]
    /\ store \in Seq([key : HookKey, at : 0 .. clock]) /\ Len(store) <= MaxEntries
    /\ calls \in Seq(Row)

(* A hook is taken for a repetition only if its key had one within the TTL;  *)
(* and a hook that repeats an intent within the TTL is taken for one, how-   *)
(* ever the hooks of other keys mix with it, unless MaxEntries other keys    *)
(* fired since its key did. The time a hook took the lock counts for it, or  *)
(* the time it read the clock before, whichever promises less.               *)
RepeatsAreKnown ==
    \A j \in DOMAIN calls :
        LET earlier   == {i \in 1 .. j - 1 : calls[i].key = calls[j].key}
            intents   == {i \in earlier : ~calls[i].seen /\ \A k \in earlier : k > i => calls[k].seen}
            others(i) == {calls[k].key : k \in i + 1 .. j - 1} \ {calls[j].key}
        IN  IF calls[j].seen
            THEN \E i \in earlier : calls[j].at <= calls[i].when + TtlS
            ELSE \/ \A i \in intents : calls[j].when > calls[i].at + TtlS
                 \/ \A i \in earlier : Cardinality(others(i)) >= MaxEntries
===============================================================================
