----------------------------- MODULE FrameCache -----------------------------
(***************************************************************************)
(* The decoded-frame cache of nle-cache: a map from frame keys to entries  *)
(* with the generation of their last access, a byte count, and a counter   *)
(* of generations that is renumbered before it rolls over (MaxAccess is    *)
(* u64::MAX).  Every operation runs under one exclusive reference.         *)
(***************************************************************************)
EXTENDS Integers, FiniteSets, SequencesExt, Functions

CONSTANTS ByteBudget, Key, Value, Nothing,
          MaxAccess     \* the largest access generation

\* There are fewer entries than generations, or the renumbering of
\* take_access_generation would not make room.
ASSUME FrameCacheConstants ==
    /\ ByteBudget \in Nat /\ MaxAccess \in Nat
    /\ IsFiniteSet(Key) /\ Cardinality(Key) < MaxAccess
    /\ \A value \in Value : value.size \in Nat

VARIABLES
    entries,    \* key |-> its value and last_access
    used,       \* used_bytes
    next,       \* next_access
    answer      \* what the last operation returned

cacheVars == <<entries, used, next, answer>>

Holds(key) == key \in DOMAIN entries
Held(key)  == IF Holds(key) THEN entries[key].value ELSE Nothing
Drop(es, key) == Restrict(es, DOMAIN es \ {key})

\* The replaced frame stays counted.
FreesNothing(key) == 0
Freed(key) == IF Holds(key) THEN entries[key].value.size ELSE 0

FrameCacheInit == /\ entries = [key \in {} |-> Nothing]
             /\ used = 0 /\ next = 0
             /\ answer = Nothing

\* Renumbering by key order.
RenumberByKey(es) ==
    LET order == SetToSeq(DOMAIN es)
    IN [key \in DOMAIN es |-> [es[key] EXCEPT !.last = CHOOSE i \in DOMAIN order : order[i] = key]]

\* renumber_access_generations keeps the order and closes the gaps.
Rank(es, key) == Cardinality({other \in DOMAIN es : es[other].last <= es[key].last})
Renumber(es) == [key \in DOMAIN es |-> [es[key] EXCEPT !.last = Rank(es, key)]]

\* take_access_generation: the entries it leaves and the generation it gives.
Renumbered(es) == IF next = MaxAccess THEN Renumber(es) ELSE es
Generation(es) == (IF next = MaxAccess THEN Cardinality(DOMAIN es) ELSE next) + 1

Stamp(es, key) == [Renumbered(es) EXCEPT ![key].last = Generation(es)]

\* get takes a generation also when the key is missing.
GetFrame(key) == /\ next' = Generation(entries)
                 /\ entries' = IF Holds(key) THEN Stamp(entries, key) ELSE Renumbered(entries)
                 /\ answer' = Held(key)
                 /\ used' = used

\* evict_to_budget: the oldest goes while too many bytes are used.
Oldest(es) == CHOOSE key \in DOMAIN es : \A other \in DOMAIN es : es[key].last <= es[other].last
EvictOldest(cache) ==
    LET key == Oldest(cache.entries)
    IN IF cache.used > ByteBudget
         THEN [entries |-> Drop(cache.entries, key),
               used    |-> cache.used - cache.entries[key].value.size]
         ELSE cache
Evicted(es, bytes) ==
    LET after[n \in 0..Cardinality(DOMAIN es)] ==
            IF n = 0 THEN [entries |-> es, used |-> bytes] ELSE EvictOldest(after[n - 1])
    IN after[Cardinality(DOMAIN es)]

\* insert takes its generation after the replaced entry is gone.
InsertFrame(key, value) ==
    LET others == Drop(entries, key)
        entry  == [value |-> value, last |-> Generation(others)]
        stored == [k \in DOMAIN others \cup {key} |->
                      IF k = key THEN entry ELSE Renumbered(others)[k]]
        cache  == Evicted(stored, used - Freed(key) + value.size)
    IN /\ value.size <= ByteBudget
       /\ next' = Generation(others)
       /\ entries' = cache.entries
       /\ used' = cache.used
       /\ answer' = Nothing

RefuseFrame(value) == /\ value.size > ByteBudget
                      /\ answer' = Nothing
                      /\ UNCHANGED <<entries, used, next>>

RemoveFrame(key) == /\ entries' = Drop(entries, key)
                    /\ used' = used - Freed(key)
                    /\ answer' = Held(key)
                    /\ next' = next

ClearFrames == /\ entries' = [key \in {} |-> Nothing]
               /\ used' = 0
               /\ answer' = Nothing
               /\ next' = next

CacheNext == \/ \E key \in Key : \/ GetFrame(key) \/ RemoveFrame(key)
                                 \/ \E value \in Value : InsertFrame(key, value)
             \/ \E value \in Value : RefuseFrame(value)
             \/ ClearFrames

CacheSpec == FrameCacheInit /\ [][CacheNext]_cacheVars

-----------------------------------------------------------------------------

\* The entries by age; no two share a generation.
ByAge(es) ==
    [i \in 1..Cardinality(DOMAIN es) |->
        LET key == CHOOSE key \in DOMAIN es : Rank(es, key) = i
        IN [key |-> key, value |-> es[key].value]]

LruView == INSTANCE LruCache WITH recent <- ByAge(entries), Capacity <- ByteBudget

\* The variables have their types; the bytes counted are those of the entries
\* (a subtraction that is off would wrap), and they keep to the budget.
CacheTypeOK ==
    /\ DOMAIN entries \subseteq Key
    /\ \A key \in DOMAIN entries : /\ entries[key].value \in Value
                                   /\ entries[key].last \in 1..next
    /\ next \in 0..MaxAccess
    /\ used = LruView!Bytes(ByAge(entries))
    /\ used <= ByteBudget

\* The map with its counters is the LRU sequence: same answers, same evictions,
\* also across a renumbering (get, insert, renumber_access_generations,
\* evict_to_budget).
ImplementsLru == LruView!LruSpec
=============================================================================
