------------------------------ MODULE LruCache ------------------------------
(***************************************************************************)
(* What the decoded-frame cache promises: a client sees the operations of  *)
(* Lru, with their answers, and no counters.                               *)
(***************************************************************************)
EXTENDS Lru

CONSTANTS Key, Value,   \* values are records with a size
          Nothing       \* the answer of an operation that finds nothing

VARIABLES recent,   \* the entries, oldest first
          answer    \* what the last operation returned

lruVars == <<recent, answer>>

LruInit == recent = <<>> /\ answer = Nothing

LookFor(key) == IF key \in Keys(recent) THEN Find(recent, key) ELSE Nothing

LruGet(key)    == recent' = Touch(recent, key) /\ answer' = LookFor(key)
LruRemove(key) == recent' = Without(recent, key) /\ answer' = LookFor(key)
LruInsert(key, value) == recent' = Put(recent, key, value) /\ answer' = Nothing
LruClear       == recent' = <<>> /\ answer' = Nothing

LruNext == \/ \E key \in Key : \/ LruGet(key) \/ LruRemove(key)
                               \/ \E value \in Value : LruInsert(key, value)
           \/ LruClear

LruSpec == LruInit /\ [][LruNext]_lruVars
=============================================================================
