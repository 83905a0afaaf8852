-------------------------------- MODULE Lru ---------------------------------
(***************************************************************************)
(* A byte-bounded least-recently-used cache as a sequence of entries, the  *)
(* oldest first.  FrameCache shows that the hash map with access counters  *)
(* of nle-cache behaves like it; MonitorCache is built on it.              *)
(***************************************************************************)
EXTENDS Integers, Keeping

CONSTANT Capacity       \* capacity_bytes

ASSUME LruCapacity == Capacity \in Nat

Entry(key, value) == [key |-> key, value |-> value]
Keys(recent) == {recent[i].key : i \in DOMAIN recent}
Bytes(recent) ==
    LET upTo[n \in 0..Len(recent)] ==
            IF n = 0 THEN 0 ELSE upTo[n - 1] + recent[n].value.size
    IN upTo[Len(recent)]

Find(recent, key)    == LET i == CHOOSE i \in DOMAIN recent : recent[i].key = key
                        IN recent[i].value
Others(recent, key)  == {e \in {recent[i] : i \in DOMAIN recent} : e.key # key}
Without(recent, key) == Kept(recent, Others(recent, key))

Touch(recent, key) == IF key \in Keys(recent)
                        THEN Append(Without(recent, key), Entry(key, Find(recent, key)))
                        ELSE recent

\* The longest run of the newest entries that fits.
Newest(recent) ==
    LET Rest(n) == SubSeq(recent, n + 1, Len(recent))
    IN Rest(CHOOSE n \in 0..Len(recent) :
               /\ Bytes(Rest(n)) <= Capacity
               /\ \A m \in 0..(n - 1) : Bytes(Rest(m)) > Capacity)

\* A value that can never fit leaves the cache as it is.
Fits(value)             == value.size <= Capacity
Put(recent, key, value) == IF Fits(value)
                             THEN Newest(Append(Without(recent, key), Entry(key, value)))
                             ELSE recent
=============================================================================
