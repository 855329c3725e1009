------------------------------ MODULE Limiter ------------------------------
(***************************************************************************)
(* "At most one packet per interval per source, with a fixed table":       *)
(* Limiter<K, N> of crates/receiver/src/lib.rs, as a function from every   *)
(* key to how long ago a packet went to it.  Ages stop at the interval,    *)
(* where an entry no longer refuses anything; which of several oldest      *)
(* entries a full table gives up is left open.                             *)
(***************************************************************************)
EXTENDS Integers, FiniteSets

CONSTANTS LIMIT_SLOTS, Free

ASSUME LimitAssumption == LIMIT_SLOTS \in Nat \ {0} /\ Free \notin Int

\* Limiter::new, over the keys there are.
EmptyTable(keys) == [k \in keys |-> Free]

Tracked(table) == {k \in DOMAIN table : table[k] # Free}

\* Limiter::allow, its answer: not inside the interval of an earlier packet.
Allowed(table, key, interval) == table[key] = Free \/ table[key] >= interval

\* The entries that have waited longest.
Oldest(table) == {k \in Tracked(table) : \A j \in Tracked(table) : table[j] <= table[k]}

RecordOverOldest(table, key) ==
  IF table[key] # Free \/ Tracked(table) = {}
  THEN {[table EXCEPT ![key] = 0]}
  ELSE {[table EXCEPT ![key] = 0, ![old] = Free] : old \in Oldest(table)}

\* Limiter::allow, what it records: in the key's own entry, else in a free
\* one, else over the oldest.
Record(table, key) ==
  IF table[key] # Free \/ Cardinality(Tracked(table)) < LIMIT_SLOTS
  THEN {[table EXCEPT ![key] = 0]}
  ELSE {[table EXCEPT ![key] = 0, ![old] = Free] : old \in Oldest(table)}

\* Time passes.
Aged(table, interval) ==
  [k \in DOMAIN table |->
     IF table[k] = Free \/ table[k] >= interval THEN table[k] ELSE table[k] + 1]
=============================================================================
