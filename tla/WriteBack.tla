----------------------------- MODULE WriteBack -----------------------------
(***************************************************************************)
(* What a store of settings promises: every field has the value in force   *)
(* and the value that outlives a restart, and the second is only ever      *)
(* replaced by the first.                                                  *)
(***************************************************************************)
CONSTANTS Field, Value

VARIABLES
  live,     \* the values in force
  durable   \* the values a restart would come back to

Init == live \in [Field -> Value] /\ durable = live

\* A field is set; it may or may not be in flash by the time it is in force.
Set(f, v) ==
  /\ live' = [live EXCEPT ![f] = v]
  /\ \/ UNCHANGED durable
     \/ durable' = [durable EXCEPT ![f] = v]

Persist(f) == durable' = [durable EXCEPT ![f] = live[f]] /\ UNCHANGED live

Restart == live' = durable /\ UNCHANGED durable

Next == (\E f \in Field : Persist(f) \/ \E v \in Value : Set(f, v)) \/ Restart

Spec == Init /\ [][Next]_<<live, durable>>
=============================================================================
