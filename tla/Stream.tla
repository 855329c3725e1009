------------------------------- MODULE Stream -------------------------------
(***************************************************************************)
(* What frames_task sees of the receiver, with no senders in it: a stream  *)
(* that goes Idle, Live, Hold, an overlay, and at the end of a drain a     *)
(* frame to publish or none.  Receiver implements it; Panel is built on    *)
(* it, and so is Panel's claim to know every turn there can be.            *)
(* (crates/receiver/src/lib.rs, State, Intent and flush_frames.)           *)
(***************************************************************************)
VARIABLES
  task,       \* "waiting", "draining", "answering"
  state,      \* "Idle", "Live", "Hold"
  identify,   \* the overlay is up
  published   \* this turn's drain left a frame to publish

Init == task = "waiting" /\ state = "Idle" /\ identify = FALSE /\ published = FALSE

Wake == task = "waiting" /\ task' = "draining" /\ UNCHANGED <<state, identify, published>>

\* A frame is accepted, whether it will decode or not.
Accept ==
  /\ task = "draining" /\ state' = "Live"
  /\ UNCHANGED <<task, identify, published>>

\* The drain ends with a frame of the stream, perhaps its last, or without.
Flush ==
  /\ task = "draining" /\ task' = "answering"
  /\ \/ published' = FALSE /\ UNCHANGED state
     \/ published' = TRUE /\ state = "Live" /\ state' \in {"Live", "Hold"}
  /\ UNCHANGED identify

\* The timers and the link.  A turn with a frame never ends the hold: the
\* picture that is published now is not one to fade away from.
Tick ==
  /\ task = "answering" /\ task' = "waiting" /\ published' = FALSE
  /\ identify' \in {identify, FALSE}
  /\ \/ UNCHANGED state
     \/ state = "Live" /\ state' = "Hold"
     \/ state = "Hold" /\ state' = "Idle" /\ ~published

\* Control requests, between two turns.
Identify == task = "waiting" /\ identify' \in BOOLEAN /\ UNCHANGED <<task, state, published>>
Release ==
  /\ task = "waiting" /\ state = "Live" /\ state' = "Hold"
  /\ UNCHANGED <<task, identify, published>>

Next == Wake \/ Accept \/ Flush \/ Tick \/ Identify \/ Release

Spec == Init /\ [][Next]_<<task, state, identify, published>>
=============================================================================
