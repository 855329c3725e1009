---------------------------- MODULE TripleBuffer ----------------------------
(***************************************************************************)
(* The decoded-frame hand-over of firmware/src/fb.rs: three slots, and one *)
(* atomic word naming the slot that neither core owns, with a FRESH bit.   *)
(* Core 0's frame task draws into its slot and publishes it (Producer);    *)
(* core 1's display task takes what is fresh and scans it out (Consumer).  *)
(*                                                                         *)
(* A frame is drawn in two halves, so that a slot owned by both cores      *)
(* would show; it is named by its place in the order frames are drawn.     *)
(* The AcqRel swaps order the pixels with the word, so memory is taken to  *)
(* be sequentially consistent.                                             *)
(***************************************************************************)
EXTENDS Integers

CONSTANT MaxFrames   \* bound: frames drawn

ASSUME MaxFramesAssumption == MaxFrames \in Nat

Slot == 0..2

VARIABLES
  top, bottom, \* Slots.slots: which frame each half of a slot is part of
  shared,  \* Slots.shared, the index bits
  fresh,   \* Slots.shared, the FRESH bit
  w,       \* Producer.w
  drawing, \* the frame task: "empty", "half" or "whole" back buffer
  drawn,   \* frames begun so far, which numbers them
  r,       \* Consumer.r
  seen     \* the display task, inside acquire: the load found FRESH

vars == <<top, bottom, shared, fresh, w, drawing, drawn, r, seen>>

TypeOK ==
  /\ top \in [Slot -> 0..MaxFrames] /\ bottom \in [Slot -> 0..MaxFrames]
  /\ shared \in Slot /\ w \in Slot /\ r \in Slot
  /\ fresh \in BOOLEAN /\ seen \in BOOLEAN
  /\ drawing \in {"empty", "half", "whole"}
  /\ drawn \in 0..MaxFrames

\* Slots::new and Slots::split: three black frames; slot 2 is published but stale.
Init ==
  /\ top = [s \in Slot |-> 0] /\ bottom = [s \in Slot |-> 0]
  /\ shared = 2 /\ fresh = FALSE
  /\ w = 0 /\ drawing = "empty" /\ drawn = 0
  /\ r = 1 /\ seen = FALSE

-----------------------------------------------------------------------------
(* Core 0. *)

\* Producer::back, and the first half of the pixels: a decode, or a screen,
\* over whatever the slot held - an earlier frame that was never published
\* included, because an overlay owned the panel or its payload did not decode.
DrawTop ==
  /\ drawn < MaxFrames
  /\ drawn' = drawn + 1
  /\ top' = [top EXCEPT ![w] = drawn + 1]
  /\ drawing' = "half"
  /\ UNCHANGED <<bottom, shared, fresh, w, r, seen>>

DrawBottom ==
  /\ drawing = "half"
  /\ bottom' = [bottom EXCEPT ![w] = drawn]
  /\ drawing' = "whole"
  /\ UNCHANGED <<top, shared, fresh, w, drawn, r, seen>>

\* Mutant: the frame task publishes a decode that stopped half way.
PublishHalf ==
  /\ drawing # "empty"
  /\ shared' = w /\ fresh' = TRUE
  /\ w' = shared
  /\ drawing' = "empty"
  /\ UNCHANGED <<top, bottom, drawn, r, seen>>

\* Producer::publish, one swap; the caller publishes only what is whole.
Publish ==
  /\ drawing = "whole"
  /\ shared' = w /\ fresh' = TRUE
  /\ w' = shared
  /\ drawing' = "empty"
  /\ UNCHANGED <<top, bottom, drawn, r, seen>>

-----------------------------------------------------------------------------
(* Core 1. *)

\* Mutant: a refresh waits for a frame that is being drawn.
LookWhenIdle ==
  /\ ~seen /\ fresh /\ drawing = "empty"
  /\ seen' = TRUE
  /\ UNCHANGED <<top, bottom, shared, fresh, w, drawing, drawn, r>>

\* Consumer::acquire, its load: nothing new, or there is.  Without FRESH it
\* returns false and changes nothing.
Look ==
  /\ ~seen /\ fresh
  /\ seen' = TRUE
  /\ UNCHANGED <<top, bottom, shared, fresh, w, drawing, drawn, r>>

\* Consumer::acquire, its swap, with core 0 free to publish in between.
Take ==
  /\ seen
  /\ shared' = r /\ fresh' = FALSE
  /\ r' = shared
  /\ seen' = FALSE
  /\ UNCHANGED <<top, bottom, w, drawing, drawn>>

-----------------------------------------------------------------------------
Produce == DrawTop \/ DrawBottom \/ Publish
Consume == Look \/ Take

Next == Produce \/ Consume

Spec == Init /\ [][Next]_vars

\* display_task polls acquire on every turn of its loop and nothing on core 1
\* can hold it up; the frame task owes nothing.
FairSpec == Spec /\ WF_vars(Consume)

-----------------------------------------------------------------------------
(* What the hand-over promises. *)

\* fb.rs, "the invariant that makes the unsafe sound": every slot has one
\* owner - the producer, the consumer, or the word between them.
OneOwner == w # r /\ w # shared /\ r # shared

\* "A partially decoded frame is never scanned out": what core 1 reads is
\* one frame, whenever it reads it, whatever core 0 is doing.
NeverTorn == top[r] = bottom[r]

\* The panel never steps back to an older frame than the one it shows.
NeverBack == [][top'[r'] >= top[r]]_vars

\* The newest published frame: in the word if it is fresh, else on the panel.
Latest == IF fresh THEN top[shared] ELSE top[r]

\* The three slots and the word are an implementation of "the newest frame".
Promise == INSTANCE LatestFrame WITH latest <- Latest, front <- top[r]
KeepsPromise == Promise!FairSpec

=============================================================================
