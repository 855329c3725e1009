---------------------------- MODULE LatestFrame ----------------------------
(***************************************************************************)
(* What the hand-over between the two cores promises, with no slots in it: *)
(* there is a newest published frame and a frame being scanned out; each   *)
(* publish makes a newer one, and a refresh takes whatever is newest at    *)
(* that instant.  Nothing waits, nothing goes backwards, and a frame that  *)
(* is overtaken before a refresh is simply never shown.                    *)
(* (firmware/src/fb.rs, the module documentation.)                         *)
(***************************************************************************)
EXTENDS Integers

VARIABLES
  latest,   \* the newest published frame, numbered in the order drawn
  front     \* the frame the display scans out

Init == latest = 0 /\ front = 0

Publish == latest' \in Nat /\ latest' > latest /\ UNCHANGED front

Take == front' = latest /\ UNCHANGED latest

Next == Publish \/ Take

Spec == Init /\ [][Next]_<<latest, front>>

\* The display keeps refreshing.
FairSpec == Spec /\ WF_<<latest, front>>(Take)
=============================================================================
