--------------------------- MODULE UpdatePromise ---------------------------
(***************************************************************************)
(* What a firmware update promises the owner of the device, with no flash, *)
(* no bootloader and no upload in it: the device has one firmware; another *)
(* image may be tried; it becomes the firmware only by being kept at the   *)
(* end of a trial; and every other end of a trial leaves the firmware as   *)
(* it was.  (crates/otastate/README.md; docs on card 241.)                 *)
(***************************************************************************)
EXTENDS Integers

VARIABLES
  firmware,   \* the slot (0 or 1) of this device's firmware
  tentative   \* the other slot's image is running, on trial

Init == firmware \in 0..1 /\ tentative = FALSE

\* The other image runs, and nothing is decided.
Try == ~tentative /\ tentative' = TRUE /\ UNCHANGED firmware

\* It has proved itself.
Keep == tentative /\ tentative' = FALSE /\ firmware' = 1 - firmware

\* It has not: a deadline, a panic, a watchdog, a power cut.
GiveUp == tentative /\ tentative' = FALSE /\ UNCHANGED firmware

Next == Try \/ Keep \/ GiveUp

Spec == Init /\ [][Next]_<<firmware, tentative>>
=============================================================================
