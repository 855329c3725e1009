------------------------------ MODULE OtaData ------------------------------
(***************************************************************************)
(* The two otadata entries, the arithmetic the firmware's flash crate does *)
(* on them, the bootloader that reads them, and the decisions the firmware *)
(* takes from them: crates/otastate, src/model.rs and src/lib.rs.          *)
(*                                                                         *)
(* Pure operators.  An otadata value is a function from Slot to Entry.     *)
(***************************************************************************)
EXTENDS Integers

\* Both the two app slots and the two otadata entries are numbered 0 and 1.
Slot == 0..1
Other(s) == 1 - s

\* "No slot": FwSlot::Unknown, Option::None.
NoSlot == -1

FwState == {"New", "PendingVerify", "Valid", "Invalid", "Aborted", "Undefined"}

\* An erased sector reads as an all-ones sequence, which every reader tests
\* for before it compares; here it is 0, below every sequence ever written.
UNINITIALIZED == 0

Entry == [kind : {"Erased", "Torn", "Live"}, seq : Nat, state : FwState]

Erased == [kind |-> "Erased", seq |-> UNINITIALIZED, state |-> "Undefined"]
Torn   == [kind |-> "Torn",   seq |-> UNINITIALIZED, state |-> "Undefined"]
Live(n, st) == [kind |-> "Live", seq |-> n, state |-> st]

\* What an interrupted 32-byte write can leave behind.
Damage == {Erased, Torn}

OtaData == [Slot -> Entry]

(***************************************************************************)
(* What the firmware's flash crate computes.                               *)
(***************************************************************************)

\* Both calls read both entries first, so one torn entry fails them both.
Readable(e) == \A i \in Slot : e[i].kind # "Torn"

Unwritten(e) == \A i \in Slot : e[i].seq = UNINITIALIZED

\* The entry with the highest sequence, whatever its state.
CurrentEntry(e) == IF Unwritten(e) \/ e[0].seq > e[1].seq THEN 0 ELSE 1

SlotOfSeq(n) == (n - 1) % 2

CurrentApp(e) == IF Unwritten(e) THEN NoSlot ELSE SlotOfSeq(e[CurrentEntry(e)].seq)

\* The sequence moves on by just enough to select the wanted slot.
SeqStep(e, app) ==
  IF Unwritten(e) THEN (app + 1) % 2 ELSE (app + 2 - CurrentApp(e)) % 2

\* Selecting the slot already selected writes nothing.
SelectWrites(e, app) == CurrentApp(e) # app

SelectTarget(e) == Other(CurrentEntry(e))

\* The target keeps whatever state it already held.
Selected(e, app) ==
  LET t == SelectTarget(e)
  IN  [e EXCEPT ![t] = Live(e[CurrentEntry(e)].seq + SeqStep(e, app), @.state)]

SelectApp(e, app) == IF SelectWrites(e, app) THEN Selected(e, app) ELSE e

CanSetState(e) == Readable(e) /\ ~Unwritten(e)

SetState(e, st) == [e EXCEPT ![CurrentEntry(e)] = Live(@.seq, st)]

(***************************************************************************)
(* The bootloader.                                                         *)
(***************************************************************************)

IsInvalid(en) ==
  en.kind = "Erased" \/ (en.kind = "Live" /\ en.state \in {"Invalid", "Aborted"})

IsValid(en) == ~IsInvalid(en) /\ en.kind # "Torn"

IsInitial(e) == \A i \in Slot : e[i].kind # "Live"

NoRollback(e) == e  \* slip: CONFIG_BOOTLOADER_APP_ROLLBACK_ENABLE is off

\* On any reset, a trial that never confirmed is over.
AbortPending(e) ==
  [i \in Slot |-> IF e[i].state = "PendingVerify" THEN Live(e[i].seq, "Aborted") ELSE e[i]]

\* The highest sequence among the valid entries (when there is one).
ActiveEntry(e) ==
  IF IsValid(e[0]) /\ (~IsValid(e[1]) \/ e[0].seq > e[1].seq) THEN 0 ELSE 1

\* The slot selected, of entries whose pending trials have been aborted.
SelectedSlot(e) ==
  IF \A i \in Slot : IsInvalid(e[i]) THEN 0
  ELSE IF \A i \in Slot : ~IsValid(e[i]) THEN NoSlot
  ELSE SlotOfSeq(e[ActiveEntry(e)].seq)

\* A selected NEW entry becomes PENDING_VERIFY as the image is handed to.
HandOver(e) ==
  [i \in Slot |-> IF /\ \E j \in Slot : IsValid(e[j])
                     /\ i = ActiveEntry(e)
                     /\ e[i].state = "New"
                  THEN Live(e[i].seq, "PendingVerify") ELSE e[i]]

\* What is in an app slot, as far as booting it is concerned.
Image == {"Good", "NeverHealthy", "Panics", "Hangs", "Broken", "Absent"}
Bootable(img) == img \notin {"Broken", "Absent"}

\* The selected slot first, then the other; the first that verifies runs.
FirstBootable(sel, slots) ==
  LET first == IF sel = 1 THEN 1 ELSE 0
  IN  IF Bootable(slots[first]) THEN first
      ELSE IF Bootable(slots[Other(first)]) THEN Other(first)
      ELSE NoSlot

BootSlot(e, slots) == FirstBootable(SelectedSlot(AbortPending(e)), slots)

\* otadata after the bootloader has run.  On an otadata with nothing live in
\* it, the bootloader writes a fresh entry 0.
BootData(e, slots) ==
  IF IsInitial(e)
  THEN IF BootSlot(e, slots) = NoSlot THEN e ELSE [e EXCEPT ![0] = Live(1, "Valid")]
  ELSE HandOver(AbortPending(e))

(***************************************************************************)
(* What the firmware makes of a boot.                                      *)
(***************************************************************************)

Reverted == {"RevertedDeadline", "RevertedAborted", "RevertedRejected"}
BootClass == {"Settled", "Trial", "Unproven", "Unknown"} \cup Reverted

ReasonFor(st) ==
  CASE st = "Invalid" -> "RevertedDeadline"
    [] st = "Aborted" -> "RevertedAborted"
    [] OTHER          -> "RevertedRejected"

\* Slip: an image nobody proved is taken for a settled one.
ClassifyTrusting(booted, selected, st) ==
  IF booted = NoSlot \/ selected = NoSlot THEN "Unknown"
  ELSE IF booted # selected THEN ReasonFor(st)
  ELSE IF st \in {"PendingVerify", "New"} THEN "Trial" ELSE "Settled"

Classify(booted, selected, st) ==
  IF booted = NoSlot \/ selected = NoSlot THEN "Unknown"
  ELSE IF booted # selected THEN ReasonFor(st)
  ELSE CASE st \in {"PendingVerify", "New"} -> "Trial"
         [] st = "Undefined"                -> "Unproven"
         [] st = "Valid"                    -> "Settled"
         [] OTHER                           -> ReasonFor(st)

\* The same, of an otadata: a torn entry hides the selection.
ClassOf(booted, e) ==
  Classify(booted, IF Readable(e) THEN CurrentApp(e) ELSE NoSlot, e[CurrentEntry(e)].state)

OnTrial(boot) == boot \in {"Trial", "Unproven"}

SlotIsSpokenFor(boot, confirmed, activating) ==
  activating \/ (OnTrial(boot) /\ ~confirmed)
=============================================================================
