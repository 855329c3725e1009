-------------------------------- MODULE Ota --------------------------------
(***************************************************************************)
(* A firmware update from the first byte of the upload to the confirmation *)
(* or the rollback, with the power lost at any instant: firmware/src/ota.rs *)
(* (the upload, activate_task, trial_task, note_boot), post_firmware of    *)
(* http.rs, and the bootloader, over the otadata of module OtaData.        *)
(*                                                                         *)
(* Core 0 runs one cooperative executor, so an action is what a task does  *)
(* between two suspensions - except that a write to otadata is a step of   *)
(* its own, because the power can go inside it and after it.               *)
(***************************************************************************)
EXTENDS OtaData

CONSTANTS
  Offered,         \* images that pass the upload's checks
  CONFIRM_NOT_BEFORE, HTTP_GRACE, REVERT_AT,  \* trial milestones, in ticks
  FailureDamage,   \* may a write that reports failure have damaged its entry?
  MaxUploads,      \* bound: uploads started
  MaxCuts,         \* bound: power cuts
  MaxFaults        \* bound: times the flash starts refusing writes

ASSUME OfferedAssumption == Offered \subseteq {img \in Image : Bootable(img)}
ASSUME MilestoneAssumption ==
  /\ CONFIRM_NOT_BEFORE \in Nat /\ HTTP_GRACE \in Nat /\ REVERT_AT \in Nat
  /\ 0 < CONFIRM_NOT_BEFORE
  /\ CONFIRM_NOT_BEFORE < HTTP_GRACE
  /\ HTTP_GRACE < REVERT_AT
ASSUME BoundAssumption ==
  /\ MaxUploads \in Nat /\ MaxCuts \in Nat /\ MaxFaults \in Nat
  /\ FailureDamage \in BOOLEAN

VARIABLES
  \* what survives a reset
  entries,    \* otadata
  slots,      \* the image in each app slot
  \* this boot
  phase,      \* "off", "promoting" (note_boot's one write), "running", "dead"
  running,    \* the slot the MMU maps
  boot,       \* BOOT, as note_boot left it
  uptime, hasIp, served, swapped,   \* Health
  trial,      \* trial_task: "absent", "watching", "confirmed", "resetting"
  upload,     \* CLAIM and its Upload: "none", "open", "staging"
  want,       \* the upload asked to be activated
  activating, \* ACTIVATING
  activator,  \* activate_task: "waiting", "signalled", "selected", "resetting", "done"
  \* the environment
  flashOk, uploads, cuts, faults,
  \* history
  vouched,    \* the image in the slot was flashed by hand or confirmed itself
  exposed     \* an activation stopped between its two writes, over a VALID state

flashVars == <<entries, slots, vouched>>
healthVars == <<uptime, hasIp, served, swapped>>
bootVars == <<phase, running, boot>>
uploadVars == <<upload, want>>
activateVars == <<activating, activator>>
envVars == <<flashOk, uploads, cuts, faults>>
vars == <<flashVars, healthVars, bootVars, trial, uploadVars, activateVars, envVars, exposed>>

TypeOK ==
  /\ entries \in OtaData
  /\ slots \in [Slot -> Image]
  /\ phase \in {"off", "promoting", "running", "dead"}
  /\ running \in Slot \cup {NoSlot}
  /\ boot \in BootClass
  /\ uptime \in 0..REVERT_AT
  /\ hasIp \in BOOLEAN /\ served \in BOOLEAN /\ swapped \in BOOLEAN
  /\ trial \in {"absent", "watching", "confirmed", "resetting"}
  /\ upload \in {"none", "open", "staging"}
  /\ want \in BOOLEAN /\ activating \in BOOLEAN
  /\ activator \in {"waiting", "signalled", "selected", "resetting", "done"}
  /\ flashOk \in BOOLEAN
  /\ uploads \in Nat /\ cuts \in Nat /\ faults \in Nat
  /\ vouched \in [Slot -> BOOLEAN]
  /\ exposed \in BOOLEAN

\* The slot an upload may write: the one this image is not running from.
InactiveIsRunning == running  \* slip: the partition table's idea of it
Inactive == Other(running)

Confirmed == trial = "confirmed"

\* The trial is undecided: trial_pending().
TrialPending == phase = "running" /\ OnTrial(boot) /\ ~Confirmed

\* The executor is free to poll a task: up, and no task is inside the two
\* synchronous writes of an activation.
ExecutorFree == phase = "running" /\ activator # "selected" /\ slots[running] # "Hangs"

(***************************************************************************)
(* Power.                                                                  *)
(***************************************************************************)

\* Everything in RAM is gone; the flash is as it is.
PowerOff ==
  /\ phase' = "off" /\ running' = NoSlot /\ boot' = "Unknown"
  /\ uptime' = 0 /\ hasIp' = FALSE /\ served' = FALSE /\ swapped' = FALSE
  /\ trial' = "absent" /\ upload' = "none" /\ want' = FALSE
  /\ activating' = FALSE /\ activator' = "waiting"

\* An activation that ends here leaves its slot selected with the state the
\* entry happened to hold: VALID from an earlier update means no trial.
LeavesUnmarked == activator = "selected" /\ entries[CurrentEntry(entries)].state = "Valid"

Cut ==
  /\ cuts < MaxCuts /\ cuts' = cuts + 1
  /\ UNCHANGED <<flashOk, uploads, faults>>

\* Power lost with no write under way.
PowerCut ==
  /\ phase # "off"
  /\ Cut /\ PowerOff
  /\ exposed' = (exposed \/ LeavesUnmarked)
  /\ UNCHANGED flashVars

\* Power lost inside the write of entry i.
CutInWrite(i) ==
  /\ Cut /\ PowerOff
  /\ \E d \in Damage : entries' = [entries EXCEPT ![i] = d]
  /\ UNCHANGED <<slots, vouched, exposed>>

\* The firmware resets the chip.
SoftwareReset ==
  /\ PowerOff
  /\ UNCHANGED <<flashVars, envVars, exposed>>

\* A write to entry i that reports failure.
FailedWrite(i) ==
  /\ ~flashOk
  /\ \/ UNCHANGED entries
     \/ FailureDamage /\ \E d \in Damage : entries' = [entries EXCEPT ![i] = d]

FlashFails ==
  /\ flashOk /\ faults < MaxFaults
  /\ flashOk' = FALSE /\ faults' = faults + 1
  /\ UNCHANGED <<flashVars, healthVars, bootVars, trial, uploadVars, activateVars, uploads, cuts, exposed>>

FlashRecovers ==
  /\ ~flashOk
  /\ flashOk' = TRUE
  /\ UNCHANGED <<flashVars, healthVars, bootVars, trial, uploadVars, activateVars, uploads, cuts, faults, exposed>>

(***************************************************************************)
(* Boot: the bootloader, then note_boot.                                   *)
(***************************************************************************)

Boot ==
  /\ phase = "off"
  /\ LET e == BootData(entries, slots)
         r == BootSlot(entries, slots)
         c == ClassOf(r, e)
     IN  /\ entries' = e
         /\ running' = r
         /\ boot' = c
         /\ phase' = IF r = NoSlot THEN "dead" ELSE IF c = "Unproven" THEN "promoting" ELSE "running"
         /\ trial' = IF OnTrial(c) THEN "watching" ELSE "absent"
  /\ UNCHANGED <<slots, vouched, healthVars, uploadVars, activateVars, envVars, exposed>>

\* Power lost inside a write of the bootloader's.
CutInBootloader ==
  /\ phase = "off"
  /\ \E i \in Slot : entries[i] # BootData(entries, slots)[i] /\ CutInWrite(i)

\* note_boot puts an interrupted activation on trial.  It is on trial for
\* this boot whether or not the write lands.
NoteBoot ==
  /\ phase = "promoting"
  /\ phase' = "running" /\ boot' = "Trial"
  /\ \/ flashOk /\ CanSetState(entries) /\ entries' = SetState(entries, "PendingVerify")
     \/ ~CanSetState(entries) /\ UNCHANGED entries
     \/ CanSetState(entries) /\ FailedWrite(CurrentEntry(entries))
  /\ UNCHANGED <<slots, vouched, running, healthVars, trial, uploadVars, activateVars, envVars, exposed>>

CutInNoteBoot ==
  /\ phase = "promoting" /\ CanSetState(entries)
  /\ CutInWrite(CurrentEntry(entries))

(***************************************************************************)
(* Health: time, the network, the panel, callers, and images that crash.   *)
(***************************************************************************)

Crashes(img) == img \in {"Panics", "Hangs"}

\* Slip: a clock nothing stops.
TickForever ==
  /\ ExecutorFree /\ uptime' = uptime + 1
  /\ UNCHANGED <<flashVars, hasIp, served, swapped, bootVars, trial, uploadVars, activateVars, envVars, exposed>>

\* A crashing image does not live to the first milestone.
Tick ==
  /\ ExecutorFree /\ uptime < REVERT_AT
  /\ Crashes(slots[running]) => uptime + 1 < CONFIRM_NOT_BEFORE
  /\ uptime' = uptime + 1
  /\ UNCHANGED <<flashVars, hasIp, served, swapped, bootVars, trial, uploadVars, activateVars, envVars, exposed>>

LinkChanges ==
  /\ ExecutorFree
  /\ hasIp' = ~hasIp
  /\ hasIp' => slots[running] # "NeverHealthy"
  /\ UNCHANGED <<flashVars, uptime, served, swapped, bootVars, trial, uploadVars, activateVars, envVars, exposed>>

FirstRequest ==
  /\ ExecutorFree /\ hasIp /\ ~served
  /\ served' = TRUE
  /\ UNCHANGED <<flashVars, uptime, hasIp, swapped, bootVars, trial, uploadVars, activateVars, envVars, exposed>>

FirstSwap ==
  /\ ExecutorFree /\ ~swapped
  /\ swapped' = TRUE
  /\ UNCHANGED <<flashVars, uptime, hasIp, served, bootVars, trial, uploadVars, activateVars, envVars, exposed>>

\* The panic handler, or the liveness watchdog after a hang.
CrashReset ==
  /\ phase = "running" /\ activator # "selected"
  /\ Crashes(slots[running])
  /\ SoftwareReset

IsHealthy == hasIp /\ swapped /\ (served \/ uptime >= HTTP_GRACE)

\* Slip: no deadline.
DecidePatiently == IF uptime >= CONFIRM_NOT_BEFORE /\ IsHealthy THEN "Confirm" ELSE "Wait"

Decide ==
  IF uptime >= CONFIRM_NOT_BEFORE /\ IsHealthy THEN "Confirm"
  ELSE IF uptime >= REVERT_AT THEN "Revert"
  ELSE "Wait"

(***************************************************************************)
(* trial_task.                                                             *)
(***************************************************************************)

Deciding(action) == ExecutorFree /\ trial = "watching" /\ Decide = action

\* A failed write is tried again at the next tick.
TrialConfirms ==
  /\ Deciding("Confirm")
  /\ \/ /\ flashOk /\ CanSetState(entries)
        /\ entries' = SetState(entries, "Valid")
        /\ trial' = "confirmed"
        /\ vouched' = [vouched EXCEPT ![running] = TRUE]
     \/ /\ CanSetState(entries) /\ FailedWrite(CurrentEntry(entries))
        /\ UNCHANGED <<trial, vouched>>
  /\ UNCHANGED <<slots, healthVars, bootVars, uploadVars, activateVars, envVars, exposed>>

\* A failed write does not stop the reset.
TrialReverts ==
  /\ Deciding("Revert")
  /\ trial' = "resetting"
  /\ \/ flashOk /\ CanSetState(entries) /\ entries' = SetState(entries, "Invalid")
     \/ ~CanSetState(entries) /\ UNCHANGED entries
     \/ CanSetState(entries) /\ FailedWrite(CurrentEntry(entries))
  /\ UNCHANGED <<slots, vouched, healthVars, bootVars, uploadVars, activateVars, envVars, exposed>>

CutInTrialWrite ==
  /\ Deciding("Confirm") \/ Deciding("Revert")
  /\ CanSetState(entries)
  /\ CutInWrite(CurrentEntry(entries))

TrialResets == ExecutorFree /\ trial = "resetting" /\ SoftwareReset

(***************************************************************************)
(* POST /api/v1/firmware.                                                  *)
(***************************************************************************)

\* Slips: half of the rule each.
RefusedWhileActivating == activating
RefusedWhileOnTrial == SlotIsSpokenFor(boot, Confirmed, FALSE)

Refused == SlotIsSpokenFor(boot, Confirmed, activating)

UploadStarts(activate) ==
  /\ ExecutorFree /\ uploads < MaxUploads
  /\ activate => boot # "Unknown"
  /\ ~Refused
  /\ upload = "none"
  /\ upload' = "open" /\ want' = activate
  /\ uploads' = uploads + 1
  /\ UNCHANGED <<flashVars, healthVars, bootVars, trial, activateVars, flashOk, cuts, faults, exposed>>

\* A sector is erased and written: whatever image was there is gone.
SectorStaged ==
  /\ ExecutorFree /\ upload # "none" /\ flashOk
  /\ upload' = "staging"
  /\ slots' = [slots EXCEPT ![Inactive] = "Broken"]
  /\ vouched' = [vouched EXCEPT ![Inactive] = FALSE]
  /\ UNCHANGED <<entries, healthVars, bootVars, trial, want, activateVars, envVars, exposed>>

\* The flash refused a sector: erased or not, the upload is over.
SectorFails ==
  /\ ExecutorFree /\ upload # "none" /\ ~flashOk
  /\ upload' = "none" /\ want' = FALSE
  /\ slots' = [slots EXCEPT ![Inactive] = "Broken"]
  /\ vouched' = [vouched EXCEPT ![Inactive] = FALSE]
  /\ UNCHANGED <<entries, healthVars, bootVars, trial, activateVars, envVars, exposed>>

\* Slip: the flag is set and activate_task is never signalled.
UploadUnsignalled ==
  /\ ExecutorFree /\ upload = "staging" /\ flashOk
  /\ \E img \in Offered : slots' = [slots EXCEPT ![Inactive] = img]
  /\ upload' = "none" /\ want' = FALSE
  /\ activating' = (activating \/ want)
  /\ UNCHANGED <<entries, vouched, healthVars, bootVars, trial, activator, envVars, exposed>>

\* The last sector is in and every check has passed.  The claim is back and
\* the activation asked for before another task runs.
UploadAccepted ==
  /\ ExecutorFree /\ upload = "staging" /\ flashOk
  /\ \E img \in Offered : slots' = [slots EXCEPT ![Inactive] = img]
  /\ upload' = "none" /\ want' = FALSE
  /\ activating' = (activating \/ want)
  /\ activator' = IF want /\ activator = "waiting" THEN "signalled" ELSE activator
  /\ UNCHANGED <<entries, vouched, healthVars, bootVars, trial, envVars, exposed>>

\* A failed check or write, a stall, a lost socket, a dropped handler.
UploadEnds ==
  /\ ExecutorFree /\ upload # "none"
  /\ upload' = "none" /\ want' = FALSE
  /\ UNCHANGED <<flashVars, healthVars, bootVars, trial, activateVars, envVars, exposed>>

(***************************************************************************)
(* activate_task: one activation, select then mark, then the reset.        *)
(***************************************************************************)

GivesUp == activating' = FALSE /\ activator' = "done"

ActivateSelects ==
  /\ ExecutorFree /\ activator = "signalled"
  /\ \/ /\ Readable(entries) /\ (flashOk \/ ~SelectWrites(entries, Inactive))
        /\ entries' = SelectApp(entries, Inactive)
        /\ activator' = "selected" /\ UNCHANGED activating
     \/ ~Readable(entries) /\ GivesUp /\ UNCHANGED entries
     \/ /\ Readable(entries) /\ SelectWrites(entries, Inactive)
        /\ FailedWrite(SelectTarget(entries)) /\ GivesUp
  /\ UNCHANGED <<slots, vouched, healthVars, bootVars, trial, uploadVars, envVars, exposed>>

CutInSelect ==
  /\ ExecutorFree /\ activator = "signalled"
  /\ Readable(entries) /\ SelectWrites(entries, Inactive)
  /\ CutInWrite(SelectTarget(entries))

\* Slip: the new image is marked as if it had proved itself.
ActivateMarksValid ==
  /\ phase = "running" /\ activator = "selected" /\ flashOk /\ CanSetState(entries)
  /\ entries' = SetState(entries, "Valid") /\ activator' = "resetting"
  /\ UNCHANGED <<slots, vouched, healthVars, bootVars, trial, uploadVars, activating, envVars, exposed>>

ActivateMarks ==
  /\ phase = "running" /\ activator = "selected"
  /\ \/ /\ flashOk /\ CanSetState(entries)
        /\ entries' = SetState(entries, "New")
        /\ activator' = "resetting" /\ UNCHANGED <<activating, exposed>>
     \/ /\ CanSetState(entries) /\ FailedWrite(CurrentEntry(entries))
        /\ GivesUp
        /\ exposed' = (exposed \/ LeavesUnmarked)
  /\ UNCHANGED <<slots, vouched, healthVars, bootVars, trial, uploadVars, envVars>>

CutInMark ==
  /\ phase = "running" /\ activator = "selected" /\ CanSetState(entries)
  /\ CutInWrite(CurrentEntry(entries))

ActivateResets == ExecutorFree /\ activator = "resetting" /\ SoftwareReset

-----------------------------------------------------------------------------

\* A device as it leaves the serial flasher, with the power off.
Init ==
  /\ entries = [i \in Slot |-> Erased]
  /\ slots = [s \in Slot |-> IF s = 0 THEN "Good" ELSE "Absent"]
  /\ vouched = [s \in Slot |-> s = 0]
  /\ phase = "off" /\ running = NoSlot /\ boot = "Unknown"
  /\ uptime = 0 /\ hasIp = FALSE /\ served = FALSE /\ swapped = FALSE
  /\ trial = "absent" /\ upload = "none" /\ want = FALSE
  /\ activating = FALSE /\ activator = "waiting"
  /\ flashOk = TRUE /\ uploads = 0 /\ cuts = 0 /\ faults = 0
  /\ exposed = FALSE

PowerNext ==
  \/ PowerCut \/ CutInBootloader \/ CutInNoteBoot \/ CutInTrialWrite
  \/ CutInSelect \/ CutInMark
  \/ FlashFails \/ FlashRecovers

BootNext == Boot \/ NoteBoot \/ CrashReset

HealthNext == Tick \/ LinkChanges \/ FirstRequest \/ FirstSwap

TrialNext == TrialConfirms \/ TrialReverts \/ TrialResets

UploadNext ==
  \/ \E activate \in BOOLEAN : UploadStarts(activate)
  \/ SectorStaged \/ SectorFails \/ UploadAccepted \/ UploadEnds

ActivateNext == ActivateSelects \/ ActivateMarks \/ ActivateResets

Next == PowerNext \/ BootNext \/ HealthNext \/ TrialNext \/ UploadNext \/ ActivateNext

Spec == Init /\ [][Next]_vars

\* The executor polls every ready task; the panic handler and the watchdog
\* reset a crashed image; a stalled or over-long upload is ended.  Nothing is
\* assumed of the power, the flash, the network, callers or the uploader.
Fairness ==
  /\ WF_vars(Boot) /\ WF_vars(NoteBoot) /\ WF_vars(CrashReset)
  /\ WF_vars(Tick) /\ WF_vars(FirstSwap)
  /\ WF_vars(TrialConfirms \/ TrialReverts) /\ WF_vars(TrialResets)
  /\ WF_vars(UploadAccepted \/ UploadEnds)
  /\ WF_vars(ActivateSelects) /\ WF_vars(ActivateMarks) /\ WF_vars(ActivateResets)

FairSpec == Spec /\ Fairness

-----------------------------------------------------------------------------
(***************************************************************************)
(* What an update must never do.                                           *)
(***************************************************************************)

\* There is no instant at which losing power leaves a device that does not
\* boot: whatever is in the flash, the bootloader finds an image to run.
AlwaysBoots == phase # "dead" /\ BootSlot(entries, slots) # NoSlot

\* While a trial is undecided, the other slot still holds an image somebody
\* vouched for, and - once the trial is on record - any reset returns to it.
EscapeHatch ==
  TrialPending /\ ~exposed =>
    /\ vouched[Inactive] /\ Bootable(slots[Inactive])
    /\ entries[CurrentEntry(entries)].state # "Undefined" =>
          BootSlot(entries, slots) = Inactive

\* An image that is not on trial was flashed by hand or has confirmed itself,
\* unless an activation was stopped between its two writes over an entry that
\* still said VALID.
PermanentIsVouched ==
  phase = "running" /\ ~TrialPending /\ ~exposed => vouched[running]

\* From an accepted upload to the reset nothing is staged over the image the
\* device is about to boot.
ActivationTargetIntact == activating => upload = "none" /\ Bootable(slots[Inactive])

\* PermanentIsVouched without the exception, which the code's comments claim.
NothingUnvouchedIsPermanent == phase = "running" /\ ~TrialPending => vouched[running]

\* A trial ends: confirmed, reverted, or reset, unless the flash has failed a
\* write (faults > 0; so in the next two).
TrialIsDecided == TrialPending ~> ~TrialPending \/ faults > 0

\* An activation that was promised to a caller ends, in the reset or in the
\* device saying it could not.
ActivationEnds == activating ~> ~activating \/ faults > 0

\* Whatever is uploaded and however it fails, the device comes back to an
\* image somebody vouched for.
ReturnsToVouched == []<>((phase = "running" /\ vouched[running]) \/ exposed \/ faults > 0)

(***************************************************************************)
(* The promise to the owner, as UpdatePromise states it.                   *)
(***************************************************************************)

\* The slot whose image the flash says is this device's firmware: the latest
\* VALID entry.  Inside the activation's two writes it is the running slot.
Committed ==
  IF activator = "selected" THEN running
  ELSE IF \E i \in Slot : entries[i].state = "Valid"
       THEN CHOOSE i \in Slot :
              /\ entries[i].state = "Valid"
              /\ \A j \in Slot : entries[j].state = "Valid" => entries[j].seq <= entries[i].seq
       ELSE 0

Tentative == phase \in {"promoting", "running"} /\ OnTrial(boot) /\ trial # "confirmed"

Promise == INSTANCE UpdatePromise WITH firmware <- Committed, tentative <- Tentative

\* Every step keeps the promise until the two writes are interrupted.
KeepsPromise == Promise!Init /\ [][exposed' \/ Promise!Next]_<<Committed, Tentative>>
-----------------------------------------------------------------------------
(***************************************************************************)
(* Why it holds: the inductive invariant.                                  *)
(***************************************************************************)

\* A live entry i selects slot i; a dead one has nothing in it.
WellFormed(e) ==
  \A i \in Slot : IF e[i].kind = "Live" THEN e[i].seq > 0 /\ SlotOfSeq(e[i].seq) = i
                 ELSE e[i] \in Damage

\* What the memory of one boot can hold together.
BootMemory ==
  /\ phase # "dead"
  /\ phase \in {"promoting", "running"} => running \in Slot /\ Bootable(slots[running])
  /\ \E s \in Slot : Bootable(slots[s])
  /\ phase # "running" => upload = "none" /\ ~activating /\ activator = "waiting"
  /\ phase = "off" => trial = "absent"
  /\ phase = "promoting" => trial = "watching"
  /\ phase = "running" => (OnTrial(boot) <=> trial # "absent")
  /\ trial \in {"watching", "resetting"} => upload = "none" /\ ~activating
  /\ activator \in {"signalled", "selected", "resetting"} => activating
  /\ activating => upload = "none" /\ Bootable(slots[Inactive])

\* Nothing has booted since the serial flash.
Fresh ==
  /\ phase = "off" /\ IsInitial(entries) /\ entries[1] = Erased
  /\ vouched[0] /\ Bootable(slots[0])

\* Entry Other(k) would be read as the newer of the two.
Above(k) == entries[Other(k)].seq > entries[k].seq
Beside(k) == entries[Other(k)].state

\* Slot k holds the vouched-for image the device has or can return to, and
\* nothing above its entry is VALID but during the activation's two writes.
Keeper(k) ==
  /\ vouched[k] /\ Bootable(slots[k])
  /\ entries[k].kind = "Live" /\ entries[k].state = "Valid"
  /\ \/ /\ phase = "off"
        /\ Above(k) => Beside(k) # "Valid"
     \/ /\ phase = "running" /\ running = k /\ trial \in {"absent", "confirmed"}
        /\ IF activator = "selected" THEN Above(k) ELSE Above(k) => Beside(k) # "Valid"
     \/ /\ phase = "promoting" /\ running = Other(k)
        /\ Above(k) /\ Beside(k) = "Undefined"
     \/ /\ phase = "running" /\ running = Other(k) /\ trial \in {"watching", "resetting"}
        /\ Above(k) /\ Beside(k) \in {"PendingVerify", "Undefined", "Invalid"}

HasKeeper == WellFormed(entries) /\ (Fresh \/ \E k \in Slot : Keeper(k))

\* What every step preserves, when a failed write leaves its entry alone.
IInv == TypeOK /\ BootMemory /\ (~exposed => HasKeeper)

=============================================================================
