# screeny in TLA+

screeny is a 64 x 32 LED panel on an ESP32 and the programs that draw on it. A
sender on the LAN finds the panel over mDNS, takes it by sending it a frame
over UDP, and keeps it for as long as it keeps sending; the panel decodes into
a triple buffer, holds the last picture when the stream dies, stores its
settings in flash, can be set up over a captive portal or a serial cable, and
takes firmware updates over HTTP. A studio on a computer runs many such panels
from one place. This directory holds TLA+ specifications of the parts where
the order of events matters, TLC configurations that check them, and proofs
for TLAPS.

- [1. The system](#1-the-system): its parts, what each keeps and what must hold
- [2. Modules](#2-modules): which module models what, and how
- [3. Runs](#3-runs): what TLC checks, the bounds and the fairness
- [4. Proofs](#4-proofs): what is proved, and along which argument
- [5. Where the code and its documents disagree](#5-where-the-code-and-its-documents-disagree)
- [6. What is left out](#6-what-is-left-out)
- [7. Plan](#7-plan)

## 1. The system

Paths are relative to `src/`. The firmware has two cores. Core 0 runs one
cooperative async executor: its tasks interleave only at an `await`, and share
the receive state machine under the mutex `CORE` and the flash under another.
Core 1 runs `display_task`, which never waits for core 0; the two share a few
atomics and the triple buffer.

### The device

**Firmware update** (`crates/otastate`, `firmware/src/ota.rs`, `post_firmware`
in `http.rs`). Keeps: two app slots, the two `otadata` entries that say which
slot to boot and how far it is trusted, the claim that admits one upload at a
time, the flag `ACTIVATING`, the trial of a freshly booted image. Operations:
stage an image sector by sector; activate it (select the slot, mark it NEW,
reset); at boot, promote an unproved image to a trial; confirm it when it is
healthy or revert it at the deadline; the bootloader's own choice and its
abort of a trial that did not confirm. Hard: power can go inside any of those
writes, and the slot being overwritten is also the way back. Correct when the
device always boots, when only an image that proved itself becomes permanent,
when nothing stages over an image the device may need, and when every trial
and activation ends.

**Receiver** (`crates/receiver`, driven by `firmware/src/net.rs` and
`receiver.rs`). Keeps: stream state (idle, live, hold), the source that holds
the panel, the sequence number to compare with, the survivor of the present
drain, timers, overlays, rate limiters, who asked for telemetry, counters.
Operations: offer a frame, flush the drain, answer, tick, and the control
requests (IDENTIFY, SET_IDLE, RELEASE, RESET_STATS, ...). Hard: several
senders, frames lost, repeated and reordered, sequence numbers that wrap,
half a dozen timers, and control requests between any two steps. Correct when
one sender at a time has the panel and cannot lose it while it sends, when a
refused one is told the truth about when it may come back, when the picture
is the holder's newest frame, when dead streams and held pictures end, and
when the loss counters add up.

**Frame hand-over** (`firmware/src/fb.rs`). Keeps: three frame slots, one
atomic word naming the slot between the cores, and a fresh bit. Operations:
draw, publish (core 0), acquire (core 1). Hard: lock-free, with `unsafe`
access resting on one ownership argument. Correct when no slot has two owners,
no torn frame is scanned out, the panel never steps back, and the newest frame
reaches it.

**Brightness window** (`target_oe_slots`, `display_task` in
`firmware/src/main.rs`; the stores in `receiver.rs` and `net.rs`). Keeps: the
brightness, a time-boxed bench override, the demand of a screen drawn for a
camera, a count of buffers to rewrite, and the window each of the two DMA
buffers is formatted for. Hard: four atomics stored by one core and loaded by
the other with no lock. Correct when both buffers end up at the level asked
for and the rewriting stops.

**Provisioning** (`crates/provision/src/machine.rs`,
`firmware/src/provision.rs`). Keeps: the machine's state (joining, online,
portal, trial), the attempt, the soft-AP with its grace and its clients, the
trial's origin and outcome; in the driver, the stored and the trial pair and
the join in flight; in flash, the SSID and PSK records. Operations: boot,
join, retry, post, wipe, tick, save. Hard: a pure machine and an impure driver
that must agree; posts and the button interrupt an attempt anywhere; a save is
three writes. Correct when flash never names a network that did not work, when
a failed trial costs nobody the network they had, when every post is answered,
and when a device comes back to a network that is there.

**Settings store** (`crates/settings`, `firmware/src/store.rs`). Keeps: keyed
records in two flash pages, a RAM cache, dirty flags and a debounce deadline.
Hard: coalesced writes, power cuts, a value that changes while it is being
written, the migration of a foreign schema. Correct when the last value set
reaches flash and nothing that another build wrote is read as this build's.

**Panic breadcrumb and crash-loop guard** (`firmware/src/panic.rs`). Keeps:
words of RTC memory sealed by a checksum. Hard: written by an image that is
dying and read by the next, with resets inside both. Correct when a torn
record reads as none and the guard counts what it says it counts.

**Panel composition** (`frames_task` in `firmware/src/net.rs`). Decides at
each wake-up whether the stream, an overlay, a held frame or a screen owns the
panel, and draws it through the triple buffer. Hard: it reads the receiver's
intent at two places of one iteration. Correct when what owns the panel is
what is on it and nothing flickers through.

**HTTP server and portal, button, serial setup, mDNS, screens**
(`firmware/src/http.rs`, `button.rs`, `improv.rs`, `mdns.rs`, `screens.rs`).
Mostly parsing and drawing; what they change is credentials, the identify
overlay and updates, which are inputs of the parts above.

**Protocol, codecs, colour** (`crates/proto`, `encode`, `dither`, `panel`,
`fwimage`, `device-api`). Pure functions over byte strings and pixels.

### The computer

**Sender and control client** (`crates/screeny`). A paced sender that adapts
its byte budget to the telemetry it gets and reconnects after silence; a
client that retries a request up to three times under one number. Hard: the
device executes each copy, and the reply to an early one may come during a
later one. Correct when a settled link does not oscillate and a reply belongs
to its request.

**Studio** (`crates/studio`). Channels with a render thread each and a
watchdog that abandons a wedged one; panels joining and leaving channels; a
state file written aside and renamed; firmware updates of the fleet; the web
API and a Home Assistant bridge. Hard: the watchdog judges a thread and acts on
it in two critical sections; abandoned threads go on. Correct when a channel
is never left without a renderer and a fault is blamed on the thread that had
it.

**Simulator, probe, art, demos, lab, tools, site.** Not part of the product,
or without ordering of their own.

`PROJECT.json` lists every component with its status, and the hazards, each at
its line, with the properties that would catch it.

## 2. Modules

| module | models | EXTENDS / INSTANCE |
|---|---|---|
| `OtaData` | `otadata` and every function of it: selection, state writes, the bootloader's abort, choice and hand-over, classification of the boot | |
| `Ota` | the update, from the first byte to the verdict, with power cuts and flash faults | `OtaData`; `UpdatePromise` |
| `UpdatePromise` | what an update promises, with no flash in it | |
| `Limiter` | `RateLimiter`: a bounded table of ages | |
| `Receiver` | the receive state machine and the loop that drives it | `Limiter`; `Stream` |
| `Stream` | what of the receiver the panel sees, with no senders in it | |
| `Panel` | the same loop's other half: which screen or frame is on the panel | `Stream` |
| `TripleBuffer` | the three slots and the word between the cores | `LatestFrame` |
| `LatestFrame` | "the newest frame", with no slots in it | |
| `OeWindow` | a brightness on its way to the panel, store by store and load by load | |
| `Provision` | the provisioning machine, its driver, the credentials in flash | |
| `Settings` | the plain settings: handlers, debounce, `store_task`, the save, the migration | `WriteBack` |
| `WriteBack` | a value in force and a value that outlives a restart, with no flash in it | |
| `Channel` | a channel of the studio: render threads, watchdog, faults, callers | |
| `MCOta`, `MCReceiver`, `MCProvision`, `MCSettings`, `MCChannel` | instances for TLC | |
| `OtaProofs`, `TripleBufferProofs`, `ReceiverProofs`, `PanelProofs`, `OeWindowProofs`, `ProvisionProofs`, `SettingsProofs`, `ChannelProofs` | theorems and proofs | the module they are named for |

**Ota.** `entries` and `slots` survive a reset; everything else is this boot's.
`phase` is `off`, `promoting` (the one write that `note_boot` may make),
`running` or `dead`. The tasks are `trial` (`trial_task`), `upload` (the claim
and its `Upload`) and `activator` (`activate_task`); on one cooperative
executor an action is what a task does between two waits, except that each
write to `otadata` is a step by itself. `CutInWrite` is power lost inside one:
the entry is erased or torn. With `FailureDamage` a write that *reports*
failure may have damaged its entry as well. Images differ only in what they do
when they run: work, never become healthy, panic, hang, or not boot at all.
`vouched` and `exposed` are history: which slot's image was flashed by hand or
confirmed itself, and whether an activation stopped between its two writes
over an entry that already read VALID (see section 5).

`UpdatePromise` has one firmware and possibly one image being tried. The
refinement maps the firmware to the slot that would be vouched for after a
reset, and a trial to a running image that is undecided; everything else an
update does (staging, selecting, cuts, failed activations) must be a stutter.

**Receiver.** One iteration of `frames_task` is `Wake`, some `Offer`s, `Flush`
(decode the survivor), `Answer` (telemetry and BUSY) and `Tick`; `Control` and
`LinkChanges` come between iterations, because both tasks hold `CORE`. Time is
ages: `Advance` lets one tick pass and ages stop at the limit that reads them,
which keeps the state finite without a clock. Several ticks may pass inside
one drain (`DrainTime`). `owed`, `sinceFrame` and `gaveUp` are history that the
properties need: what a refused sender has been told, and how old every
source's claim to the panel is. `published` is the result of `flush_frames`,
whether this turn has a frame to show.

In `Stream` there is the state of the stream, the overlay, and the turn: woken,
some frames accepted, a drain that ends with a frame or without, the timers. It
has no senders, no clock and no lock; any timer may run out at any turn. One
thing it does not allow, and `net.rs:288` says why: that the timers end a
stream whose frame has just been decoded. `Receiver` implements it with the
drain's survivor and the answers as stutters, and `Panel` takes its actions,
all of them and unrestricted, so that what holds of a panel over `Stream` holds
of one over the receiver.

**Panel.** The same iteration seen from the panel: `Wake`, `Accept` and `Flush`
are `Stream`'s, `Tick` runs the timers and publishes a decoded frame if it may,
`Compose` then draws a screen if one is due. They are two steps because core 1
shows what was published in between. `fading` is the half of the idle state in
which the last frame is still blended in; uploads, the button, the setup
screens and control requests change what is asked for while the task waits
(`Others`). The contents of a screen are left out, but not when one is due: the
edges, the redraw counter and the two ages.

**TripleBuffer.** A frame is drawn in two halves, so that a slot with two
owners would show as a torn one; frames are numbered in the order they are
drawn. The atomic load and the swap of `acquire` are separate steps. `Latest`
and the frame in the consumer's slot refine `LatestFrame`.

**OeWindow.** A change is a sequence of stores, `stores`, made one at a time;
`display_task` goes poll - format - count - swap, one load, one store or one
fetch-and-subtract at a time. Formatting reads the override (`raw`), its
`deadline`, the `screen`'s demand and the `setting`, as far as it needs to; an
override that has run out takes two stores to end (`expire`, `announce`).

**Provision.** The machine is pure in the code and pure here: each transition
is an operator from a machine to a machine, and the actions the code returns
can be read off the difference (`CarryOut`). What the setup page is told is worked
out as the code does it: `TrialIsCurrent` is the machine's rule for whether the
last trial is still the answer, `PageSays` is `trial_view`. The driver is one task: `phase` is
which wait of `run_join` it is in, `writes` the flash writes left of the save
it is in, and `Listening` the waits at which it hears a post or the button.
`PhoneMoves` is counted only while the driver is idle, because only then does
it read the soft-AP's events. `proven` and `kept` are history: the pairs that
have produced an address, and that a network was saved and neither wiped nor
cut short since.

**Settings.** Four fields stand for the two ways a setting takes: debounced
through `DIRTY`, `WAKE` and `Debounce` (`Brightness`, `IdleMode`), or written
before the reply (`Name`, and `Colour`, which the page shows only once it is
written). A save is a record of what is left of it - pages to erase, the
version, the item - and each flash operation is a step. Nothing of these tasks
waits inside a save, so only `Restart` and `WriteFails` interrupt one. A
partition that another build left is erased page by page. `CutInErase` says
whether such an erase may be cut short; section 5 says what happens then.
`lost` is history: the fields whose last write failed.

In `WriteBack` a field has a value in force and a durable one; a step sets the
first, or copies it to the second, or restarts from the second. The refinement
reads the durable value off the flash as `load` would.

**Channel.** The studio's threads are preemptive and its fields are locked one
by one, so an action is what a thread does from one write to a shared field to
the next. `at` says where each thread is: a render thread at the top of its
loop, in a frame that is late in its own patch or in the one that is fading
out, or handling its own death: `count` the fault, `refuse` the patch or
`giveUp`, put in the `fallback`, then `drop` the core and `start` another. The
watchdog handles a core it has judged along the same path, and a caller that
asks for a patch goes through `pardon`, `relent` and `put`. One action takes two
writes together, `NoThread`. Generation numbers
are given out again once nothing names them, so `MaxCores` bounds those alive
at one time and not the run. `orphans` is history: the cores that were thrown
away unstopped and still go on (section 5).

## 3. Runs

| run | states | what it shows |
|---|---|---|
| `ota_update` | 167 k | three uploads of any image, two power cuts anywhere, a flash that refuses a write: the device always boots, no image becomes permanent unproved, an accepted image waits untouched, the other slot stays the way back, every step is one that `UpdatePromise` allows; and while the flash works every trial is decided, every activation ends and the device returns to a vouched-for image |
| `ota_carried_valid` | violation | section 5 |
| `triple_buffer` | 0.6 k | no torn frame, no step back, and the refinement of `LatestFrame` with its liveness |
| `oe_window` | 154 k | unhurried changes reach both buffers, the last write shows the last request, the rewriting ends |
| `receiver` | 0.79 M | two senders and every interleaving of their frames, timers, RELEASE, RESET_STATS and a flapping link: every step is one that `Stream` allows, the survivor is the holder's newest frame, the picture is never stolen, BUSY is honest and paced, askers are answered, the counters balance, dead streams and held pictures end |
| `panel` | 105 k | uploads, button, setup screens, IDENTIFY, test cards and every stream that `Stream` allows, each between any two turns: no screen over a frame of the same turn, nothing of lower rank over an update or the button, nothing on an idle panel that has ended, and the screen that goes on ranking first gets the panel and its brightness |
| `provision` | 186 k | two networks and a mistyped password, up to two posts, wipes, outages, lost answers, cuts and failed writes in any mix of three, and a phone that comes and goes freely: flash names only what worked, machine and driver agree, the page hears of the pair posted last and never that it works before it has, every post is answered, the device returns |
| `provision_stranded` | violation | section 5 |
| `settings` | 214 k | four changes, two restarts and a failing write at any point of the debounce, the drain and the save, over a blank partition, this build's or another's: nothing in force is forgotten, what a restart finds was once in force, every change arrives |
| `settings_migration` | violation | section 5 |
| `channel` | 605 k | a patch that panics, stalls, and panics after it has been judged, threads that cannot be started, a caller that insists on the patch, and shutting down: one core renders, orphans apart, the channel comes back, its threads end |
| `channel_blame` | violation | section 5 |

**Bounds and why they suffice.**

- *Ota*: the states an entry can be left in depend on at most the two updates
  before, because there are two entries: three uploads reach every history of
  them. Two cuts reach a cut inside the recovery from a cut. The milestones
  1 < 2 < 3 keep their order in the code (60 s, 120 s, 180 s), which is all that
  is read of them. A write that fails writes nothing here; failures that damage
  are covered by the proofs. The liveness properties ask nothing once a write
  has failed.
- *TripleBuffer*: five frames, more than the slots and the word can hold, so
  that a slot is reused while both cores are mid-step. The proofs are for any
  number.
- *OeWindow*: four changes let a change land in each step of the handling of
  another, twice.
- *Receiver*: two senders are enough for a lock: everybody but the holder is
  alike to it. `SEQ` = 3 keeps the serial-number comparison with an equal, a
  newer and an older number, and the frames carry every kind of consequence
  once: one that only shows, a FINAL, one that does not decode and asks for
  telemetry, and the rival's. `COUNTER` = 2 wraps at every second frame. A tick
  is half a second: the lock and the stream timeout keep their order,
  `TELEMETRY_MIN` (100 ms) is less than a tick and so 0, `HOLD` is cut from
  10 s and the IDENTIFY overlay, which Panel has, ends at once.
  `MaxDrain` = 2 lets a takeover fall inside a drain. The table has more slots
  than there are senders, as `BusyPaced` needs (section 5); the proof says
  exactly what is needed.
- *Panel*: the two ages in turns, two and three (five and twelve or so in the
  code), so that there are turns with nothing to draw, and the slow repaint and
  the animation fall in different turns. Requests are unlimited.
- *Provision*: the timers keep their meaning and their order at 1-2 ticks. Each
  kind of trouble happens at most once or twice and three times in all; phones
  are unlimited. `TRIAL_ATTEMPTS` and `JOIN_ATTEMPTS` are 2 (3 in the code): a
  first, and a last.
- *Settings*: a change can overtake another in each stage (noted, quietening,
  being written) and two restarts reach a restart inside the recovery from one.
  Two pages tell the page with the version from one without.
- *Channel*: four generations at a time - the one in the slot, one that is
  judged, one that is dying and one that hangs for good. `MAX_FAULTS` = 2 (3 in
  the code) is a fault that is forgiven and one that is not. Two turns, faults
  or changes of the picture, is a fault during the handling of another.

**Deadlock.** Checked for the receiver, the panel and provisioning, which never
stop. The others turn it off because their worlds are bounded (no upload,
change, frame or turn is left, and a device that has settled rightly does
nothing) or, for the channel, can be shut down.

**Fairness.** The executor polls a task that is ready and its timers fire, so
each task's next step is weakly fair; nothing obliges a sender, an owner or the
power to do anything.

- *Ota*: boot, the tick, the trial, an upload that has been received and the
  activation. Not: the link coming up, requests, uploads, cuts, faults.
- *TripleBuffer*, *OeWindow*: core 1 free-runs; a change that has begun
  finishes, having no wait in it; time passes.
- *Receiver*: the frame task is weakly fair; the clock strongly, because each
  iteration ends in a wait with a timeout and time passes again and again, but
  is not enabled inside one.
- *Panel*: `Turn`, that is `Wake`, `Flush`, `Tick` and `Compose`: the wait for a
  datagram has a timeout, `TICK`, and a drain ends.
- *Provision*: the driver's steps, the radio's answer to an attempt, and a
  DHCP answer that is due; not phones, outages or networks coming back. That a
  network is there, for good, is in the premise of `ReturnsOnline`.
- *Settings*: the save, `store_task` and the clock its timers read.
- *Channel*: one condition, that some thread that has something to do does it,
  the watchdog's round included (`Work`). Nothing is assumed of a frame that is
  late, of a frame that has not started (the channel may be parked), or of a
  caller.

## 4. Proofs

Every theorem holds for every value of the constants that meets the
assumptions of its module; nothing else is assumed but what is said here.

**OtaProofs.** `TypeCorrect`, `BootsAlways` and `TargetIntact` hold for any
device, damaging failures included; they need `BootMemory`, which relates what
`note_boot` remembers to what the tasks may be doing. The others assume
`FailureDamage = FALSE`: a write that fails has written nothing. Their
invariant is `IInv`: until an activation stops over a VALID state, the two
entries are well-formed (their numbers are neighbours and name different
slots) and some slot is a *keeper*, a vouched-for bootable image whose entry
wins any reset, or loses only to an entry that is on trial, rejected or not
yet complete. `PermanentIsVouched` and `EscapeHatch` say less than the next
step needs: they do not say what a cut inside the *other* entry would leave.
From the keeper follow `PermanentAlwaysVouched`, `HatchStaysOpen`, and
`PromiseKept`, that every step is a step of `UpdatePromise` or a stutter.

**TripleBufferProofs.** `SlotsSafe`: the slots are distinct, and every slot but
the one being drawn is whole. `SlotsImplement`: with, in addition, the order of
the frame numbers (front, published, being drawn), every step maps to a step of
`LatestFrame`, which includes that the panel never goes back.

**OeWindowProofs.** `LastWrittenFollows` says nothing before the count is zero,
so the invariant says what each step of core 1 has already got right: `Changing`
describes the stores that are left of a change and what the last of them will
do; `Counted`, that core 1 rewrites only while the count is positive; `LastPass`,
what the buffer in hand must hold when the count would reach zero; `FirstPass`,
the same for the other buffer, which only unhurried changes preserve. From them
`TypeCorrect`, `LastAlwaysFollows` and `BothAlwaysFollow`, for any levels and
any number of changes.

**ReceiverProofs.** The invariant behind most of them joins six parts: `TypeOK`; `LockAgrees`
and `SurvivorIsTheHolders`; that a survivor exists only during a drain; that
the age of the stream and the holder's own age agree; that everybody who is not
the holder has given up or is at least a lock old; and that a refused sender's
wait covers what is left of the lock (`OwedCovers`). From it follow
`LockSound`, `PanelNeverStolen` and `BusyTellsTheTruth`. `LedgerAlwaysBalances`
needs arithmetic modulo an arbitrary `COUNTER`, in lemmas of its own
(`UniqueRemainder`, `WrapSum`, `LedgerSum`). `AskersAlwaysKept` assumes a drain
shorter than the lock: then the panel changes hands at most once in it, so that
only two senders can have asked (`AskersAreHolders`) and two slots are enough,
for any number of senders. `BusyAlwaysPaced` assumes no more senders than the
limiter has slots; its invariant (`EntriesCover`) is that whoever was told BUSY
within the interval has an entry no older than that, which an eviction would
break, and that with so few senders a full table has an entry for everyone.
`StreamKept` is the refinement of `Stream`. What it needs beyond the type is
`FrameIsCurrent`, that a frame to publish belongs to a stream whose age is still
zero when the timers run, and `SurvivorIsLive`, that a survivor is there only
while the stream is live; without the first, a timer could end the stream
between the decode and the publish.

**PanelProofs.** `NeverFlickers`: what let a frame through in `Tick` still holds
in `Compose` (`FrameAlone`), so that `overlay_owns_panel` and the ranking of the
screens, two tests in two places, agree, except over a test card. It needs of
`Stream` that a turn with a frame does not end idle (`FrameOfAStream`), and
`StreamKept` says that the receiver is like that. `FirstKeepsThePanel` and
`EndedIsDrawnOver` speak of the time between turns; within one the invariants
`FirstStays` and `EndedIsSeen` say what is true until the screens are drawn:
the screen of the last turn stands as long as what asked for it does, and what
has ended is gone or there is an edge or a count that will draw over it.
`FollowsStream`: drawing does not move the stream.

**ProvisionProofs.** `IInv` has three parts. The machine is *coherent*: its state
says which target it is joining and whether there are stored credentials, and
while it is online the link's silence is younger than the soft-AP's grace, so
that the grace never ends in the tick in which a lost link starts a join (this
is where the assumption `AP_GRACE < LINK_DOWN`, 30 s and 60 s in the code, is
needed). The driver is *doing what the machine asked for*: the join it has to
start or has under way is the machine's target, the radio is configured with
that target's pair, and a reconnection is owed only while online. The flash
holds a proven pair or no name, and what is left to write is the rest of a save
of a *proven* pair, or of a wipe; `FlashIsProven` alone says nothing of the
write that comes next. From it follow `FlashAlwaysProven`,
`NetworkNeverForgotten`, `DriverAgrees` and `OnlyHeldJoined`. `AnswersHonest`
adds `AnswerOK`: a trial's outcome is Trying exactly in the state Trial; a
trial that connected is of a pair that has produced an address and is the one
stored; and `sticky`, the bit that keeps a failure current wherever the device
goes, is set exactly for a failed trial that came from the LAN. With
`TrialIsCurrent` these give each conjunct of `AnswerIsHonest`: among them that a
failed post from the LAN stays told, and that "connected" is only heard online
or in the portal - where it is stale (section 5), which the theorem allows and
says so.

**SettingsProofs.** `TypeCorrect` holds for any partition. The rest assume
`Sheltered`: an erase once begun finishes, or the device was never switched on
with another build's map, so that there is nothing to erase. Without either they
are false (section 5); with the second, power may go and the flash may fail at
any step. Their invariant adds to `SavedOrPending` that what is left of a
save fits the flash as it is - pages are erased from the lowest, nothing of
another build outlives the last, a save of a debounced field carries the value
in force (`SaveSound`) -, that there are no items without a version
(`NothingUnversioned`), that the colour order shown is the one stored, and that
where an erase may be cut short there is none (`NothingToErase`). From
it `NothingForgotten`, `MigrationWhole` and `PromiseKept`, that every step is a
step of `WriteBack` or a stutter.

**ChannelProofs.** `OneRenderer` counts threads; the invariant says which one
it is: only the core in the slot goes on rendering, and the orphans
(`OnlyTheSlot`), and the core the watchdog is replacing has been told to stop
(`JudgedIsTold`). From it `RenderedOnce`, for any number of generations: every
renderer too many is a core that was thrown away as section 5 describes, and
there is no other way to get one.

**Only model-checked**: liveness, which is out of the prover's reach
(`TrialIsDecided`, `ActivationEnds`, `ReturnsToVouched`, `StreamsEnd`,
`HoldEnds`, `Quiesces`, `PanelSettles`, `PostAnswered`, `ReturnsOnline`,
`ChangesReachFlash`, `Recovers`, `ShutdownEnds`, and the fairness half of
`TripleBuffer!KeepsPromise`). Every safety property that a passing run checks
is also proved, within the assumptions above.

## 5. Where the code and its documents disagree

Each of the first four is a run whose counterexample is a behaviour of the
code; `PROJECT.json` quotes the line it contradicts.

- **A state carried over** (`ota_carried_valid`). Activation selects the slot
  and then marks it NEW. The select keeps the state that the entry held, so
  after two confirmed updates power lost in between leaves the new image
  selected and VALID: it runs as settled, with no trial.
- **A stranded portal** (`provision_stranded`). Phones are counted only while
  no join is in flight. One that leaves the portal while the posted password
  is being tried stays counted, and the portal then never retries the stored
  network until the next reboot. `ReturnsOnline` is what the code does
  guarantee: a device that counts no phone comes back.
- **A migration cut short** (`settings_migration`). `prepare` erases another
  schema's partition page by page. Cut short after the page with the version,
  what is left reads as blank; the next save then writes this build's version
  over it and erases nothing, and the boot after that reads the other build's
  items as its own.
- **The wrong patch is blamed** (`channel_blame`). The watchdog blames the
  configured patch for any frame that does not come back. When the patch that
  is fading out hangs, the one coming in is refused and replaced.

Seen while modelling, and not a run of their own:

- *Ota.* `activate_task` waits once (`ota.rs:1400`): if its write fails, a later
  upload is accepted and its activation promised, but nobody is left to perform
  it and every upload after that is refused. By `protocol-v1.md:1350` the device
  restarts a second or two after the reply.
- *Ota.* `decide` tests confirm before revert, so an image that is healthy and
  whose confirming write keeps failing stays on trial past its deadline,
  although `ota.rs` says that the revert path takes over.
- *Ota.* After a failed activation the log says that the update is unchanged
  when the select may have succeeded; and a failing confirm or revert after a
  damaged entry writes the verdict into whichever entry is current by then.
- *OeWindow.* The bench override's deadline is checked only by a function that
  runs while windows are being rewritten (`main.rs:548`, `:473`), so once they
  have settled the override does not end until the brightness changes, though
  the comment there calls it time-boxed on purpose.
- *OeWindow.* A second brightness change between core 1's load of the level and
  its decrement of the count loses one of its two rewrites, and the panel
  alternates between two levels until the next change. `BothFollowUnhurried`
  is what holds; `LastWrittenFollows` holds hurried or not.
- *Receiver.* BUSY is paced per source only while the limiter's table is not
  full, and the outbox of four drops the holder's telemetry, already recorded
  as sent, when four senders are refused in one drain.
- *Receiver.* A duplicate of an old frame that arrives after its stream's FINAL
  takes the panel again.
- *Panel.* An overlay that ends while the stream is held draws nothing, so what
  it left stays until the hold ends; `PanelSettles` asks nothing of a held
  stream. Section 7.5 of `protocol-v1.md` says that in `HOLD` the last frame
  stays lit unchanged.
- *Panel.* A held test card is replaced by streamed frames and not drawn again,
  although `net.rs:454` says that it stays up while something else is sending;
  `NoFlicker` excepts it.
- *Provision.* Nothing clears a trial that connected when its network goes. After
  failed attempts to rejoin, the device is back in its portal, `trial_is_current`
  (`machine.rs:508`) takes the old trial for current, and the setup page says
  "Connected. This panel is now at" an address that is gone, and offers no form
  (`http.rs:1597`); `provision.rs:288` calls the answer "It worked, and this is
  where the device is now". `AnswerIsHonest` excepts exactly this: with "the
  device is online" in place of "online or in its portal", TLC finds the way
  there in 15 states (a post, its trial, the outage, the lost link, two failed
  joins).
- *Provision.* Credentials posted while the portal's retry is joining are
  treated as posted from the LAN. A wipe within the soft-AP's grace leaves the
  station on the network that was wiped, until it loses it.
- *Settings.* A restart within the three quiet seconds loses SET_BRIGHTNESS and
  SET_IDLE, which `protocol-v1.md:632` says persist across a reboot. A debounced
  write that failed is not tried again, nor when the same brightness is set
  again (it is in force already); `lost` is where the properties allow for it.
- *Channel.* A dying thread, or the watchdog, empties the slot without looking
  (`channel.rs:872`, `:1197`). A core that another thread has placed meanwhile
  is thrown away unstopped and renders on beside its successor: `orphans`.
- *Channel.* A core that is judged late and then panics is counted twice, and
  its fallback may overwrite a newer choice; a fallback may itself be a refused
  patch; the brake on faults is cleared by whichever good frame is the
  channel's 300th, which may be the first after a fault; a thread that cannot
  be started leaves a live handle, later judged as wedged.

## 6. What is left out

- *Ota*: the bytes of an image and their checks, which leave only the verdict;
  the dither hold during an upload; the two activations of the bench builds.
- *Receiver*: decoding; GET_INFO and its limiter, SET_NAME, SET_WIFI and REBOOT,
  which read or change nothing else here; SET_BRIGHTNESS, which is `OeWindow`'s
  and `Settings`'s; counters that are never read back, and averages.
- *Panel*: what a screen draws; the wake-up signal, which only shortens a wait;
  the bound on a send while the link is down.
- *TripleBuffer* and *OeWindow* take memory to be sequentially consistent.
  `fb.rs` uses acquire-release swaps; the relaxed stores of the brightness rely
  on the two cores not reordering them. `OE_START`, a bench knob, is left out.
- *Provision*: screens, the device's address, the wording of the setup page (its
  answer is `PageSays`). `save_wifi` and `clear_wifi` prepare the partition
  before they write, which matters once, over another build's partition; that
  erase is in `Settings`. The machine's own
  attempt deadline is left out because it is read in a tick, and the driver sends
  no tick while an attempt is under way: its own two waits end the attempt.
- *Settings*: the other plain records, which go one of the same two ways; values
  too long for their record; the key-value store's own garbage collection, which
  is a library's. That the library writes an item whole or not at all is
  assumed. `repair`, which erases a partition that no longer reads as a map,
  once, at boot: the damage it repairs does not arise here, and what it leaves is
  the blank partition that `Init` allows.
- *Channel*: which panels belong to a channel and how they fade when they leave,
  parameters and actions of a patch, the limiter and encoder behind a frame.
- Everything that is listed as `not_modelled` in `PROJECT.json`, with the reason
  there. Most of the source by lines is of that kind: pictures, pages, parsers,
  codecs and request handlers, where no order of events matters.

## 7. Plan

Done: `OtaData`, `Ota`, `UpdatePromise`, `TripleBuffer`, `LatestFrame`,
`OeWindow`, `Limiter`, `Receiver`, `Stream`, `Provision`, `Settings`, `WriteBack`,
`Panel` and `Channel`, in this order - first the part that can leave a device
useless, then the part every frame goes through, then the part that can leave
it unreachable, then what an owner would notice.

Next, in this order:

1. **Breadcrumb** (`panic.rs`): RTC memory across resets, composed with `Ota`'s
   panicking images; a torn record reads as none, and the guard counts boots in
   a row. The hazard at `panic.rs:704` waits for it.
2. **Link** (`crates/screeny`): the control client's retries under one number
   against a device that executes each copy, with `Receiver` as the device; and
   the sender's adaptation ladder against its telemetry.
3. **Channel membership**: panels that join and leave while their channel's
   core is being replaced.
4. **StateFile**: the studio's one-slot mailbox, the write aside and the rename.

Still to be proved, where a proof is possible: that `OneRenderer`'s count of
orphans is bounded by the number of threads that were starting a core; and what
is left of `PermanentIsVouched` and `EscapeHatch` once a failing write has
damaged an entry (TLC shows that neither survives as it is), or once
an image has been made permanent unproved (`exposed`).
