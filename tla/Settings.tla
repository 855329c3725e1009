------------------------------ MODULE Settings ------------------------------
(***************************************************************************)
(* The persisted settings of a device: crates/settings over the flash, and *)
(* the store_task, control_task and HTTP handlers of the firmware that     *)
(* write them.                                                             *)
(*                                                                         *)
(* All of these tasks share one cooperative executor, and none of them     *)
(* waits while it holds the store's lock, so that a save is only ever      *)
(* interrupted by the power: an action is a change of a setting, a step of *)
(* store_task, or one operation on the flash inside a save.  The flash is  *)
(* a map of keyed items, each written whole or not at all (the map crate's *)
(* promise), spread over pages that are erased one by one.                 *)
(***************************************************************************)
EXTENDS Naturals, FiniteSets

CONSTANTS
  Value, Default,   \* what a setting may be; what it is when nothing is stored
  None,
  Pages,            \* pages of the partition
  QUIET_MS,         \* ticks a setting must sit unchanged
  Found,            \* the maps a device may be switched on with for the first time
  CutInErase,       \* may the power fail, or the flash, half-way through erase_all?
  MaxChanges, MaxRestarts, MaxFaults   \* bounds

ASSUME SettingsAssumption ==
  /\ Default \in Value /\ None \notin Value
  /\ Pages \in Nat \ {0} /\ QUIET_MS \in Nat /\ CutInErase \in BOOLEAN
  /\ MaxChanges \in Nat /\ MaxRestarts \in Nat /\ MaxFaults \in Nat

\* Field: what store_task writes after a while, and what is written at once.
Debounced == {"Brightness", "IdleMode"}
Prompt == {"Name", "Colour"}
Field == Debounced \cup Prompt

Page == 0..(Pages - 1)
Item == [val : Value, ours : BOOLEAN, page : Page]
Version == [ours : BOOLEAN, page : Page]

\* A blank partition, a map of this build, or one that a build with another
\* schema left behind.
Maps ==
  {[schema |-> None, items |-> [f \in Field |-> None]]} \cup
  {m \in [schema : Version, items : [Field -> Item \cup {None}]] :
     \A f \in Field : m.items[f] # None => m.items[f].ours = m.schema.ours}

ASSUME FoundAssumption == Found \subseteq Maps

VARIABLES
  live,      \* the value of each setting in force
  flash,     \* the item of each field, or None
  schema,    \* the schema version item, or None
  dirty,     \* DIRTY, the bits of note_dirty
  wake,      \* WAKE, a signal that has not been waited for yet
  quiet,     \* Debounce: time since the change that is to be written, or None
  draining,  \* store_task is between DIRTY.swap and its next wait
  save,      \* the save under way, or None
  changes, restarts, faults,  \* so far
  lost       \* history: fields whose last write failed

bounds == <<changes, restarts, faults>>
taskVars == <<dirty, wake, quiet, draining>>
vars == <<live, flash, schema, taskVars, save, bounds, lost>>

\* What is left of a save: pages to erase, the version to write, the item.
Save == [field : Field, val : Value, erase : SUBSET Page, version : BOOLEAN]

\* None is not anything that it stands for the lack of.
ASSUME NoneAssumption == None \notin Nat \cup Item \cup Version \cup Save

TypeOK ==
  /\ live \in [Field -> Value]
  /\ flash \in [Field -> Item \cup {None}]
  /\ schema \in Version \cup {None}
  /\ dirty \subseteq Debounced /\ wake \in BOOLEAN
  /\ quiet \in [Debounced -> 0..QUIET_MS \cup {None}]
  /\ draining \in BOOLEAN
  /\ save \in Save \cup {None}
  /\ changes \in 0..MaxChanges /\ restarts \in 0..MaxRestarts /\ faults \in 0..MaxFaults
  /\ lost \subseteq Field

-----------------------------------------------------------------------------
(* The store.                                                              *)

\* Store::load: nothing is read under a version that is not this build's.
Loaded(fl, sc) ==
  [f \in Field |-> IF sc # None /\ sc.ours /\ fl[f] # None THEN fl[f].val ELSE Default]

\* A save begins: prepare looks at the version item first.
Saving(f, v) ==
  [field |-> f, val |-> v,
   erase |-> IF schema # None /\ ~schema.ours THEN Page ELSE {},
   version |-> schema = None \/ ~schema.ours]

\* erase_all, one sector: whatever item lies on it is gone.
EraseStep ==
  /\ save # None
  /\ \E p \in save.erase :
       /\ \A q \in save.erase : p <= q
       /\ save' = [save EXCEPT !.erase = @ \ {p}]
       /\ flash' = [f \in Field |-> IF flash[f] # None /\ flash[f].page = p THEN None ELSE flash[f]]
       /\ schema' = IF schema # None /\ schema.page = p THEN None ELSE schema
  /\ UNCHANGED <<live, taskVars, bounds, lost>>

VersionStep ==
  /\ save # None /\ save.erase = {} /\ save.version
  /\ schema' = [ours |-> TRUE, page |-> 0]
  /\ save' = [save EXCEPT !.version = FALSE]
  /\ UNCHANGED <<live, flash, taskVars, bounds, lost>>

\* save_name, save_u8: an item that already holds the value is not written,
\* nor an empty name where there is none.
Skipped ==
  \/ flash[save.field] # None /\ flash[save.field].val = save.val
  \/ flash[save.field] = None /\ save.field = "Name" /\ save.val = Default

\* commit_colour_order: what was stored is what the settings page shows.
ItemStep ==
  /\ save # None /\ save.erase = {} /\ ~save.version
  /\ flash' = IF Skipped THEN flash
              ELSE [flash EXCEPT ![save.field] = [val |-> save.val, ours |-> TRUE, page |-> 0]]
  /\ live' = IF save.field = "Colour" THEN [live EXCEPT !["Colour"] = save.val] ELSE live
  /\ lost' = lost \ {save.field}
  /\ save' = None
  /\ UNCHANGED <<schema, taskVars, bounds>>

InErase == save # None /\ save.erase # {} /\ save.erase # Page

\* StoreError::Flash from any of the three, or from the reads before them.
\* commit counts it and goes on; the handlers answer ERR_STORAGE.
WriteFails ==
  /\ save # None /\ faults < MaxFaults /\ (CutInErase \/ ~InErase)
  /\ save' = None
  /\ lost' = IF save.field = "Colour" THEN lost ELSE lost \cup {save.field}
  /\ faults' = faults + 1
  /\ UNCHANGED <<live, flash, schema, taskVars, changes, restarts>>

SaveStep == EraseStep \/ VersionStep \/ ItemStep

-----------------------------------------------------------------------------
(* Changes, from the control port or the settings page.                    *)

Idle == save = None /\ ~draining

\* Mutant: the bit is set and nobody is woken.
SetDebouncedUnsignalled(f, v) ==
  /\ Idle /\ changes < MaxChanges /\ changes' = changes + 1
  /\ f = "Brightness" => v # live[f]
  /\ live' = [live EXCEPT ![f] = v]
  /\ dirty' = dirty \cup {f}
  /\ lost' = lost \ {f}
  /\ UNCHANGED <<flash, schema, wake, quiet, draining, save, restarts, faults>>

\* Mutant: a save that waits, and lets a change in.
SetDebouncedMeanwhile(f, v) ==
  /\ changes < MaxChanges /\ changes' = changes + 1
  /\ f = "Brightness" => v # live[f]
  /\ live' = [live EXCEPT ![f] = v]
  /\ dirty' = dirty \cup {f} /\ wake' = TRUE
  /\ lost' = lost \ {f}
  /\ UNCHANGED <<flash, schema, quiet, draining, save, restarts, faults>>

\* Event::Brightness: a level that is in force already is not noted.
\* Event::IdleMode is.
SetDebounced(f, v) ==
  /\ Idle /\ changes < MaxChanges /\ changes' = changes + 1
  /\ f = "Brightness" => v # live[f]
  /\ live' = [live EXCEPT ![f] = v]
  /\ dirty' = dirty \cup {f} /\ wake' = TRUE
  /\ lost' = lost \ {f}
  /\ UNCHANGED <<flash, schema, quiet, draining, save, restarts, faults>>

\* SET_NAME: in force at once, written before the reply.
SetName(v) ==
  /\ Idle /\ changes < MaxChanges /\ changes' = changes + 1
  /\ live' = [live EXCEPT !["Name"] = v]
  /\ save' = Saving("Name", v)
  /\ lost' = lost \ {"Name"}
  /\ UNCHANGED <<flash, schema, taskVars, restarts, faults>>

\* The colour order of a settings POST: in force, for the page, once written.
SetColour(v) ==
  /\ Idle /\ changes < MaxChanges /\ changes' = changes + 1
  /\ save' = Saving("Colour", v)
  /\ UNCHANGED <<live, flash, schema, taskVars, restarts, faults, lost>>

-----------------------------------------------------------------------------
(* store_task.                                                             *)

Due == {f \in Debounced : quiet[f] # None /\ quiet[f] >= QUIET_MS}

\* Mutant: the timers are rebuilt from the bits.
TaskWakesAfresh ==
  /\ Idle /\ (wake \/ Due # {})
  /\ wake' = (wake /\ Due # {})
  /\ quiet' = [f \in Debounced |-> IF f \in dirty THEN 0 ELSE None]
  /\ dirty' = {} /\ draining' = TRUE
  /\ UNCHANGED <<live, flash, schema, save, bounds, lost>>

\* Woken by the signal, by a timer, or not asleep at all: swap the bits and
\* restart the timer of every field that changed.
TaskWakes ==
  /\ Idle /\ (wake \/ Due # {})
  /\ wake' = (wake /\ Due # {})
  /\ quiet' = [f \in Debounced |-> IF f \in dirty THEN 0 ELSE quiet[f]]
  /\ dirty' = {} /\ draining' = TRUE
  /\ UNCHANGED <<live, flash, schema, save, bounds, lost>>

\* Debounce::due in field order, and commit of the live value.
TaskCommits(f) ==
  /\ draining /\ save = None /\ f \in Due
  /\ f = "IdleMode" => "Brightness" \notin Due
  /\ quiet' = [quiet EXCEPT ![f] = None]
  /\ save' = Saving(f, live[f])
  /\ UNCHANGED <<live, flash, schema, dirty, wake, draining, bounds, lost>>

TaskSleeps ==
  /\ draining /\ save = None /\ Due = {}
  /\ draining' = FALSE
  /\ UNCHANGED <<live, flash, schema, dirty, wake, quiet, save, bounds, lost>>

TaskStep == TaskWakes \/ (\E f \in Debounced : TaskCommits(f)) \/ TaskSleeps

\* A tick of the clock.
Advance ==
  /\ Idle /\ \E f \in Debounced : quiet[f] # None /\ quiet[f] < QUIET_MS
  /\ quiet' = [f \in Debounced |->
                 IF quiet[f] # None /\ quiet[f] < QUIET_MS THEN quiet[f] + 1 ELSE quiet[f]]
  /\ UNCHANGED <<live, flash, schema, dirty, wake, draining, save, bounds, lost>>

\* The power goes, or software_reset is called (REBOOT, an update, a panic):
\* the next boot reads the settings from flash.
Restart ==
  /\ restarts < MaxRestarts /\ restarts' = restarts + 1
  /\ CutInErase \/ ~InErase
  /\ live' = Loaded(flash, schema)
  /\ dirty' = {} /\ wake' = FALSE /\ quiet' = [f \in Debounced |-> None]
  /\ draining' = FALSE /\ save' = None /\ lost' = {}
  /\ UNCHANGED <<flash, schema, changes, faults>>

\* init.
Init ==
  /\ \E m \in Found : schema = m.schema /\ flash = m.items
  /\ live = Loaded(flash, schema)
  /\ dirty = {} /\ wake = FALSE /\ quiet = [f \in Debounced |-> None]
  /\ draining = FALSE /\ save = None
  /\ changes = 0 /\ restarts = 0 /\ faults = 0
  /\ lost = {}

Next ==
  \/ SaveStep \/ WriteFails \/ TaskStep \/ Advance \/ Restart
  \/ \E v \in Value : SetName(v) \/ SetColour(v) \/ \E f \in Debounced : SetDebounced(f, v)

Spec == Init /\ [][Next]_vars
FairSpec == Spec /\ WF_vars(SaveStep) /\ WF_vars(TaskStep) /\ WF_vars(Advance)

-----------------------------------------------------------------------------
(* Whatever is in force is what a restart would come back to, unless it is *)
(* still on its way - noted, with store_task woken for it, quietening down *)
(* or being written - or its write failed and was counted (store_task,     *)
(* commit, note_dirty).  A change may come at any point of the handling of *)
(* the one before: after the bits are swapped, it has a signal of its own. *)
OnItsWay(f) ==
  \/ f \in Debounced /\ ((f \in dirty /\ wake) \/ quiet[f] # None)
  \/ save # None /\ save.field = f

SavedOrPending == \A f \in Field : live[f] = Loaded(flash, schema)[f] \/ OnItsWay(f) \/ f \in lost

(* What a build of another schema wrote is never read under this build's   *)
(* version (prepare, and load's first fetch).                              *)
NotReinterpreted == schema # None /\ schema.ours => \A f \in Field : flash[f] # None => flash[f].ours

(* Flash only ever takes the value in force, field by field, and nothing   *)
(* but a save of a field changes what a restart would find in it.          *)
Promise == INSTANCE WriteBack WITH durable <- Loaded(flash, schema)
KeepsPromise == Promise!Spec

(* A change reaches flash, if its write does not fail: the bits, the       *)
(* signal, the timers and the drain lose none.                             *)
ChangesReachFlash ==
  \A f \in Field : live[f] # Loaded(flash, schema)[f]
                     ~> (live[f] = Loaded(flash, schema)[f] \/ f \in lost)
=============================================================================
