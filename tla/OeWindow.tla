------------------------------ MODULE OeWindow ------------------------------
(***************************************************************************)
(* How a brightness reaches the panel.  The panel dims by the width of the *)
(* output-enable window, which is part of each of the two DMA buffers; so  *)
(* a change is a few atomic stores on core 0 (Device::event and bench in   *)
(* firmware/src/receiver.rs, frames_task in net.rs), the last of them      *)
(* BRIGHTNESS_DIRTY := 2, and core 1's display_task (main.rs) rewrites the *)
(* window of the buffer in its hand while the count is not zero.           *)
(*                                                                         *)
(* Every store and every load is a step: the two cores share no lock.      *)
(* Core 0's tasks do not interleave within a change, having no await there.*)
(***************************************************************************)
EXTENDS Integers, Sequences

CONSTANTS
  Levels,        \* what BRIGHTNESS can light, in output-enable slots
  ScreenLevel,   \* what a screen drawn for a camera lights
  RawLevel,      \* what a bench override lights
  None,          \* no override, no screen's demand (u8::MAX)
  OVERRIDE_TIME, \* the override's deadline, in ticks
  MaxChanges     \* bound: changes made on core 0

ASSUME LevelAssumption ==
  /\ Levels # {} /\ Levels \subseteq Nat
  /\ ScreenLevel \in Nat /\ RawLevel \in Nat
  /\ None \notin Nat
  /\ OVERRIDE_TIME \in Nat \ {0}
  /\ MaxChanges \in Nat

Buffer == 0..1

VARIABLES
  brightness,  \* BRIGHTNESS
  override,    \* OE_OVERRIDE
  left,        \* OE_OVERRIDE_DEADLINE_MS, as the time left
  screen,      \* SCREEN_BRIGHTNESS
  dirty,       \* BRIGHTNESS_DIRTY
  stores,      \* core 0: the stores of a change still to be made
  changes,     \* changes made
  core1,       \* where display_task is: the load or store it makes next (Places)
  hand,        \* the buffer in its hand; the other one is on the panel
  window,      \* the lit slots each buffer is formatted for
  \* history
  written,     \* the buffer whose window was written last
  hurried      \* a change began before the one before it had settled

settings == <<brightness, override, left, screen>>
vars == <<settings, dirty, stores, changes, core1, hand, window, written, hurried>>

Store ==
  [to : {"brightness"}, value : Levels] \cup [to : {"override"}, value : {RawLevel, None}]
  \cup [to : {"deadline"}, value : {OVERRIDE_TIME}]
  \cup [to : {"screen"}, value : {ScreenLevel, None}] \cup [to : {"dirty"}, value : {2}]

Places == {"poll", "raw", "deadline", "expire", "announce", "screen", "setting", "count", "swap"}

Lit == Levels \cup {ScreenLevel, RawLevel}

TypeOK ==
  /\ brightness \in Levels
  /\ override \in {RawLevel, None} /\ left \in 0..OVERRIDE_TIME
  /\ screen \in {ScreenLevel, None}
  /\ dirty \in 0..2
  /\ stores \in Seq(Store)
  /\ changes \in 0..MaxChanges
  /\ core1 \in Places
  /\ hand \in Buffer /\ written \in Buffer
  /\ window \in [Buffer -> Lit]
  /\ hurried \in BOOLEAN

\* Boot formats both buffers for the stored brightness before either is seen.
Init ==
  /\ brightness \in Levels
  /\ override = None /\ left = 0 /\ screen = None
  /\ dirty = 0 /\ stores = <<>> /\ changes = 0
  /\ core1 = "poll" /\ hand = 0
  /\ window = [b \in Buffer |-> brightness]
  /\ written = 0 /\ hurried = FALSE

\* The window the panel should have: target_oe_slots, in its order of rank.
Target ==
  CASE override # None -> override
    [] override = None /\ screen # None -> screen
    [] override = None /\ screen = None -> brightness

\* Nothing is on its way to the panel.
Settled == stores = <<>> /\ dirty = 0 /\ core1 \in {"poll", "swap"}

-----------------------------------------------------------------------------
(* Core 0. *)

Change(sequence) ==
  /\ stores = <<>> /\ changes < MaxChanges
  /\ stores' = sequence
  /\ changes' = changes + 1
  /\ hurried' = (hurried \/ ~Settled)
  /\ UNCHANGED <<settings, dirty, core1, hand, window, written>>

\* SET_BRIGHTNESS, when it changes something; it also ends an override.
SetBrightness(level) ==
  /\ level # brightness
  /\ Change(<<[to |-> "brightness", value |-> level],
              [to |-> "override", value |-> None],
              [to |-> "dirty", value |-> 2]>>)

\* The bench opcode 'O'.
BenchOverride ==
  Change(<<[to |-> "override", value |-> RawLevel],
           [to |-> "deadline", value |-> OVERRIDE_TIME],
           [to |-> "dirty", value |-> 2]>>)

\* Mutant: frames_task tells core 1 before it has said what to show.
ScreenEdgeBackwards ==
  \E demand \in {ScreenLevel, None} :
    /\ demand # screen
    /\ Change(<<[to |-> "dirty", value |-> 2],
                [to |-> "screen", value |-> demand]>>)

\* frames_task, on the edge of the portal's QR screen coming or going.
ScreenEdge ==
  \E demand \in {ScreenLevel, None} :
    /\ demand # screen
    /\ Change(<<[to |-> "screen", value |-> demand],
                [to |-> "dirty", value |-> 2]>>)

\* The next store of the change under way.
StoreNext ==
  /\ stores # <<>>
  /\ LET s == Head(stores) IN
       /\ brightness' = IF s.to = "brightness" THEN s.value ELSE brightness
       /\ override' = IF s.to = "override" THEN s.value ELSE override
       /\ left' = IF s.to = "deadline" THEN s.value ELSE left
       /\ screen' = IF s.to = "screen" THEN s.value ELSE screen
       /\ dirty' = IF s.to = "dirty" THEN s.value ELSE dirty
  /\ stores' = Tail(stores)
  /\ UNCHANGED <<changes, core1, hand, window, written, hurried>>

-----------------------------------------------------------------------------
(* Core 1: one turn of display_task's loop. *)

\* The load of the count.  With nothing to do the task may sleep instead of
\* rendering again (dither off), which is the same as not being here yet.
Poll ==
  /\ core1 = "poll"
  /\ core1' = IF dirty > 0 THEN "raw" ELSE "swap"
  /\ UNCHANGED <<settings, dirty, stores, changes, hand, window, written, hurried>>

Format(level) ==
  /\ window' = [window EXCEPT ![hand] = level]
  /\ written' = hand
  /\ core1' = "count"

\* target_oe_slots: the override first, and its deadline if there is one.
ReadOverride ==
  /\ core1 = "raw"
  /\ core1' = IF override = None THEN "screen" ELSE "deadline"
  /\ UNCHANGED <<settings, dirty, stores, changes, hand, window, written, hurried>>

ReadDeadline ==
  /\ core1 = "deadline"
  /\ IF left > 0 THEN Format(RawLevel)
                 ELSE core1' = "expire" /\ UNCHANGED <<window, written>>
  /\ UNCHANGED <<settings, dirty, stores, changes, hand, hurried>>

\* Mutant: an expired override is announced and not cleared.
ExpireKeeps ==
  /\ core1 = "expire"
  /\ core1' = "announce"
  /\ UNCHANGED <<settings, dirty, stores, changes, hand, window, written, hurried>>

\* Whatever override there is by now goes, and both buffers are to be rewritten.
Expire ==
  /\ core1 = "expire"
  /\ override' = None /\ core1' = "announce"
  /\ UNCHANGED <<brightness, left, screen, dirty, stores, changes, hand, window, written, hurried>>

Announce ==
  /\ core1 = "announce"
  /\ dirty' = 2 /\ core1' = "screen"
  /\ UNCHANGED <<settings, stores, changes, hand, window, written, hurried>>

\* target_oe_slots: a screen's demand outranks the setting.
ReadScreen ==
  /\ core1 = "screen"
  /\ IF screen # None THEN Format(screen)
                      ELSE core1' = "setting" /\ UNCHANGED <<window, written>>
  /\ UNCHANGED <<settings, dirty, stores, changes, hand, hurried>>

\* target_oe_slots: the setting.
ReadSetting ==
  /\ core1 = "setting"
  /\ Format(brightness)
  /\ UNCHANGED <<settings, dirty, stores, changes, hand, hurried>>

\* Mutant: the count is cleared by the first buffer written.
CountClears ==
  /\ core1 = "count"
  /\ dirty' = 0
  /\ core1' = "swap"
  /\ UNCHANGED <<settings, stores, changes, hand, window, written, hurried>>

\* BRIGHTNESS_DIRTY.fetch_sub(1), on eight bits.
Count ==
  /\ core1 = "count"
  /\ dirty' = (dirty - 1) % 256
  /\ core1' = "swap"
  /\ UNCHANGED <<settings, stores, changes, hand, window, written, hurried>>

\* render, and the swap: the buffer goes to the panel and the other comes back.
Swap ==
  /\ core1 = "swap"
  /\ hand' = 1 - hand
  /\ core1' = "poll"
  /\ UNCHANGED <<settings, dirty, stores, changes, window, written, hurried>>

-----------------------------------------------------------------------------
\* Time runs against the override's deadline.
Tick ==
  /\ left > 0
  /\ left' = left - 1
  /\ UNCHANGED <<brightness, override, screen, dirty, stores, changes,
                 core1, hand, window, written, hurried>>

Core0 == \/ \E level \in Levels : SetBrightness(level)
         \/ BenchOverride \/ ScreenEdge \/ StoreNext
Core1 ==
  \/ Poll \/ ReadOverride \/ ReadDeadline \/ Expire \/ Announce
  \/ ReadScreen \/ ReadSetting \/ Count \/ Swap

Next == Core0 \/ Core1 \/ Tick

\* Core 1 free-runs, a change begun is finished, and time passes; nothing
\* obliges anyone to begin a change.
Spec == Init /\ [][Next]_vars /\ WF_vars(Core1) /\ WF_vars(StoreNext) /\ WF_vars(Tick)

-----------------------------------------------------------------------------
(* Correctness. *)

\* A change made while the last one is settled reaches both buffers: "the
\* setting lives in the buffer, so it has to be written into each of the two".
BothFollowUnhurried ==
  Settled /\ ~hurried /\ (override = None \/ left > 0) => \A b \in Buffer : window[b] = Target

\* Hurried or not, the buffer written last shows what was asked for last.
LastWrittenFollows ==
  Settled /\ (override = None \/ left > 0) => window[written] = Target

\* However changes and rewrites interleave, the rewriting comes to an end: a
\* count that wrapped below zero would have core 1 rewriting for good.
Quiesces == <>[](dirty = 0)
=============================================================================
