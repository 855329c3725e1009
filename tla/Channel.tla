------------------------------ MODULE Channel ------------------------------
(***************************************************************************)
(* A channel of the studio (crates/studio, channel.rs): the thing that     *)
(* owns a picture, survives its patch and is handed on from one render     *)
(* thread to the next.                                                     *)
(*                                                                         *)
(* Every render thread, the watchdog and the callers of the web API are    *)
(* threads of the operating system.  They share the channel's fields, each *)
(* behind a mutex or an atomic of its own, and nothing spans two of them:  *)
(* an action is what one thread does from one of those writes up to the    *)
(* next.  What it reads on the way it reads at the write before, but where *)
(* the code checks first and acts on it later (a dying thread that may     *)
(* replace itself, ensure_running before start_core), the two are steps.   *)
(* Only a core whose thread cannot be started is placed and given up in    *)
(* one step (NoThread).                                                    *)
(* A channel that is parked is one whose next frame has not started.       *)
(***************************************************************************)
EXTENDS Naturals, FiniteSets

CONSTANTS
  Patch,               \* what a channel can play
  Fallback1, Fallback2,\* the first two of fallback_patch's list
  Faulty,              \* the patches that may panic or stall
  Shown,               \* the patches that callers ask for
  First,               \* the picture the channel is made with
  MAX_FAULTS,
  None, Held,          \* no core, no fade; a fade from a still
  Watchdog, Api,       \* the threads that do not render
  MaxCores,            \* bound: generations of the render thread there are at one time
  MaxTurns             \* bound: faults, and changes of the picture, taken together

ASSUME ChannelAssumption ==
  /\ {Fallback1, Fallback2, First} \cup Faulty \cup Shown \subseteq Patch /\ Fallback1 # Fallback2
  /\ MAX_FAULTS \in Nat \ {0}
  /\ None \notin Nat /\ Watchdog \notin Nat /\ Api \notin Nat /\ Watchdog # Api
  /\ None \notin Patch /\ Held \notin Patch /\ None # Held
  /\ MaxCores \in Nat \ {0} /\ MaxTurns \in Nat

\* A generation that has ended and that nothing names is forgotten, and its
\* number is given out again.
Gen == 1..MaxCores
Thread == Gen \cup {Watchdog, Api}

VARIABLES
  cfg,          \* the patch of the configuration
  rebuild,      \* Pending.rebuild: a picture is waiting to be put on
  slot,         \* Channel::core: the generation it names, or None
  first,        \* no generation has been made yet
  consecutive,  \* faults since the brake was last cleared
  refused, gaveUp,   \* ChannelHealth
  stopped,      \* Channel::stop
  stop,         \* of each generation's CoreHandle
  deck, out,    \* what a generation plays, and what it is fading from
  at,           \* where each thread is
  arg,          \* the patch it blames, or shows
  judged,       \* the core the watchdog is to replace
  starting,     \* how many dying threads have yet to start the next core
  turns,        \* so far
  orphans       \* history: cores that were thrown away unstopped, and go on

health == <<refused, gaveUp>>
decks == <<deck, out>>
threads == <<at, arg, judged, starting>>
vars == <<cfg, rebuild, slot, first, consecutive, health, stopped, stop, decks, threads,
          turns, orphans>>

\* Where a generation is: in no thread; at the top of its loop, where a frame
\* that comes back in time finds it again; in a frame that has taken longer
\* than WATCHDOG, in its patch or in the one that is on its way out; then,
\* dying, in fault (count, refuse, giveUp, fallback) and after it.  A generation whose thread could not be
\* started is lost.
Stuck == {"late", "lateOut"}
Blaming == {"count", "refuse", "giveUp", "fallback"}
Handling == Blaming \cup {"drop", "start"}
Asking == {"pardon", "relent", "put"}
Places == {"gone", "lost", "idle", "top"} \cup Stuck \cup Handling \cup Asking

TypeOK ==
  /\ cfg \in Patch /\ rebuild \in BOOLEAN
  /\ slot \in Gen \cup {None} /\ first \in BOOLEAN
  /\ consecutive \in Nat
  /\ refused \subseteq Patch /\ gaveUp \in BOOLEAN /\ stopped \in BOOLEAN
  /\ stop \in [Gen -> BOOLEAN]
  /\ deck \in [Gen -> Patch] /\ out \in [Gen -> Patch \cup {None, Held}]
  /\ at \in [Thread -> Places] /\ arg \in [Thread -> Patch]
  /\ judged \in Gen \cup {None} /\ starting \in Nat
  /\ turns \in 0..MaxTurns
  /\ orphans \subseteq Gen
  /\ \A t \in Thread : t \notin Gen => at[t] \notin {"gone", "lost", "top"} \cup Stuck
  /\ \A g \in Gen : at[g] \notin {"idle", "start"}

Go(t, place) == at' = [at EXCEPT ![t] = place]
Turn == turns < MaxTurns /\ turns' = turns + 1

-----------------------------------------------------------------------------
(* What plays.                                                             *)

\* fallback_patch: the first of its list that is not the one to avoid.
Fallback(avoid) == IF avoid = Fallback1 THEN Fallback2 ELSE Fallback1

\* make_core: what the configuration says, or the fallback of a refused one.
Made == IF cfg \in refused THEN Fallback(cfg) ELSE cfg

\* Deck::switch: fades never chain.
FadeFrom(g) == IF out[g] = None THEN deck[g] ELSE Held

-----------------------------------------------------------------------------
(* run_core.                                                               *)

\* The loop is left: the deck goes with it, and what stops it says no more.
Dies(g) ==
  /\ stop' = [stop EXCEPT ![g] = FALSE]
  /\ deck' = [deck EXCEPT ![g] = First] /\ out' = [out EXCEPT ![g] = None]
  /\ orphans' = orphans \ {g}

\* Mutant: only its own handle ends a core.
LoopEndsByHandle(g) ==
  /\ at[g] = "top" /\ stop[g]
  /\ Dies(g) /\ Go(g, "gone")
  /\ UNCHANGED <<cfg, rebuild, slot, first, consecutive, health, stopped, arg, judged, starting, turns>>

\* The top of the loop.
LoopEnds(g) ==
  /\ at[g] = "top" /\ (stop[g] \/ stopped)
  /\ Dies(g) /\ Go(g, "gone")
  /\ UNCHANGED <<cfg, rebuild, slot, first, consecutive, health, stopped, arg, judged, starting, turns>>

\* A frame starts with what is pending put on.  A channel that nobody needs
\* waits before it.
Playing(g) == IF rebuild THEN Made ELSE deck[g]
Leaving(g) == IF rebuild THEN FadeFrom(g) ELSE out[g]
FrameStarts(g) ==
  /\ at[g] = "top" /\ ~stop[g] /\ ~stopped
  /\ rebuild' = FALSE

\* A good frame, with the fade over or going on.  Every 300th frame of the
\* channel clears the fault brake, and that may be this one.
Good(g) ==
  /\ consecutive' \in {consecutive, 0}
  /\ Go(g, "top")
  /\ UNCHANGED <<cfg, slot, first, health, stopped, stop, arg, judged, starting, orphans>>

Frame(g) ==
  /\ FrameStarts(g) /\ Good(g)
  /\ deck' = [deck EXCEPT ![g] = Playing(g)]
  /\ \E from \in {Leaving(g), None} : out' = [out EXCEPT ![g] = from]
  /\ UNCHANGED turns

\* A patch on its way out that panics becomes a still.
OutPanics(g) ==
  /\ FrameStarts(g) /\ Good(g) /\ Leaving(g) \in Faulty /\ Turn
  /\ deck' = [deck EXCEPT ![g] = Playing(g)] /\ out' = [out EXCEPT ![g] = Held]

\* WATCHDOG goes by with the frame still out, in either patch.
FrameStalls(g) ==
  /\ FrameStarts(g) /\ Turn
  /\ \/ Playing(g) \in Faulty /\ Go(g, "late")
     \/ Leaving(g) \in Faulty /\ Go(g, "lateOut")
  /\ deck' = [deck EXCEPT ![g] = Playing(g)] /\ out' = [out EXCEPT ![g] = Leaving(g)]
  /\ UNCHANGED <<cfg, slot, first, consecutive, health, stopped, stop, arg, judged, starting, orphans>>

\* It comes after all, or with the patch on its way out given up as a still.
LateFrame(g) ==
  /\ at[g] \in Stuck /\ Good(g)
  /\ \E from \in {out[g], None} \cup (IF out[g] \in Faulty THEN {Held} ELSE {}) :
       out' = [out EXCEPT ![g] = from]
  /\ UNCHANGED <<rebuild, deck, turns>>

\* The current patch panics, in time or late; the thread goes on to fault.
Panics(g, patch) ==
  /\ patch \in Faulty /\ Turn
  /\ Dies(g) /\ Go(g, "count")
  /\ arg' = [arg EXCEPT ![g] = patch]
  /\ UNCHANGED <<cfg, slot, first, consecutive, health, stopped, judged, starting>>

FramePanics(g) == FrameStarts(g) /\ Panics(g, Playing(g))
LateFramePanics(g) == at[g] = "late" /\ Panics(g, deck[g]) /\ rebuild' = rebuild

-----------------------------------------------------------------------------
(* A fault is handled by the thread that had it, or by the watchdog.       *)

\* The watchdog goes on to replace the core; of the threads that die, only the
\* generation the channel is on may, and none if it is stopped.
MayReplace(t) == t = Watchdog \/ (slot = t /\ ~stopped)
HandledBy(t) ==
  /\ Go(t, IF MayReplace(t) THEN "drop" ELSE "gone")
  /\ arg' = [arg EXCEPT ![t] = First]

\* fault: count it...
Count(t) ==
  /\ at[t] = "count"
  /\ consecutive' = consecutive + 1
  /\ Go(t, IF consecutive' >= MAX_FAULTS THEN "giveUp" ELSE "refuse")
  /\ UNCHANGED <<cfg, rebuild, slot, first, health, stopped, stop, decks, arg, judged, starting,
                 turns, orphans>>

\* ...refuse the patch...
Refuse(t) ==
  /\ at[t] = "refuse" /\ Go(t, "fallback")
  /\ refused' = refused \cup {arg[t]}
  /\ UNCHANGED <<cfg, rebuild, slot, first, consecutive, gaveUp, stopped, stop, decks, arg, judged,
                 starting, turns, orphans>>

\* ...and give up, when there have been MAX_FAULTS...
GiveUp(t) ==
  /\ at[t] = "giveUp" /\ HandledBy(t)
  /\ refused' = refused \cup {arg[t]} /\ gaveUp' = TRUE
  /\ UNCHANGED <<cfg, rebuild, slot, first, consecutive, stopped, stop, decks, judged, starting,
                 turns, orphans>>

\* ...or put the channel on the fallback.
FallBack(t) ==
  /\ at[t] = "fallback"
  /\ cfg' = Fallback(arg[t]) /\ HandledBy(t)
  /\ UNCHANGED <<rebuild, slot, first, consecutive, health, stopped, stop, decks, judged, starting,
                 turns, orphans>>

Alive(g) == at[g] \in {"top", "lost"} \cup Stuck
Running == slot # None /\ Alive(slot)
Wanted == ~stopped /\ ~gaveUp   \* by ensure_running

\* The slot is emptied, whatever is in it by now, and ensure_running finds none.
Dropped(judge) ==
  /\ slot' = None /\ orphans' = orphans \cup (IF Running THEN {slot} \ {judge} ELSE {})
  /\ UNCHANGED <<cfg, rebuild, first, consecutive, health, stopped, stop, decks, arg, turns>>

Drop(g) ==
  /\ at[g] = "drop" /\ Go(g, "gone")
  /\ Dropped(g)
  /\ starting' = starting + (IF Wanted THEN 1 ELSE 0)
  /\ UNCHANGED judged

DropJudged ==
  /\ at[Watchdog] = "drop" /\ Go(Watchdog, IF Wanted THEN "start" ELSE "idle")
  /\ Dropped(judged)
  /\ judged' = None /\ UNCHANGED starting

-----------------------------------------------------------------------------
(* start_core, by any thread that has seen none running.                   *)

Free(g) == at[g] \in {"gone", "lost"} /\ g \notin {slot, judged}

\* Mutant: it is not told.
SlotLeftRunning == stop

\* The core that is in the slot is told to stop.  Nobody asks one that has ended.
SlotStopped == IF Running THEN [stop EXCEPT ![slot] = TRUE] ELSE stop

\* The new handle, g, replaces the one in the slot.  Every core but the first
\* fades in from black.
NewHandle(g) ==
  /\ Free(g) /\ \A h \in 1..(g - 1) : ~Free(h)
  /\ slot' = g /\ first' = FALSE
  /\ stop' = [SlotStopped EXCEPT ![g] = FALSE]
  /\ deck' = [deck EXCEPT ![g] = Made]
  /\ out' = [out EXCEPT ![g] = IF first THEN None ELSE Held]
  /\ orphans' = orphans \ {g}
  /\ UNCHANGED <<cfg, rebuild, consecutive, refused, stopped, arg, judged>>

\* A dying thread ends with it; the others go back to what they do.
Starter(g, place) ==
  \/ /\ starting > 0 /\ starting' = starting - 1
     /\ Go(g, place)
  \/ \E t \in {Watchdog, Api} :
       /\ at[t] = "start" /\ UNCHANGED starting
       /\ at' = [at EXCEPT ![t] = "idle", ![g] = place]

StartCore(g) ==
  /\ Starter(g, "top") /\ NewHandle(g)
  /\ UNCHANGED <<gaveUp, turns>>

\* No thread can be started: the handle stays, alive, with nobody behind it.
NoThread(g) ==
  /\ Starter(g, "lost") /\ NewHandle(g) /\ Turn
  /\ gaveUp' = TRUE

-----------------------------------------------------------------------------
(* The watchdog.                                                           *)

\* Mutant: a core whose outgoing patch does not come back is not judged.
WedgedInPatch == Running /\ at[slot] \in {"late", "lost"}

\* Its frame has not come back.
Wedged == Running /\ at[slot] \in Stuck \cup {"lost"}

\* supervise: judge the core in the slot, and blame what is configured...
Judge ==
  /\ at[Watchdog] = "idle" /\ ~stopped /\ Wedged
  /\ stop' = SlotStopped /\ judged' = slot
  /\ arg' = [arg EXCEPT ![Watchdog] = cfg]
  /\ Go(Watchdog, "count")
  /\ UNCHANGED <<cfg, rebuild, slot, first, consecutive, health, stopped, decks, starting, turns, orphans>>

\* ensure_running: the watchdog, when it finds none wedged, or a caller: a panel
\* joins, or somebody wants to see the channel.
EnsureRunning(t) ==
  /\ at[t] = "idle" /\ Wanted /\ ~Running
  /\ Go(t, "start")
  /\ UNCHANGED <<cfg, rebuild, slot, first, consecutive, health, stopped, stop, decks, arg, judged, starting,
                 turns, orphans>>

-----------------------------------------------------------------------------
(* The callers.                                                            *)

\* show: the configuration, then the refusal...
Show(p) ==
  /\ at[Api] = "idle" /\ Turn
  /\ cfg' = p /\ arg' = [arg EXCEPT ![Api] = p] /\ Go(Api, "pardon")
  /\ UNCHANGED <<rebuild, slot, first, consecutive, health, stopped, stop, decks, judged, starting, orphans>>

Pardon ==
  /\ at[Api] = "pardon" /\ Go(Api, "relent")
  /\ refused' = refused \ {arg[Api]} /\ gaveUp' = FALSE
  /\ arg' = [arg EXCEPT ![Api] = First]
  /\ UNCHANGED <<cfg, rebuild, slot, first, consecutive, stopped, stop, decks, judged, starting, turns,
                 orphans>>

\* ...then the brake...
Relent ==
  /\ at[Api] = "relent" /\ Go(Api, "put")
  /\ consecutive' = 0
  /\ UNCHANGED <<cfg, rebuild, slot, first, health, stopped, stop, decks, arg, judged, starting, turns,
                 orphans>>

\* ...and the slot of pending changes.
PutOn ==
  /\ at[Api] = "put" /\ Go(Api, "idle")
  /\ rebuild' = TRUE
  /\ UNCHANGED <<cfg, slot, first, consecutive, health, stopped, stop, decks, arg, judged, starting, turns,
                 orphans>>

\* edit: a new seed or a restart puts the picture on again.
Edit ==
  /\ at[Api] = "idle" /\ Turn
  /\ rebuild' = TRUE
  /\ UNCHANGED <<cfg, slot, first, consecutive, health, stopped, stop, decks, threads, orphans>>

\* The channel is deleted, or the studio ends.
Shutdown ==
  /\ ~stopped /\ stopped' = TRUE
  /\ stop' = SlotStopped /\ slot' = None
  /\ UNCHANGED <<cfg, rebuild, first, consecutive, health, decks, threads, turns, orphans>>

-----------------------------------------------------------------------------
Init ==
  /\ cfg = First /\ rebuild = FALSE /\ slot = None /\ first = TRUE
  /\ consecutive = 0 /\ refused = {} /\ gaveUp = FALSE /\ stopped = FALSE
  /\ stop = [g \in Gen |-> FALSE]
  /\ deck = [g \in Gen |-> First] /\ out = [g \in Gen |-> None]
  /\ at = [t \in Thread |-> IF t \in Gen THEN "gone" ELSE "idle"]
  /\ arg = [t \in Thread |-> First] /\ judged = None /\ starting = 0
  /\ turns = 0 /\ orphans = {}

Renders(g) ==
  \/ LoopEnds(g) \/ Frame(g) \/ OutPanics(g) \/ FrameStalls(g) \/ LateFrame(g)
  \/ FramePanics(g) \/ LateFramePanics(g)
Starts(g) == StartCore(g) \/ NoThread(g)
Handles(t) == Count(t) \/ Refuse(t) \/ GiveUp(t) \/ FallBack(t)
Asks == Pardon \/ Relent \/ PutOn
Calls == (\E p \in Shown : Show(p)) \/ Asks \/ EnsureRunning(Api) \/ Edit

Next ==
  \/ \E g \in Gen : Renders(g) \/ Drop(g) \/ Starts(g)
  \/ \E t \in Thread : Handles(t)
  \/ DropJudged
  \/ Judge \/ EnsureRunning(Watchdog) \/ Calls \/ Shutdown

Spec == Init /\ [][Next]_vars

\* Some thread that can run does, and the watchdog, which looks about once a
\* second, counts as one.  Nothing is assumed of a frame that is late, of a
\* channel that may have nobody to render for, nor of callers.
Work ==
  \/ \E g \in Gen : LoopEnds(g) \/ Drop(g) \/ Starts(g)
  \/ \E t \in Thread : Handles(t)
  \/ DropJudged \/ Judge \/ EnsureRunning(Watchdog) \/ Asks

Fairness == WF_vars(Work)

FairSpec == Spec /\ Fairness

-----------------------------------------------------------------------------
(* Each tick is rendered and encoded once: but for the cores that were     *)
(* thrown away unstopped just after they had been placed, no two cores go  *)
(* on rendering.                                                           *)
OneRenderer ==
  Cardinality({g \in Gen \ orphans : at[g] \in {"top"} \cup Stuck /\ ~stop[g]}) <= 1

(* A channel that is neither stopped nor given up always comes back to a   *)
(* core that renders, however its patches panic and stall.                 *)
Recovers ==
  []<>(stopped \/ gaveUp \/ (Running /\ at[slot] = "top"))

(* Once a channel is shut down its threads end, the ones that are just     *)
(* being started included, and none starts another.  (What has been        *)
(* stopped stays stopped.)                                                 *)
ShutdownEnds == <>[]stopped => <>[](\A g \in Gen : at[g] # "top")

(* A patch that does not come back while it is on its way out is the one   *)
(* the watchdog blames: it must not take the one coming in with it.        *)
OutgoingTakesNobody ==
  [][at[Watchdog] = "idle" /\ at'[Watchdog] = "count" /\ at[slot] = "lateOut"
     => arg'[Watchdog] = out[slot]]_vars
=============================================================================
