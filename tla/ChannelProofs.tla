---------------------------- MODULE ChannelProofs ----------------------------
(***************************************************************************)
(* That a channel is rendered once, for any number of generations, faults  *)
(* and changes, but for cores that were thrown away just after they had    *)
(* been placed.                                                            *)
(***************************************************************************)
EXTENDS Channel, FiniteSetTheorems, TLAPS

\* A generation that goes on rendering.
Rendering(g) == at[g] \in {"top"} \cup Stuck /\ ~stop[g]

\* It is the one the channel is on, or one that was thrown away.
OnlyTheSlot == \A g \in Gen : Rendering(g) => g = slot \/ g \in orphans

\* The core the watchdog is replacing has been told.
JudgedIsTold == judged # None => ~Rendering(judged)

\* A call of the web API never handles a fault.
ApiHandlesNone == at[Api] \in {"idle", "start"} \cup Asking

IInv == TypeOK /\ ApiHandlesNone /\ JudgedIsTold /\ OnlyTheSlot

-----------------------------------------------------------------------------
(* Where threads may be. *)

PlaceOf(t) ==
  IF t \in Gen THEN Places \ {"idle", "start"}
  ELSE IF t = Api THEN {"idle", "start"} \cup Asking
  ELSE Places \ ({"gone", "lost", "top"} \cup Stuck)

Placed == at \in [Thread -> Places] /\ \A t \in Thread : at[t] \in PlaceOf(t)

LEMMA Names ==
  /\ Watchdog \notin Gen /\ Api \notin Gen /\ None \notin Gen /\ Watchdog # Api
  /\ Gen \subseteq Thread /\ Watchdog \in Thread /\ Api \in Thread
  /\ \A t \in Thread : t \in Gen \/ t = Watchdog \/ t = Api
BY ChannelAssumption DEF Gen, Thread

LEMMA TypeIsPlaced == TypeOK /\ ApiHandlesNone => Placed
BY Names DEF TypeOK, ApiHandlesNone, Placed, PlaceOf, Places, Handling, Blaming, Asking, Stuck

\* Everything of TypeOK but where the threads are.
Rest ==
  /\ cfg \in Patch /\ rebuild \in BOOLEAN
  /\ slot \in Gen \cup {None} /\ first \in BOOLEAN
  /\ consecutive \in Nat
  /\ refused \subseteq Patch /\ gaveUp \in BOOLEAN /\ stopped \in BOOLEAN
  /\ stop \in [Gen -> BOOLEAN]
  /\ deck \in [Gen -> Patch] /\ out \in [Gen -> Patch \cup {None, Held}]
  /\ arg \in [Thread -> Patch]
  /\ judged \in Gen \cup {None} /\ starting \in Nat
  /\ turns \in 0..MaxTurns
  /\ orphans \subseteq Gen

LEMMA TypeParts == TypeOK /\ ApiHandlesNone <=> Rest /\ Placed
<1>1. Placed => ApiHandlesNone
  BY Names DEF Placed, PlaceOf, ApiHandlesNone
<1>2. Placed => \A t \in Thread : t \notin Gen => at[t] \notin {"gone", "lost", "top"} \cup Stuck
  BY Names DEF Placed, PlaceOf, Asking, Stuck
<1>3. Placed => \A g \in Gen : at[g] \notin {"idle", "start"}
  BY Names DEF Placed, PlaceOf
<1>4. TypeOK => Rest
  BY DEF TypeOK, Rest
<1>5. Rest /\ Placed => TypeOK
  BY <1>2, <1>3 DEF TypeOK, Rest, Placed
<1> QED BY <1>1, <1>4, <1>5, TypeIsPlaced

LEMMA PlacesAre ==
  ASSUME NEW t \in Thread PROVE PlaceOf(t) \subseteq Places
BY DEF PlaceOf, Places, Handling, Blaming, Asking, Stuck

LEMMA GoIsPlaced ==
  ASSUME Placed, NEW t \in Thread, NEW place \in PlaceOf(t), Go(t, place)
  PROVE  Placed' /\ \A u \in Thread : at'[u] = IF u = t THEN place ELSE at[u]
<1>1. \A u \in Thread : at'[u] = IF u = t THEN place ELSE at[u]
  BY DEF Placed, Go
<1>2. at' \in [Thread -> Places]
  BY PlacesAre DEF Placed, Go
<1>3. \A u \in Thread : at'[u] \in PlaceOf(u)
  BY <1>1 DEF Placed
<1>4. PlaceOf(1)' = PlaceOf(1) /\ \A u \in Thread : PlaceOf(u)' = PlaceOf(u)
  BY DEF PlaceOf
<1> QED BY <1>1, <1>2, <1>3, <1>4 DEF Placed

LEMMA InitInv == Init => IInv
<1> SUFFICES ASSUME Init PROVE IInv
  OBVIOUS
<1>1. Rest
  <2>1. First \in Patch /\ 0 \in 0..MaxTurns
    BY ChannelAssumption
  <2>2. /\ stop \in [Gen -> BOOLEAN] /\ deck \in [Gen -> Patch]
        /\ out \in [Gen -> Patch \cup {None, Held}] /\ arg \in [Thread -> Patch]
    BY <2>1 DEF Init
  <2> QED BY <2>1, <2>2 DEF Init, Rest
<1>2. Placed
  BY Names DEF Init, Placed, PlaceOf, Places, Handling, Blaming, Asking, Stuck
<1>3. \A g \in Gen : at[g] = "gone"
  BY Names DEF Init
<1>4. judged = None
  BY DEF Init
<1> QED BY <1>1, <1>2, <1>3, <1>4, TypeParts DEF IInv, JudgedIsTold, OnlyTheSlot, Rendering, Stuck

\* A step that starts no core, judges none and throws none away.
LEMMA NobodyNew ==
  ASSUME IInv, Rest', Placed', slot' = slot, judged' = judged,
         \A g \in Gen : Rendering(g)' => Rendering(g) /\ (g \in orphans => g \in orphans')
  PROVE  IInv'
<1>1. TypeOK' /\ ApiHandlesNone'
  <2>1. (TypeOK /\ ApiHandlesNone <=> Rest /\ Placed)'
    BY TypeParts, PTL
  <2> QED BY <2>1
<1>2. judged \in Gen \cup {None}
  BY DEF IInv, TypeOK
<1>3. JudgedIsTold'
  BY <1>2 DEF IInv, JudgedIsTold
<1>4. OnlyTheSlot'
  BY DEF IInv, OnlyTheSlot
<1> QED BY <1>1, <1>3, <1>4 DEF IInv

\* The other steps.
LEMMA SomebodyNew ==
  ASSUME Rest', Placed',
         judged' # None => ~Rendering(judged)',
         \A g \in Gen : Rendering(g)' => g = slot' \/ g \in orphans'
  PROVE  IInv'
<1>1. (TypeOK /\ ApiHandlesNone <=> Rest /\ Placed)'
  BY TypeParts, PTL
<1> QED BY <1>1 DEF IInv, JudgedIsTold, OnlyTheSlot

LEMMA GenGoes ==
  ASSUME IInv, NEW g \in Gen, NEW place \in Places \ {"idle", "start"}, Go(g, place)
  PROVE  /\ Placed'
         /\ at'[g] = place
         /\ \A u \in Thread \ {g} : at'[u] = at[u]
<1>1. g \in Thread /\ place \in PlaceOf(g) /\ Placed
  BY Names, TypeParts DEF PlaceOf, IInv
<1> QED BY <1>1, GoIsPlaced

LEMMA IsRest == IInv => Rest
BY TypeParts DEF IInv

-----------------------------------------------------------------------------
(* The render threads. *)

\* The deck and the core's own flag after the loop is left.
LEMMA DiesType ==
  ASSUME Rest, NEW g \in Gen, Dies(g)
  PROVE  /\ stop' \in [Gen -> BOOLEAN] /\ deck' \in [Gen -> Patch]
         /\ out' \in [Gen -> Patch \cup {None, Held}]
         /\ \A h \in Gen \ {g} : stop'[h] = stop[h]
         /\ orphans' = orphans \ {g} /\ orphans' \subseteq Gen
BY ChannelAssumption DEF Rest, Dies

LEMMA LoopEndsInv == ASSUME IInv, NEW g \in Gen, LoopEnds(g) PROVE IInv'
<1>1. Placed' /\ at'[g] = "gone" /\ \A u \in Thread \ {g} : at'[u] = at[u]
  BY GenGoes DEF LoopEnds, Places
<1>2. Rest'
  BY IsRest, DiesType DEF LoopEnds, Rest, health
<1>3. \A h \in Gen : Rendering(h)' => Rendering(h) /\ (h \in orphans => h \in orphans')
  BY <1>1, IsRest, DiesType, Names DEF LoopEnds, Rendering, Stuck
<1> QED BY <1>1, <1>2, <1>3, NobodyNew DEF LoopEnds

LEMMA PlayingType ==
  ASSUME Rest, NEW g \in Gen
  PROVE  Playing(g) \in Patch /\ Leaving(g) \in Patch \cup {None, Held}
BY ChannelAssumption DEF Rest, Playing, Leaving, Made, Fallback, FadeFrom

\* The frame of a core that was rendering, and still is.
LEMMA FrameGoesOn ==
  ASSUME IInv, NEW g \in Gen, NEW place \in {"top", "late", "lateOut"}, Go(g, place),
         at[g] \in {"top", "late", "lateOut"}, UNCHANGED stop
  PROVE  Placed' /\ \A h \in Gen : Rendering(h)' => Rendering(h)
<1>1. Placed' /\ at'[g] = place /\ \A u \in Thread \ {g} : at'[u] = at[u]
  BY GenGoes DEF Places, Stuck
<1> QED BY <1>1, Names DEF Rendering, Stuck

LEMMA DeckType ==
  ASSUME Rest, NEW g \in Gen, NEW p \in Patch, NEW q \in Patch \cup {None, Held}
  PROVE  /\ [deck EXCEPT ![g] = p] \in [Gen -> Patch]
         /\ [out EXCEPT ![g] = q] \in [Gen -> Patch \cup {None, Held}]
BY DEF Rest

LEMMA GoodType ==
  ASSUME Rest, NEW g \in Gen, Good(g)
  PROVE  /\ consecutive' \in Nat
         /\ UNCHANGED <<cfg, slot, first, refused, gaveUp, stopped, stop, arg, judged,
                        starting, orphans>>
<1>1. consecutive' = consecutive \/ consecutive' = 0
  BY DEF Good
<1>2. consecutive' \in Nat
  BY <1>1 DEF Rest
<1> QED BY <1>2 DEF Good, health

LEMMA FrameInv == ASSUME IInv, NEW g \in Gen, Frame(g) PROVE IInv'
<1>1. at[g] = "top" /\ Go(g, "top") /\ UNCHANGED <<stop, slot, judged, orphans>>
  BY DEF Frame, FrameStarts, Good
<1>2. deck' \in [Gen -> Patch] /\ out' \in [Gen -> Patch \cup {None, Held}]
  BY IsRest, PlayingType, DeckType DEF Frame
<1>3. Rest'
  BY <1>2, IsRest, GoodType DEF Frame, FrameStarts, Rest
<1> QED BY <1>1, <1>3, FrameGoesOn, NobodyNew

LEMMA OutPanicsInv == ASSUME IInv, NEW g \in Gen, OutPanics(g) PROVE IInv'
<1>1. at[g] = "top" /\ Go(g, "top") /\ UNCHANGED <<stop, slot, judged, orphans>>
  BY DEF OutPanics, FrameStarts, Good
<1>2. deck' \in [Gen -> Patch] /\ out' \in [Gen -> Patch \cup {None, Held}]
  BY IsRest, PlayingType, DeckType DEF OutPanics
<1>3. turns' \in 0..MaxTurns
  BY IsRest, ChannelAssumption DEF OutPanics, Turn, Rest
<1>4. Rest'
  BY <1>2, <1>3, IsRest, GoodType DEF OutPanics, FrameStarts, Rest
<1> QED BY <1>1, <1>4, FrameGoesOn, NobodyNew

LEMMA FrameStallsInv == ASSUME IInv, NEW g \in Gen, FrameStalls(g) PROVE IInv'
<1>1. at[g] = "top" /\ UNCHANGED <<stop, slot, judged, orphans>>
  BY DEF FrameStalls, FrameStarts
<1>2. deck' \in [Gen -> Patch] /\ out' \in [Gen -> Patch \cup {None, Held}]
  BY IsRest, PlayingType, DeckType DEF FrameStalls
<1>3. turns' \in 0..MaxTurns
  BY IsRest, ChannelAssumption DEF FrameStalls, Turn, Rest
<1>4. Rest'
  BY <1>2, <1>3, IsRest DEF FrameStalls, FrameStarts, Rest, health
<1>5. Go(g, "late") \/ Go(g, "lateOut")
  BY DEF FrameStalls
<1> QED BY <1>1, <1>4, <1>5, FrameGoesOn, NobodyNew

LEMMA LateFrameInv == ASSUME IInv, NEW g \in Gen, LateFrame(g) PROVE IInv'
<1>1. at[g] \in {"late", "lateOut"} /\ Go(g, "top") /\ UNCHANGED <<stop, slot, judged, orphans>>
  BY DEF LateFrame, Good, Stuck
<1>2. out' \in [Gen -> Patch \cup {None, Held}]
  BY IsRest DEF LateFrame, Rest
<1>3. Rest'
  BY <1>2, IsRest, GoodType DEF LateFrame, Rest
<1> QED BY <1>1, <1>3, FrameGoesOn, NobodyNew

LEMMA PanicsInv ==
  ASSUME IInv, NEW g \in Gen, NEW p \in Patch, Panics(g, p), rebuild' \in BOOLEAN
  PROVE  IInv'
<1>1. Placed' /\ at'[g] = "count" /\ \A u \in Thread \ {g} : at'[u] = at[u]
  BY GenGoes DEF Panics, Places, Handling, Blaming, Asking
<1>2. turns' \in 0..MaxTurns
  BY IsRest, ChannelAssumption DEF Panics, Turn, Rest
<1>3. arg' \in [Thread -> Patch]
  BY IsRest, Names DEF Panics, Rest
<1>4. Rest'
  BY <1>2, <1>3, IsRest, DiesType DEF Panics, Rest, health
<1>5. \A h \in Gen : Rendering(h)' => Rendering(h) /\ (h \in orphans => h \in orphans')
  BY <1>1, IsRest, DiesType, Names DEF Panics, Rendering, Stuck
<1> QED BY <1>1, <1>4, <1>5, NobodyNew DEF Panics

LEMMA FramePanicsInv == ASSUME IInv, NEW g \in Gen, FramePanics(g) PROVE IInv'
BY IsRest, PlayingType, PanicsInv DEF FramePanics, FrameStarts

LEMMA LateFramePanicsInv == ASSUME IInv, NEW g \in Gen, LateFramePanics(g) PROVE IInv'
<1>1. deck[g] \in Patch /\ rebuild' \in BOOLEAN
  BY IsRest DEF LateFramePanics, Rest
<1> QED BY <1>1, PanicsInv DEF LateFramePanics

-----------------------------------------------------------------------------
(* The handling of a fault. *)

\* Whoever handles a fault does not render.
LEMMA HandlerGoes ==
  ASSUME IInv, NEW t \in Thread, at[t] \in Blaming,
         NEW place \in Blaming \cup {"drop", "gone"}, Go(t, place),
         place = "gone" => t # Watchdog, UNCHANGED stop
  PROVE  Placed' /\ \A h \in Gen : Rendering(h)' => Rendering(h)
<1>1. t # Api
  BY DEF IInv, ApiHandlesNone, Asking, Blaming
<1>2. place \in PlaceOf(t) /\ Placed
  BY <1>1, Names, TypeParts DEF PlaceOf, Places, Handling, Blaming, Asking, Stuck, IInv
<1>3. Placed' /\ \A u \in Thread : at'[u] = IF u = t THEN place ELSE at[u]
  BY <1>2, GoIsPlaced
<1> QED BY <1>3, Names DEF Rendering, Stuck, Blaming

LEMMA HandledByGoes ==
  ASSUME IInv, NEW t \in Thread, at[t] \in Blaming, HandledBy(t), UNCHANGED stop
  PROVE  /\ Placed' /\ \A h \in Gen : Rendering(h)' => Rendering(h)
         /\ arg' \in [Thread -> Patch]
<1>1. arg' \in [Thread -> Patch]
  BY IsRest, ChannelAssumption DEF HandledBy, Rest
<1>2. PICK place \in {"drop", "gone"} : Go(t, place) /\ (place = "gone" => t # Watchdog)
  BY DEF HandledBy, MayReplace
<1> QED BY <1>1, <1>2, HandlerGoes

LEMMA CountInv == ASSUME IInv, NEW t \in Thread, Count(t) PROVE IInv'
<1>1. /\ at[t] \in Blaming /\ (Go(t, "giveUp") \/ Go(t, "refuse"))
      /\ UNCHANGED <<stop, slot, judged, orphans>>
  BY DEF Count, Blaming
<1>2. Placed' /\ \A h \in Gen : Rendering(h)' => Rendering(h)
  BY <1>1, HandlerGoes DEF Blaming
<1>3. Rest'
  BY IsRest DEF Count, Rest, health, decks
<1> QED BY <1>1, <1>2, <1>3, NobodyNew

LEMMA RefuseInv == ASSUME IInv, NEW t \in Thread, Refuse(t) PROVE IInv'
<1>1. at[t] \in Blaming /\ Go(t, "fallback") /\ UNCHANGED <<stop, slot, judged, orphans>>
  BY DEF Refuse, Blaming
<1>2. Placed' /\ \A h \in Gen : Rendering(h)' => Rendering(h)
  BY <1>1, HandlerGoes DEF Blaming
<1>3. Rest'
  BY IsRest DEF Refuse, Rest, decks
<1> QED BY <1>1, <1>2, <1>3, NobodyNew

LEMMA GiveUpInv == ASSUME IInv, NEW t \in Thread, GiveUp(t) PROVE IInv'
<1>1. at[t] \in Blaming /\ HandledBy(t) /\ UNCHANGED <<stop, slot, judged, orphans>>
  BY DEF GiveUp, Blaming
<1>2. Rest'
  BY <1>1, IsRest, HandledByGoes DEF GiveUp, Rest, decks
<1> QED BY <1>1, <1>2, HandledByGoes, NobodyNew

LEMMA FallBackInv == ASSUME IInv, NEW t \in Thread, FallBack(t) PROVE IInv'
<1>1. at[t] \in Blaming /\ HandledBy(t) /\ UNCHANGED <<stop, slot, judged, orphans>>
  BY DEF FallBack, Blaming
<1>2. cfg' \in Patch
  BY ChannelAssumption DEF FallBack, Fallback
<1>3. Rest'
  BY <1>1, <1>2, IsRest, HandledByGoes DEF FallBack, Rest, health, decks
<1> QED BY <1>1, <1>3, HandledByGoes, NobodyNew

\* The slot is emptied: whoever goes on rendering has been thrown away.
LEMMA DroppedEmpties ==
  ASSUME IInv, NEW judge, Dropped(judge), judge \in Gen => ~Rendering(judge)
  PROVE  orphans' \subseteq Gen /\ \A h \in Gen : Rendering(h) => h \in orphans'
<1>1. orphans' = orphans \cup (IF Running THEN {slot} \ {judge} ELSE {})
  BY DEF Dropped
<1>2. orphans' \subseteq Gen
  BY <1>1, IsRest DEF Rest, Running
<1>3. ASSUME NEW h \in Gen, Rendering(h), h \notin orphans PROVE h \in orphans'
  <2>1. h = slot /\ h # judge
    BY <1>3 DEF IInv, OnlyTheSlot
  <2>2. Running
    BY <1>3, <2>1, Names DEF Running, Alive, Rendering, Stuck
  <2> QED BY <1>1, <2>1, <2>2
<1> QED BY <1>1, <1>2, <1>3

LEMMA DropInv == ASSUME IInv, NEW g \in Gen, Drop(g) PROVE IInv'
<1>1. Placed' /\ at'[g] = "gone" /\ \A u \in Thread \ {g} : at'[u] = at[u]
  BY GenGoes DEF Drop, Places
<1>2. ~Rendering(g)
  BY DEF Drop, Rendering, Stuck
<1>3. \A h \in Gen : Rendering(h)' => Rendering(h)
  BY <1>1, Names DEF Drop, Dropped, Rendering, Stuck
<1>5. orphans' \subseteq Gen /\ \A h \in Gen : Rendering(h) => h \in orphans'
  BY <1>2, DroppedEmpties DEF Drop
<1>4. Rest'
  BY <1>5, IsRest DEF Drop, Dropped, Rest, health, decks
<1>6. judged' # None => ~Rendering(judged)'
  BY <1>3, IsRest DEF Drop, Rest, IInv, JudgedIsTold
<1> QED BY <1>1, <1>3, <1>4, <1>5, <1>6, SomebodyNew

LEMMA DropJudgedInv == ASSUME IInv, DropJudged PROVE IInv'
<1>1. PICK place \in {"start", "idle"} : Go(Watchdog, place)
  BY DEF DropJudged
<1>2. place \in PlaceOf(Watchdog) /\ Placed
  BY Names, TypeParts DEF PlaceOf, Places, Handling, Blaming, Asking, Stuck, IInv
<1>3. Placed' /\ \A u \in Thread : at'[u] = IF u = Watchdog THEN place ELSE at[u]
  BY <1>1, <1>2, Names, GoIsPlaced
<1>4. \A h \in Gen : Rendering(h)' => Rendering(h)
  BY <1>3, Names DEF DropJudged, Dropped, Rendering, Stuck
<1>5. judged \in Gen => ~Rendering(judged)
  BY Names DEF IInv, JudgedIsTold
<1>6. orphans' \subseteq Gen /\ \A h \in Gen : Rendering(h) => h \in orphans'
  BY <1>5, DroppedEmpties DEF DropJudged
<1>7. Rest'
  BY <1>6, IsRest DEF DropJudged, Dropped, Rest, health, decks
<1>8. judged' = None
  BY DEF DropJudged
<1> QED BY <1>3, <1>4, <1>6, <1>7, <1>8, SomebodyNew

-----------------------------------------------------------------------------
(* Starting a core. *)

LEMMA NewHandleType ==
  ASSUME Rest, NEW g \in Gen, NewHandle(g)
  PROVE  /\ slot' = g /\ first' = FALSE
         /\ stop' \in [Gen -> BOOLEAN] /\ deck' \in [Gen -> Patch]
         /\ out' \in [Gen -> Patch \cup {None, Held}]
         /\ orphans' \subseteq Gen
<1>1. Made \in Patch
  BY ChannelAssumption DEF Rest, Made, Fallback
<1>2. SlotStopped \in [Gen -> BOOLEAN]
  BY DEF Rest, SlotStopped, Running
<1> QED BY <1>1, <1>2 DEF Rest, NewHandle

\* The core that was in the slot has been told when the new one begins, and no
\* other core renders.
LEMMA NewHandleIsTheOnly ==
  ASSUME IInv, NEW g \in Gen, NewHandle(g), Placed',
         NEW place \in {"top", "lost"}, at'[g] = place,
         \A h \in Gen \ {g} : at'[h] = at[h]
  PROVE  /\ \A h \in Gen : Rendering(h)' => h = slot' \/ h \in orphans'
         /\ judged' # None => ~Rendering(judged)'
<1>1. orphans' = orphans \ {g} /\ judged' = judged /\ slot' = g /\ g # judged
  BY DEF NewHandle, Free
<1>2. stop \in [Gen -> BOOLEAN] /\ judged \in Gen \cup {None}
  BY IsRest DEF Rest
<1>3. \A h \in Gen \ {g} : stop'[h] = (stop[h] \/ (Running /\ h = slot))
  BY <1>2 DEF NewHandle, SlotStopped, Running
<1>4. \A h \in Gen \ {g} : Rendering(h)' => Rendering(h) /\ ~(Running /\ h = slot)
  BY <1>3 DEF Rendering, Stuck
<1>5. \A h \in Gen : Rendering(h) /\ h = slot => Running
  BY Names DEF Rendering, Running, Alive, Stuck
<1>6. \A h \in Gen : Rendering(h)' => h = slot' \/ h \in orphans'
  BY <1>1, <1>4, <1>5 DEF IInv, OnlyTheSlot
<1>7. judged' # None => ~Rendering(judged)'
  BY <1>1, <1>2, <1>4 DEF IInv, JudgedIsTold
<1> QED BY <1>6, <1>7

LEMMA StarterGoes ==
  ASSUME IInv, NEW g \in Gen, NEW place \in {"top", "lost"}, Starter(g, place)
  PROVE  /\ Placed' /\ at'[g] = place /\ \A h \in Gen \ {g} : at'[h] = at[h]
         /\ starting' \in Nat
<1>1. starting \in Nat
  BY IsRest DEF Rest
<1>2. CASE starting > 0 /\ starting' = starting - 1 /\ Go(g, place)
  BY <1>1, <1>2, GenGoes, Names DEF Places, Stuck
<1>3. ASSUME NEW t \in {Watchdog, Api}, at[t] = "start", UNCHANGED starting,
             at' = [at EXCEPT ![t] = "idle", ![g] = place]
      PROVE  Placed' /\ at'[g] = place /\ \A h \in Gen \ {g} : at'[h] = at[h]
  <2> DEFINE mid == [at EXCEPT ![t] = "idle"]
  <2>1. Placed /\ t \in Thread \ Gen /\ g \in Thread
    BY TypeParts, Names DEF IInv
  <2>2. "idle" \in PlaceOf(t) /\ place \in PlaceOf(g)
    BY <1>3, Names DEF PlaceOf, Places, Handling, Blaming, Asking, Stuck
  <2>3. \A u \in Thread : at'[u] = IF u = g THEN place ELSE IF u = t THEN "idle" ELSE at[u]
    BY <1>3, <2>1 DEF Placed
  <2>4. at' \in [Thread -> Places]
    BY <1>3, <2>1, <2>2, PlacesAre DEF Placed
  <2>5. \A u \in Thread : at'[u] \in PlaceOf(u)
    BY <2>1, <2>2, <2>3 DEF Placed
  <2>6. \A u \in Thread : PlaceOf(u)' = PlaceOf(u)
    BY DEF PlaceOf
  <2> QED BY <2>1, <2>3, <2>4, <2>5, <2>6, Names DEF Placed
<1> QED BY <1>1, <1>2, <1>3 DEF Starter

LEMMA StartCoreInv == ASSUME IInv, NEW g \in Gen, StartCore(g) PROVE IInv'
<1>1. /\ Placed' /\ at'[g] = "top" /\ \A h \in Gen \ {g} : at'[h] = at[h]
      /\ starting' \in Nat
  BY StarterGoes DEF StartCore
<1>2. Rest'
  BY <1>1, IsRest, NewHandleType, Names DEF StartCore, NewHandle, Rest
<1> QED BY <1>1, <1>2, NewHandleIsTheOnly, SomebodyNew DEF StartCore

LEMMA NoThreadInv == ASSUME IInv, NEW g \in Gen, NoThread(g) PROVE IInv'
<1>1. /\ Placed' /\ at'[g] = "lost" /\ \A h \in Gen \ {g} : at'[h] = at[h]
      /\ starting' \in Nat
  BY StarterGoes DEF NoThread
<1>2. turns' \in 0..MaxTurns
  BY IsRest, ChannelAssumption DEF NoThread, Turn, Rest
<1>3. Rest'
  BY <1>1, <1>2, IsRest, NewHandleType, Names DEF NoThread, NewHandle, Rest
<1> QED BY <1>1, <1>3, NewHandleIsTheOnly, SomebodyNew DEF NoThread

-----------------------------------------------------------------------------
(* The watchdog and the callers. *)

LEMMA CallerGoes ==
  ASSUME IInv, NEW t \in {Watchdog, Api}, NEW place \in PlaceOf(t), Go(t, place)
  PROVE  Placed' /\ \A h \in Gen : at'[h] = at[h]
<1>1. Placed /\ t \in Thread
  BY TypeParts, Names DEF IInv
<1> QED BY <1>1, GoIsPlaced, Names

LEMMA SlotStoppedType ==
  ASSUME Rest
  PROVE  /\ SlotStopped \in [Gen -> BOOLEAN]
         /\ \A h \in Gen : SlotStopped[h] = (stop[h] \/ (Running /\ h = slot))
BY DEF Rest, SlotStopped, Running

LEMMA JudgeInv == ASSUME IInv, Judge PROVE IInv'
<1>1. Placed' /\ \A h \in Gen : at'[h] = at[h]
  BY CallerGoes, Names DEF Judge, PlaceOf, Places, Handling, Blaming, Asking, Stuck
<1>2. slot \in Gen /\ Running
  BY IsRest DEF Judge, Wedged, Running, Rest
<1>3. arg' \in [Thread -> Patch]
  BY IsRest DEF Judge, Rest
<1>4. Rest'
  BY <1>2, <1>3, IsRest, SlotStoppedType DEF Judge, Rest, health, decks
<1>5. \A h \in Gen : Rendering(h)' => Rendering(h) /\ h # slot
  BY <1>1, <1>2, IsRest, SlotStoppedType DEF Judge, Rendering, Stuck
<1>6. judged' = slot /\ slot' = slot /\ orphans' = orphans
  BY DEF Judge
<1>7. \A h \in Gen : Rendering(h)' => h = slot' \/ h \in orphans'
  BY <1>5, <1>6 DEF IInv, OnlyTheSlot
<1>8. ~Rendering(judged)'
  BY <1>2, <1>5, <1>6
<1> QED BY <1>1, <1>4, <1>7, <1>8, SomebodyNew

LEMMA EnsureRunningInv ==
  ASSUME IInv, NEW t \in {Watchdog, Api}, EnsureRunning(t) PROVE IInv'
<1>1. Placed' /\ \A h \in Gen : at'[h] = at[h]
  BY CallerGoes, Names DEF EnsureRunning, PlaceOf, Places, Handling, Blaming, Asking, Stuck
<1>2. Rest'
  BY IsRest DEF EnsureRunning, Rest, health, decks
<1> QED BY <1>1, <1>2, NobodyNew DEF EnsureRunning, Rendering, Stuck

LEMMA ShowInv == ASSUME IInv, NEW p \in Shown, Show(p) PROVE IInv'
<1>1. Placed' /\ \A h \in Gen : at'[h] = at[h]
  BY CallerGoes, Names DEF Show, PlaceOf, Asking
<1>2. p \in Patch /\ turns' \in 0..MaxTurns
  BY IsRest, ChannelAssumption DEF Show, Turn, Rest
<1>3. arg' \in [Thread -> Patch]
  BY <1>2, IsRest DEF Show, Rest
<1>4. Rest'
  BY <1>2, <1>3, IsRest DEF Show, Rest, health, decks
<1> QED BY <1>1, <1>4, NobodyNew DEF Show, Rendering, Stuck

LEMMA AsksInv == ASSUME IInv, Asks PROVE IInv'
<1>1. Go(Api, "relent") \/ Go(Api, "put") \/ Go(Api, "idle")
  BY DEF Asks, Pardon, Relent, PutOn
<1>2. Placed' /\ \A h \in Gen : at'[h] = at[h]
  BY <1>1, CallerGoes, Names DEF PlaceOf, Asking
<1>3. CASE Pardon
  <2>1. arg' \in [Thread -> Patch] /\ refused' \subseteq Patch
    BY <1>3, IsRest, ChannelAssumption DEF Pardon, Rest
  <2> QED BY <1>3, <2>1, IsRest, <1>2, NobodyNew DEF Pardon, Rest, decks, Rendering, Stuck
<1>4. CASE Relent \/ PutOn
  <2>1. Rest'
    <3>1. CASE Relent
      BY <3>1, IsRest DEF Relent, Rest, health, decks
    <3>2. CASE PutOn
      BY <3>2, IsRest DEF PutOn, Rest, health, decks
    <3> QED BY <1>4, <3>1, <3>2
  <2>2. UNCHANGED <<stop, slot, judged, orphans>>
    BY <1>4 DEF Relent, PutOn
  <2> QED BY <1>2, <2>1, <2>2, NobodyNew DEF Rendering
<1> QED BY <1>3, <1>4 DEF Asks

LEMMA EditInv == ASSUME IInv, Edit PROVE IInv'
<1>1. turns' \in 0..MaxTurns
  BY IsRest, ChannelAssumption DEF Edit, Turn, Rest
<1>2. Rest'
  BY <1>1, IsRest DEF Edit, Rest, health, decks, threads
<1>3. UNCHANGED <<at, stop, slot, judged, orphans>> /\ Placed
  BY TypeParts DEF Edit, threads, IInv
<1>4. Placed'
  BY <1>3 DEF Placed, PlaceOf
<1> QED BY <1>2, <1>3, <1>4, NobodyNew DEF Rendering, Stuck

LEMMA ShutdownInv == ASSUME IInv, Shutdown PROVE IInv'
<1>1. UNCHANGED <<at, judged, orphans>> /\ Placed /\ slot' = None
  BY TypeParts DEF Shutdown, threads, IInv
<1>2. Placed'
  BY <1>1 DEF Placed, PlaceOf
<1>3. Rest'
  BY IsRest, SlotStoppedType DEF Shutdown, Rest, health, decks, threads
<1>4. \A h \in Gen : Rendering(h)' => Rendering(h) /\ ~(Running /\ h = slot)
  BY <1>1, IsRest, SlotStoppedType DEF Shutdown, Rendering, Stuck
<1>5. \A h \in Gen : Rendering(h) /\ h = slot => Running
  BY Names DEF Rendering, Running, Alive, Stuck
<1>6. \A h \in Gen : Rendering(h)' => h = slot' \/ h \in orphans'
  BY <1>1, <1>4, <1>5 DEF IInv, OnlyTheSlot
<1>7. judged' # None => ~Rendering(judged)'
  BY <1>1, <1>4, IsRest DEF Rest, IInv, JudgedIsTold
<1> QED BY <1>2, <1>3, <1>6, <1>7, SomebodyNew

LEMMA StutterInv == ASSUME IInv, UNCHANGED vars PROVE IInv'
<1>1. UNCHANGED <<at, stop, slot, judged, orphans>> /\ Placed
  BY TypeParts DEF vars, threads, IInv
<1>2. Placed'
  BY <1>1 DEF Placed, PlaceOf
<1>3. Rest'
  BY IsRest DEF vars, Rest, health, decks, threads
<1> QED BY <1>1, <1>2, <1>3, NobodyNew DEF Rendering, Stuck

LEMMA StepInv == IInv /\ [Next]_vars => IInv'
<1> SUFFICES ASSUME IInv, [Next]_vars PROVE IInv'
  OBVIOUS
<1>1. ASSUME NEW g \in Gen, Renders(g) PROVE IInv'
  BY <1>1, LoopEndsInv, FrameInv, OutPanicsInv, FrameStallsInv, LateFrameInv, FramePanicsInv,
     LateFramePanicsInv DEF Renders
<1>2. ASSUME NEW g \in Gen, Drop(g) \/ Starts(g) PROVE IInv'
  BY <1>2, DropInv, StartCoreInv, NoThreadInv DEF Starts
<1>3. ASSUME NEW t \in Thread, Handles(t) PROVE IInv'
  BY <1>3, CountInv, RefuseInv, GiveUpInv, FallBackInv DEF Handles
<1>4. ASSUME Calls PROVE IInv'
  BY <1>4, ShowInv, AsksInv, EnsureRunningInv, EditInv DEF Calls
<1> QED BY <1>1, <1>2, <1>3, <1>4, DropJudgedInv, JudgeInv, EnsureRunningInv, ShutdownInv,
           StutterInv DEF Next

-----------------------------------------------------------------------------
(* The theorems. *)

\* Every variable of the channel keeps its type.
THEOREM TypeCorrect == Spec => []TypeOK
<1>1. IInv => TypeOK
  BY DEF IInv
<1> QED BY <1>1, InitInv, StepInv, PTL DEF Spec

\* However many threads hang, die and start one another, at most one goes on
\* rendering, but for those that were thrown away just after they were placed.
THEOREM RenderedOnce == Spec => []OneRenderer
<1>1. ASSUME IInv PROVE OneRenderer
  <2> DEFINE S == {g \in Gen \ orphans : Rendering(g)}
  <2>1. S = {} \/ S = {slot}
    BY <1>1 DEF IInv, OnlyTheSlot
  <2>2. Cardinality({}) = 0 /\ Cardinality({slot}) = 1
    BY FS_EmptySet, FS_Singleton
  <2>3. Cardinality(S) \in {0, 1}
    BY <2>1, <2>2
  <2>4. Cardinality(S) <= 1
    BY <2>3
  <2> QED BY <2>4 DEF OneRenderer, Rendering
<1> QED BY <1>1, InitInv, StepInv, PTL DEF Spec
=============================================================================
