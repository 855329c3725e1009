----------------------------- MODULE PanelProofs -----------------------------
(***************************************************************************)
(* That no screen flickers through the stream, that an update and the      *)
(* button keep the panel while they last, and that neither they nor a      *)
(* stream's last frame outlast it, for any ages at which a screen is drawn *)
(* again.                                                                  *)
(***************************************************************************)
EXTENDS Panel, TLAPS

TypeOK ==
  /\ task \in {"waiting", "draining", "answering"}
  /\ state \in {"Idle", "Live", "Hold"}
  /\ identify \in BOOLEAN /\ published \in BOOLEAN /\ fading \in BOOLEAN
  /\ redraw \in BOOLEAN /\ ota \in BOOLEAN /\ button \in BOOLEAN /\ hold \in BOOLEAN
  /\ portal \in {"none", "portal", "connected"}
  /\ otaWas \in BOOLEAN /\ buttonWas \in BOOLEAN
  /\ portalAge \in 0..PORTAL_MS /\ animAge \in 0..ANIM_MS
  /\ fixed \in BOOLEAN /\ composing \in BOOLEAN /\ showed \in BOOLEAN
  /\ panel \in {"dark", "frame", "ota", "button", "portal", "connected", "pattern",
                "identify", "fade", "idle"}

\* The part of a turn that is under way.
TurnShape == (composing => task = "waiting") /\ (published => task = "answering")

\* There is no frame but of a stream, and a turn with a frame does not end in
\* the idle state.
FrameOfAStream == published => state # "Idle"

\* What a frame was let through for still holds when the screens are drawn:
\* the other tasks do not run in between.
FrameAlone == showed => composing /\ state # "Idle" /\ panel = "frame" /\ ~OwnsPanel

\* The screen of the last turn, which the next one keeps unless it sees an edge.
FirstStays ==
  /\ otaWas /\ (composing => ota) => panel = "ota"
  /\ buttonWas /\ ~otaWas /\ (composing => button) => panel = "button"

\* What has ended is drawn over, or there is still a reason to draw.
EndedIsSeen ==
  state = "Idle" /\ (composing => ~redraw /\ ~Edge) =>
    /\ panel # "frame"
    /\ panel = "ota" => otaWas
    /\ panel = "button" => buttonWas /\ ~otaWas

IInv == TypeOK /\ TurnShape /\ FrameOfAStream /\ FrameAlone /\ FirstStays /\ EndedIsSeen

LEMMA InitInv == Init => IInv
<1> SUFFICES ASSUME Init PROVE IInv
  OBVIOUS
<1>1. portalAge \in 0..PORTAL_MS /\ animAge \in 0..ANIM_MS
  BY PanelAssumption DEF Init
<1>2. TypeOK
  BY <1>1 DEF Init, R!Init, TypeOK
<1> QED BY <1>2 DEF Init, R!Init, IInv, TurnShape, FrameOfAStream, FrameAlone, FirstStays, EndedIsSeen

\* The steps before the screens: they draw nothing, and the turn has not yet
\* published when they are taken.
LEMMA DrainInv == ASSUME IInv, Wake \/ Accept \/ Flush PROVE IInv'
<1>1. UNCHANGED <<fading, asked, screens>> /\ UNCHANGED identify
  BY DEF Wake, Accept, Flush, R!Wake, R!Accept, R!Flush
<1>2. /\ task' \in {"waiting", "draining", "answering"} /\ state' \in {"Idle", "Live", "Hold"}
      /\ published' \in BOOLEAN /\ redraw' \in BOOLEAN
  BY DEF IInv, TypeOK, Wake, Accept, Flush, R!Wake, R!Accept, R!Flush, Redrawn
<1>3. ~composing /\ TurnShape' /\ FrameOfAStream'
  BY <1>1 DEF IInv, TypeOK, TurnShape, FrameOfAStream, Wake, Accept, Flush,
              R!Wake, R!Accept, R!Flush, screens
<1>4. TypeOK'
  BY <1>1, <1>2 DEF IInv, TypeOK, asked, screens
<1>5. state' = "Idle" => state = "Idle"
  BY DEF Wake, Accept, Flush, R!Wake, R!Accept, R!Flush
<1>6. FirstStays' /\ EndedIsSeen'
  BY <1>1, <1>3, <1>5 DEF IInv, FirstStays, EndedIsSeen, screens
<1> QED BY <1>1, <1>3, <1>4, <1>6 DEF IInv, FrameAlone, screens

LEMMA TickInv == ASSUME IInv, Tick PROVE IInv'
<1>1. /\ task' = "waiting" /\ state' \in {"Idle", "Live", "Hold"} /\ published' = FALSE
      /\ identify' \in BOOLEAN /\ fading' \in BOOLEAN /\ redraw' \in BOOLEAN
      /\ composing' = TRUE /\ showed' \in BOOLEAN
  BY DEF IInv, TypeOK, Tick, R!Tick, Redrawn
<1>2. portalAge' \in 0..PORTAL_MS /\ animAge' \in 0..ANIM_MS
  BY PanelAssumption DEF IInv, TypeOK, Tick, Older
<1>3. panel' \in {panel, "frame"} /\ UNCHANGED <<asked, otaWas, buttonWas, fixed>>
  BY DEF Tick
<1>4. TypeOK'
  BY <1>1, <1>2, <1>3 DEF IInv, TypeOK, asked
<1>5. published => state' # "Idle"
  BY DEF IInv, TypeOK, FrameOfAStream, Tick, R!Tick
<1>6. FrameAlone'
  BY <1>1, <1>5 DEF FrameAlone, Tick
<1>7. ~composing
  BY DEF IInv, TypeOK, TurnShape, Tick, R!Tick
<1>8. FirstStays'
  <2>1. ota \/ button => OwnsPanel'
    BY <1>3 DEF OwnsPanel, asked
  <2>2. OwnsPanel' => ~showed'
    BY DEF Tick
  <2>3. ota \/ button => panel' = panel
    BY <2>1, <2>2 DEF Tick
  <2> QED BY <1>1, <1>3, <1>7, <2>3 DEF IInv, FirstStays, asked
<1>9. EndedIsSeen'
  <2>1. SUFFICES ASSUME state' = "Idle", ~redraw'
                 PROVE  (panel' # "frame") /\ (panel' = "ota" => otaWas')
                        /\ (panel' = "button" => buttonWas' /\ ~otaWas')
    BY <1>1 DEF EndedIsSeen
  <2>2. state = "Idle" /\ ~published
    BY <2>1 DEF Tick, Redrawn, IInv, FrameOfAStream
  <2>3. panel' = panel
    BY <2>2 DEF Tick
  <2> QED BY <1>3, <1>7, <2>2, <2>3 DEF IInv, EndedIsSeen
<1> QED BY <1>1, <1>4, <1>6, <1>8, <1>9 DEF IInv, TurnShape, FrameOfAStream

LEMMA TopIsAScreen ==
  ASSUME TypeOK
  PROVE  Top \in {"stream", "ota", "button", "portal", "connected", "pattern", "identify",
                  "fade", "idle"}
BY DEF TypeOK, Top, PortalScreen, Intent

LEMMA ComposeInv == ASSUME IInv, Compose PROVE IInv'
<1>1. panel' = panel \/ (Top # "stream" /\ panel' = Top)
  BY DEF Compose
<1>2. portalAge' \in 0..PORTAL_MS /\ animAge' \in 0..ANIM_MS
  BY PanelAssumption DEF IInv, TypeOK, Compose
<1>3. /\ redraw' \in BOOLEAN /\ fixed' \in BOOLEAN /\ composing' = FALSE /\ showed' = FALSE
      /\ otaWas' \in BOOLEAN /\ buttonWas' \in BOOLEAN
  BY DEF IInv, TypeOK, Compose
<1>4. panel' \in {"dark", "frame", "ota", "button", "portal", "connected", "pattern",
                   "identify", "fade", "idle"}
  BY <1>1, TopIsAScreen DEF IInv, TypeOK
<1>5. UNCHANGED <<core, asked>>
  BY DEF Compose
<1>6. TypeOK'
  BY <1>2, <1>3, <1>4, <1>5 DEF IInv, TypeOK, core, asked
<1>7. composing /\ otaWas' = ota /\ buttonWas' = button
  BY DEF Compose
<1>8. FirstStays'
  <2>1. CASE Due
    BY <1>3, <1>7, <2>1 DEF Compose, Top, FirstStays
  <2>2. CASE ~Due
    <3>1. ota = otaWas /\ button = buttonWas /\ panel' = panel
      BY <2>2 DEF Compose, Due, Edge
    <3> QED BY <1>3, <1>7, <3>1 DEF IInv, FirstStays
  <2> QED BY <2>1, <2>2
<1>9. EndedIsSeen'
  <2>1. SUFFICES ASSUME state = "Idle"
                 PROVE  (panel' # "frame") /\ (panel' = "ota" => ota)
                        /\ (panel' = "button" => button /\ ~ota)
    BY <1>5, <1>7 DEF EndedIsSeen, core
  <2>2. CASE Due
    <3>1. Top # "stream" /\ Top # "frame" /\ (Top = "ota" => ota) /\ (Top = "button" => button /\ ~ota)
      BY <2>1, TopIsAScreen DEF IInv, TypeOK, Top, PortalScreen, Intent
    <3> QED BY <2>2, <3>1 DEF Compose
  <2>3. CASE ~Due
    <3>1. ~redraw /\ ~Edge /\ panel' = panel
      BY <2>3 DEF Compose, Due
    <3> QED BY <2>1, <3>1 DEF IInv, EndedIsSeen, Edge
  <2> QED BY <2>2, <2>3
<1> QED BY <1>3, <1>5, <1>6, <1>8, <1>9 DEF IInv, TurnShape, FrameOfAStream, FrameAlone, core

LEMMA OthersInv == ASSUME IInv, Others PROVE IInv'
<1>1. UNCHANGED screens /\ ~showed' /\ ~composing'
  BY DEF IInv, FrameAlone, Others, screens
<1>2. UNCHANGED <<task, published, fading>>
  BY DEF Others, Ask, Identify, Released, Setting, Bench, R!Identify, R!Release, core
<1>3. /\ ota' \in BOOLEAN /\ button' \in BOOLEAN /\ hold' \in BOOLEAN
      /\ identify' \in BOOLEAN /\ redraw' \in BOOLEAN
      /\ portal' \in {"none", "portal", "connected"}
      /\ state' \in {"Idle", "Live", "Hold"}
  <2>1. CASE Ask
    BY <2>1 DEF IInv, TypeOK, Ask, core
  <2>2. CASE Identify \/ Released
    BY <2>2 DEF IInv, TypeOK, Identify, Released, R!Identify, R!Release, asked
  <2>3. CASE Setting \/ Bench
    BY <2>3 DEF IInv, TypeOK, Setting, Bench, core, asked
  <2> QED BY <2>1, <2>2, <2>3 DEF Others
<1>4. TypeOK'
  BY <1>1, <1>2, <1>3 DEF IInv, TypeOK, screens
<1>5. ~published'
  BY <1>2 DEF IInv, TurnShape, Others
<1>6. state' = "Idle" => state = "Idle"
  BY DEF Others, Ask, Identify, Released, Setting, Bench, R!Identify, R!Release, core
<1>7. FirstStays' /\ EndedIsSeen'
  BY <1>1, <1>6 DEF IInv, FirstStays, EndedIsSeen, screens
<1> QED BY <1>1, <1>4, <1>5, <1>7 DEF IInv, TurnShape, FrameOfAStream, FrameAlone

LEMMA StepInv == IInv /\ [Next]_vars => IInv'
<1>1. ASSUME IInv, UNCHANGED vars PROVE IInv'
  BY <1>1 DEF IInv, TypeOK, TurnShape, FrameOfAStream, FrameAlone, OwnsPanel, FirstStays,
              EndedIsSeen, Edge, vars, core, asked, screens
<1> QED BY <1>1, DrainInv, TickInv, ComposeInv, OthersInv DEF Next, Turn

\* Types of the panel's own state.
THEOREM TypeCorrect == Spec => []TypeOK
<1>1. IInv => TypeOK
  BY DEF IInv
<1> QED BY <1>1, InitInv, StepInv, PTL DEF Spec

\* Between its screens the loop moves the stream as Stream does, and drawing
\* does not move it.
THEOREM FollowsStream == Spec => R!Spec
<1>1. Init => R!Init
  BY DEF Init
<1>2. ASSUME [Next]_vars PROVE [R!Next]_<<task, state, identify, published>>
  <2>1. CASE Wake \/ Accept \/ Flush \/ Tick
    BY <2>1 DEF Wake, Accept, Flush, Tick, R!Next
  <2>2. CASE Compose
    BY <2>2 DEF Compose, core
  <2>3. CASE Others
    <3>1. R!Identify \/ R!Release \/ UNCHANGED core
      BY <2>3 DEF Others, Ask, Identify, Released, Setting, Bench
    <3> QED BY <3>1 DEF R!Next, core
  <2>4. CASE UNCHANGED vars
    BY <2>4 DEF vars, core
  <2> QED BY <1>2, <2>1, <2>2, <2>3, <2>4 DEF Next, Turn
<1> QED BY <1>1, <1>2, PTL DEF Spec, R!Spec

\* A frame that a turn has published is what stays on the panel when the same
\* turn draws: the two tests, of what owns the panel and of what outranks the
\* stream, never disagree, except over a test card that is held.
THEOREM NeverFlickers == Spec => NoFlicker
<1>1. ASSUME IInv, [Next]_vars, composing, showed, ~hold
      PROVE  panel' = "frame"
  <2>1. panel = "frame" /\ state # "Idle" /\ ~OwnsPanel /\ task = "waiting"
    BY <1>1 DEF IInv, FrameAlone, TurnShape
  <2>2. CASE Compose
    <3>1. PortalScreen = "none"
      BY <2>1, <1>1 DEF IInv, TypeOK, PortalScreen, OwnsPanel, Intent
    <3>2. Top = "stream"
      BY <1>1, <2>1, <3>1 DEF Top, Intent, OwnsPanel
    <3> QED BY <2>1, <2>2, <3>2 DEF Compose
  <2>3. CASE Wake \/ Accept \/ Flush \/ Tick \/ Others
    BY <1>1, <2>1, <2>3 DEF Wake, Accept, Flush, Tick, Others, R!Accept, R!Flush, R!Tick
  <2>4. CASE UNCHANGED vars
    BY <2>1, <2>4 DEF vars, screens
  <2> QED BY <1>1, <2>2, <2>3, <2>4 DEF Next, Turn
<1>2. IInv /\ [Next]_vars => [composing /\ showed /\ ~hold => panel' = "frame"]_vars
  BY <1>1
<1> QED BY <1>2, InitInv, StepInv, PTL DEF Spec, NoFlicker

\* Between turns an update has the panel that the last turn gave it, and so has
\* the button if there is none.
THEOREM FirstKeepsThePanel == Spec => []FirstHasThePanel
<1>1. IInv => FirstHasThePanel
  BY DEF IInv, FirstStays, FirstHasThePanel
<1> QED BY <1>1, InitInv, StepInv, PTL DEF Spec

\* What has ended is off an idle panel by the end of the turn that sees it end.
THEOREM EndedIsDrawnOver == Spec => []NothingOutstays
<1>1. IInv => NothingOutstays
  BY DEF IInv, EndedIsSeen, NothingOutstays
<1> QED BY <1>1, InitInv, StepInv, PTL DEF Spec
=============================================================================
