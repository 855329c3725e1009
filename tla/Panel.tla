------------------------------- MODULE Panel -------------------------------
(***************************************************************************)
(* What the device shows (firmware, net.rs: frames_task).  One task owns    *)
(* the frame a sender streams and every screen that may cover it.  A turn  *)
(* of its loop drains the socket, publishes the frame that is left if it   *)
(* may, then draws a screen if one is due and publishes that: two steps,   *)
(* because core 1 shows what was published in between.                     *)
(*                                                                         *)
(* Of the receiver there is all that Stream allows, which is all that      *)
(* Receiver does.  The other tasks run on the same core and only while     *)
(* this one waits: the screens they ask for do not change within a turn.   *)
(* Time is counted in turns; the contents of a screen are left out.        *)
(***************************************************************************)
EXTENDS Naturals

CONSTANTS PORTAL_MS, ANIM_MS   \* in turns

ASSUME PanelAssumption == PORTAL_MS \in Nat /\ ANIM_MS \in Nat

VARIABLES
  task, state, identify, published,   \* the receiver's, as in Stream
  fading,       \* State::Idle began less than FADE_MS ago
  redraw,       \* the receiver's redraw counter has moved since it was seen
  ota,          \* an upload or an installation wants its screen
  button,       \* so does the button
  portal,       \* and the provisioning machine: "none", "portal" or "connected"
  hold,         \* PATTERN_HOLD: a test card is held
  otaWas, buttonWas,
  portalAge, animAge,   \* turns since portal_at_ms and anim_at_ms
  fixed,        \* SCREEN_BRIGHTNESS is set
  composing,    \* in a turn, after the frame and before the screens
  showed,       \* this turn has published a frame
  panel         \* what was published last

R == INSTANCE Stream

core == <<task, state, identify, published, fading>>
asked == <<ota, button, portal, hold>>
screens == <<otaWas, buttonWas, portalAge, animAge, fixed, composing, showed, panel>>
vars == <<core, redraw, asked, screens>>

-----------------------------------------------------------------------------
(* What is due, and to whom the panel belongs.                             *)

Intent ==
  IF identify THEN "identify" ELSE IF state # "Idle" THEN "stream"
  ELSE IF fading THEN "fade" ELSE "idle"

\* The connected screen yields to a stream.
PortalScreen == IF portal = "connected" /\ Intent = "stream" THEN "none" ELSE portal

\* The screen that outranks the others; "stream" draws nothing.
Top ==
  IF ota THEN "ota" ELSE IF button THEN "button" ELSE IF PortalScreen # "none" THEN PortalScreen
  ELSE IF hold THEN "pattern" ELSE Intent

\* Mutant: IDENTIFY is not among the screens that own the panel.
OwnsPanelButIdentify == ota \/ button \/ portal = "portal"

\* Mutant: nor is the button's.
OwnsPanelButButton == ota \/ portal = "portal" \/ identify

\* overlay_owns_panel: a decoded frame is kept from the panel.
OwnsPanel == ota \/ button \/ portal = "portal" \/ identify

\* Mutant: the button draws its screen when it comes, not when it goes.
EdgeOfPress == ota # otaWas \/ (button /\ ~buttonWas)

Edge == ota # otaWas \/ button # buttonWas

\* Mutant: a screen is drawn when it comes and goes, and the machine's has no
\* edge.
DueOnEdges ==
  \/ Intent \in {"identify", "fade"}
  \/ Edge \/ redraw
  \/ Intent = "idle" /\ animAge >= ANIM_MS

Due ==
  \/ Intent \in {"identify", "fade"}
  \/ (ota \/ button \/ PortalScreen # "none") /\ portalAge >= PORTAL_MS
  \/ Edge \/ redraw
  \/ Intent = "idle" /\ animAge >= ANIM_MS

-----------------------------------------------------------------------------
(* One turn of frames_task.                                                *)

Older(age, most) == IF age < most THEN age + 1 ELSE age

\* set_state and the overlay count up redraw whenever something changes.
Redrawn == redraw' = (redraw \/ state' # state \/ identify' # identify)

Wake ==
  /\ ~composing /\ R!Wake
  /\ UNCHANGED <<fading, redraw, asked, screens>>

Accept == R!Accept /\ Redrawn /\ UNCHANGED <<fading, asked, screens>>

Flush == R!Flush /\ Redrawn /\ UNCHANGED <<fading, asked, screens>>

\* The timers, and then the frame that was decoded is published.
Tick ==
  /\ R!Tick /\ Redrawn
  /\ UNCHANGED <<asked, otaWas, buttonWas, fixed>>
  /\ fading' \in IF state # "Idle" /\ state' = "Idle" THEN {TRUE} ELSE {fading, FALSE}
  /\ composing' = TRUE
  /\ showed' = (published /\ ~OwnsPanel')
  /\ panel' = IF showed' THEN "frame" ELSE panel
  /\ portalAge' = Older(portalAge, PORTAL_MS) /\ animAge' = Older(animAge, ANIM_MS)

\* Draw what is due, over everything else; the edges are seen, and the QR code,
\* the only one of the machine's screens that "portal" stands for, gets the
\* brightness a phone can read it at.
Compose ==
  /\ composing /\ composing' = FALSE /\ showed' = FALSE
  /\ IF Due
     THEN /\ panel' = IF Top = "stream" THEN panel ELSE Top
          /\ redraw' = FALSE /\ animAge' = 0
          /\ portalAge' = IF ota \/ button \/ PortalScreen # "none" THEN 0 ELSE portalAge
     ELSE UNCHANGED <<panel, redraw, animAge, portalAge>>
  /\ otaWas' = ota /\ buttonWas' = button
  /\ fixed' = (~ota /\ ~button /\ PortalScreen = "portal")
  /\ UNCHANGED <<core, asked>>

-----------------------------------------------------------------------------
(* What the other tasks ask for while this one waits.                      *)

Ask ==
  /\ \/ ota' = ~ota /\ UNCHANGED <<button, portal>>
     \/ button' = ~button /\ UNCHANGED <<ota, portal>>
     \/ portal' \in {"none", "portal", "connected"} \ {portal} /\ UNCHANGED <<ota, button>>
  /\ UNCHANGED <<core, redraw, hold>>

\* Control requests and the bench, which move the redraw counter.
Identify == R!Identify /\ redraw' = TRUE /\ UNCHANGED <<fading, asked>>
Released == R!Release /\ redraw' = TRUE /\ UNCHANGED <<fading, asked>>
Setting == redraw' = TRUE /\ UNCHANGED <<core, asked>>
Bench == hold' = ~hold /\ redraw' = TRUE /\ UNCHANGED <<core, ota, button, portal>>

Others ==
  /\ task = "waiting" /\ ~composing
  /\ Ask \/ Identify \/ Released \/ Setting \/ Bench
  /\ UNCHANGED screens

-----------------------------------------------------------------------------
Init ==
  /\ R!Init /\ fading \in BOOLEAN /\ redraw = TRUE
  /\ ota = FALSE /\ button = FALSE /\ portal = "none" /\ hold = FALSE
  /\ otaWas = FALSE /\ buttonWas = FALSE
  /\ portalAge = PORTAL_MS /\ animAge = ANIM_MS
  /\ fixed = FALSE /\ composing = FALSE /\ showed = FALSE /\ panel = "dark"

Turn == Wake \/ Flush \/ Tick \/ Compose

Next == Turn \/ Accept \/ Others

Spec == Init /\ [][Next]_vars

\* The task waits for a datagram, but never longer than TICK, and a drain ends
\* when the socket is empty.
FairSpec == Spec /\ WF_vars(Turn)

-----------------------------------------------------------------------------
(* A screen that covers the stream is never shown after a frame of the     *)
(* same turn: the art would flicker through it.  What owns the panel and   *)
(* what is drawn are decided by two different tests, of which one knows    *)
(* nothing of a held test card.                                            *)
NoFlicker ==
  [][composing /\ showed /\ ~hold => panel' = "frame"]_vars

(* Between turns, an update that the last turn saw has the panel, and the  *)
(* button has it if there is none: neither a frame, nor a slow repaint,    *)
(* nor a screen of lower rank has gone over them (frames_task, compose).   *)
FirstHasThePanel ==
  ~composing => /\ otaWas => panel = "ota"
                /\ buttonWas /\ ~otaWas => panel = "button"

(* Between turns, an idle panel shows no picture of a stream that is over, *)
(* no progress of an update and no countdown of a button that the last     *)
(* turn did not see: whatever ends, in any order, is drawn over.  While a  *)
(* stream is held nothing is.                                              *)
NothingOutstays ==
  ~composing /\ state = "Idle" =>
    /\ panel # "frame"
    /\ panel = "ota" => otaWas
    /\ panel = "button" => buttonWas /\ ~otaWas

(* A screen that goes on being the first in rank is on the panel from some *)
(* time on, unless it is a test card under a stream; and the fixed          *)
(* brightness is set for the QR code and for nothing else.                 *)
Screens == {"ota", "button", "portal", "connected", "identify", "idle"}
PanelSettles ==
  /\ \A s \in Screens : <>[](Top = s) => <>[](panel = s)
  /\ <>[](Top = "pattern" /\ Intent # "stream") => <>[](panel = "pattern")
  /\ <>[](Top = "portal") => <>[]fixed
  /\ <>[](Top # "portal") => <>[]~fixed
=============================================================================
