------------------------- MODULE TripleBufferProofs -------------------------
(***************************************************************************)
(* The hand-over of module TripleBuffer keeps its promise for any number   *)
(* of frames: no slot ever has two owners, the panel never shows half a    *)
(* frame and never steps back, and the slots implement LatestFrame.        *)
(***************************************************************************)
EXTENDS TripleBuffer, TLAPS

\* A slot that holds one frame and not halves of two.
Whole(s) == top[s] = bottom[s]

\* What core 1 can come to own is whole; what core 0 draws is newer than
\* anything it has handed over; and a fresh frame is newer than the panel's.
Contents ==
  /\ Whole(shared) /\ Whole(r)
  /\ drawing # "empty" => top[w] = drawn
  /\ drawing = "whole" => Whole(w)
  /\ \A s \in Slot : top[s] <= drawn
  /\ drawing # "empty" => \A s \in Slot \ {w} : top[s] < drawn
  /\ fresh => top[shared] > top[r]

\* Only core 1 clears FRESH, so what its load found is still there.
Seen == seen => fresh

IInv == TypeOK /\ OneOwner /\ Contents /\ Seen

LEMMA InitInv == Init => IInv
<1> SUFFICES ASSUME Init PROVE IInv
  OBVIOUS
<1>1. ~fresh /\ ~seen /\ drawing = "empty" /\ fresh \in BOOLEAN /\ seen \in BOOLEAN
  BY DEF Init
<1>2. \A s \in Slot : top[s] = 0 /\ bottom[s] = 0
  BY DEF Init
<1>3. TypeOK
  BY MaxFramesAssumption, <1>1 DEF Init, TypeOK, Slot
<1>4. OneOwner /\ Contents /\ Seen
  BY <1>1, <1>2 DEF Init, OneOwner, Contents, Seen, Whole, Slot
<1> QED BY <1>3, <1>4 DEF IInv

LEMMA DrawTopInv == IInv /\ DrawTop => IInv'
<1> SUFFICES ASSUME IInv, DrawTop PROVE IInv'
  OBVIOUS
<1> USE MaxFramesAssumption DEF IInv, DrawTop
<1>1. \A s \in Slot : top'[s] = IF s = w THEN drawn + 1 ELSE top[s]
  BY DEF TypeOK, Slot
<1>2. TypeOK'
  BY DEF TypeOK
<1>3. OneOwner'
  BY DEF OneOwner
<1>4. Contents'
  BY <1>1 DEF Contents, OneOwner, Whole, TypeOK, Slot
<1>5. Seen'
  BY DEF Seen
<1> QED BY <1>2, <1>3, <1>4, <1>5

LEMMA DrawBottomInv == IInv /\ DrawBottom => IInv'
<1> SUFFICES ASSUME IInv, DrawBottom PROVE IInv'
  OBVIOUS
<1> USE MaxFramesAssumption DEF IInv, DrawBottom
<1>1. \A s \in Slot : bottom'[s] = IF s = w THEN drawn ELSE bottom[s]
  BY DEF TypeOK, Slot
<1>2. TypeOK'
  BY DEF TypeOK
<1>3. OneOwner'
  BY DEF OneOwner
<1>4. Contents'
  BY <1>1 DEF Contents, OneOwner, Whole, TypeOK, Slot
<1>5. Seen'
  BY DEF Seen
<1> QED BY <1>2, <1>3, <1>4, <1>5

LEMMA SwapInv == IInv /\ (Publish \/ Consume) => IInv'
<1> SUFFICES ASSUME IInv, Publish \/ Consume PROVE IInv'
  OBVIOUS
<1> USE DEF IInv
<1>1. CASE Publish
  BY <1>1 DEF Publish, TypeOK, OneOwner, Contents, Seen, Whole, Slot
<1>2. CASE Look
  BY <1>2 DEF Look, TypeOK, OneOwner, Contents, Seen, Whole
<1>3. CASE Take
  BY <1>3 DEF Take, TypeOK, OneOwner, Contents, Seen, Whole, Slot
<1> QED BY <1>1, <1>2, <1>3 DEF Consume

LEMMA StepInv == IInv /\ [Next]_vars => IInv'
<1>1. ASSUME IInv, UNCHANGED vars PROVE IInv'
  BY <1>1 DEF vars, IInv, TypeOK, OneOwner, Contents, Seen, Whole
<1> QED BY <1>1, DrawTopInv, DrawBottomInv, SwapInv DEF Next, Produce

\* Every slot has exactly one owner - the producer, the consumer, or the
\* word - and core 1 only ever reads whole frames.
THEOREM SlotsSafe == Spec => [](TypeOK /\ OneOwner /\ NeverTorn)
<1>1. IInv => TypeOK /\ OneOwner /\ NeverTorn
  BY DEF IInv, Contents, NeverTorn, Whole
<1> QED BY <1>1, InitInv, StepInv, PTL DEF Spec

\* What a step does to the newest frame and to the one on the panel.
LEMMA StepMaps == IInv /\ [Next]_vars => [Promise!Next]_<<Latest, top[r]>>
<1> SUFFICES ASSUME IInv, [Next]_vars
             PROVE  Promise!Next \/ (Latest' = Latest /\ top'[r'] = top[r])
  OBVIOUS
<1>1. CASE DrawTop \/ DrawBottom
  <2>2. top'[r] = top[r] /\ top'[shared] = top[shared]
    BY <1>1 DEF DrawTop, DrawBottom, IInv, OneOwner, TypeOK
  <2> QED BY <1>1, <2>2 DEF DrawTop, DrawBottom, Latest
<1>2. CASE Publish
  <2>1. Latest' = drawn /\ drawn > Latest /\ drawn \in Nat
    BY <1>2 DEF Publish, Latest, IInv, Contents, OneOwner, TypeOK, Slot
  <2>2. top'[r'] = top[r]
    BY <1>2 DEF Publish
  <2> QED BY <2>1, <2>2 DEF Promise!Next, Promise!Publish
<1>3. CASE Look
  BY <1>3 DEF Look, Latest
<1>4. CASE Take
  BY <1>4 DEF Take, Latest, IInv, Seen, Promise!Next, Promise!Take
<1>5. CASE UNCHANGED vars
  BY <1>5 DEF vars, Latest
<1> QED BY <1>1, <1>2, <1>3, <1>4, <1>5 DEF Next, Produce, Consume

\* The slots and the word implement "the newest frame, taken at a refresh"
\* (the safety part: that a refresh comes at all stays with TLC).
THEOREM SlotsImplement == Spec => Promise!Spec
<1>1. Init => Promise!Init
  BY DEF Init, Promise!Init, Latest, Slot
<1> QED BY <1>1, InitInv, StepInv, StepMaps, PTL DEF Spec, Promise!Spec

\* The panel never steps back to an older frame.
THEOREM PanelNeverBack == Spec => NeverBack
<1>1. IInv /\ [Next]_vars => [top'[r'] >= top[r]]_vars
  <2> SUFFICES ASSUME IInv, Next PROVE top'[r'] >= top[r]
    OBVIOUS
  <2>1. top[r] \in Int /\ top[shared] \in Int
    BY DEF IInv, TypeOK
  <2>2. CASE Take
    BY <2>1, <2>2 DEF Take, IInv, Seen, Contents
  <2>3. CASE DrawTop \/ DrawBottom
    <3>1. top'[r] = top[r]
      BY <2>3 DEF DrawTop, DrawBottom, IInv, OneOwner, TypeOK
    <3> QED BY <2>1, <2>3, <3>1 DEF DrawTop, DrawBottom
  <2>4. CASE Publish \/ Look
    BY <2>1, <2>4 DEF Publish, Look
  <2> QED BY <2>2, <2>3, <2>4 DEF Next, Produce, Consume
<1> QED BY <1>1, InitInv, StepInv, PTL DEF Spec, NeverBack
=============================================================================
