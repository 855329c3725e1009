--------------------------- MODULE OeWindowProofs ---------------------------
(***************************************************************************)
(* That the window follows the setting, for any levels, any deadline and   *)
(* any number of changes.                                                  *)
(***************************************************************************)
EXTENDS OeWindow, TLAPS

\* An override whose time is up is not what the panel should show, and not
\* what it is asked not to show either until core 1 has looked at it.
Current == override = None \/ left > 0

ToBrightness(level) == [to |-> "brightness", value |-> level]
ToOverride(level) == [to |-> "override", value |-> level]
ToDeadline == [to |-> "deadline", value |-> OVERRIDE_TIME]
ToScreen(level) == [to |-> "screen", value |-> level]
ToDirty == [to |-> "dirty", value |-> 2]

\* What is left of a change ends in the store that announces it.
Changing ==
  \/ stores = <<>>
  \/ \E level \in Levels : stores = <<ToBrightness(level), ToOverride(None), ToDirty>>
  \/ \E level \in {RawLevel, None} : stores = <<ToOverride(level), ToDirty>>
  \/ stores = <<ToOverride(RawLevel), ToDeadline, ToDirty>>
  \/ stores = <<ToDeadline, ToDirty>>
  \/ \E level \in {ScreenLevel, None} : stores = <<ToScreen(level), ToDirty>>
  \/ stores = <<ToDirty>>

\* Core 1 is in the middle of a rewrite only while there is one to count.
Counted == core1 \notin {"poll", "swap"} => dirty > 0

\* What core 1 has read so far still holds, or another rewrite is coming.
LastPass ==
  stores = <<>> =>
    /\ core1 = "deadline" /\ dirty = 1 => override = RawLevel
    /\ core1 = "screen" /\ dirty = 1 => override = None
    /\ core1 = "setting" /\ dirty = 1 => override = None /\ screen = None
    /\ core1 = "count" /\ dirty = 1 /\ Current => window[written] = Target
    /\ dirty = 0 /\ Current => window[written] = Target

\* Without haste a change is made while core 1 has nothing to rewrite, and
\* each of the two rewrites then leaves its buffer right.
FirstPass ==
  ~hurried =>
    /\ stores # <<>> => dirty = 0
    /\ stores = <<>> /\ Current =>
         /\ core1 = "deadline" => override = RawLevel
         /\ core1 # "expire"
         /\ core1 \in {"announce", "screen"} => override = None
         /\ core1 = "setting" => override = None /\ screen = None
         /\ core1 = "count" => window[hand] = Target
         /\ core1 = "swap" /\ dirty = 1 => window[hand] = Target
         /\ core1 \notin {"announce", "swap"} /\ dirty = 1 => window[1 - hand] = Target
         /\ dirty = 0 => \A b \in Buffer : window[b] = Target

IInv == TypeOK /\ Changing /\ Counted /\ LastPass /\ FirstPass

-----------------------------------------------------------------------------
(* The constants and the settings. *)

LEMMA NoneIsNoLevel ==
  /\ None \notin Levels /\ None # RawLevel /\ None # ScreenLevel
  /\ OVERRIDE_TIME \in Nat \ {0}
BY LevelAssumption

LEMMA TargetIsLit ==
  ASSUME brightness \in Levels, override \in {RawLevel, None}, screen \in {ScreenLevel, None}
  PROVE  Target \in Lit
BY DEF Target, Lit

LEMMA InitInv == Init => IInv
<1> SUFFICES ASSUME Init PROVE IInv
  OBVIOUS
<1>1. TypeOK
  <2>1. stores \in Seq(Store)
    BY DEF Init
  <2>2. window \in [Buffer -> Lit]
    BY DEF Init, Lit
  <2>3. left \in 0..OVERRIDE_TIME /\ changes \in 0..MaxChanges /\ dirty \in 0..2
    BY LevelAssumption DEF Init
  <2> QED BY <2>1, <2>2, <2>3 DEF Init, TypeOK, Places, Buffer
<1>2. Changing /\ Counted
  BY DEF Init, Changing, Counted
<1>3. Target = brightness
  BY DEF Init, Target
<1>4. LastPass /\ FirstPass
  BY <1>3 DEF Init, LastPass, FirstPass, Buffer
<1> QED BY <1>1, <1>2, <1>4 DEF IInv

-----------------------------------------------------------------------------
(* Core 0. *)

LEMMA ChangeInv ==
  ASSUME NEW sequence, IInv, Change(sequence),
         sequence # <<>>, sequence \in Seq(Store), Changing'
  PROVE  IInv'
<1> USE DEF IInv, Change
<1>1. TypeOK'
  <2>1. changes' \in 0..MaxChanges
    BY LevelAssumption DEF TypeOK, Places
  <2>2. hurried' \in BOOLEAN
    BY DEF TypeOK, Places
  <2> QED BY <2>1, <2>2 DEF TypeOK, Places, settings
<1>2. Counted'
  BY DEF Counted
<1>3. LastPass'
  BY DEF LastPass
<1>4. ~hurried' => ~hurried /\ Settled
  BY DEF TypeOK, Places
<1>5. FirstPass'
  BY <1>4 DEF FirstPass, Settled
<1> QED BY <1>1, <1>2, <1>3, <1>5

LEMMA StoresAreSequences ==
  /\ \A x, y \in Store : <<x, y>> \in Seq(Store) /\ <<x, y>> # <<>>
  /\ \A x, y, z \in Store : <<x, y, z>> \in Seq(Store) /\ <<x, y, z>> # <<>>
  /\ \A x \in Store : <<x>> \in Seq(Store)
OBVIOUS

LEMMA StoresAreStores ==
  /\ \A level \in Levels : ToBrightness(level) \in Store
  /\ \A level \in {RawLevel, None} : ToOverride(level) \in Store
  /\ \A level \in {ScreenLevel, None} : ToScreen(level) \in Store
  /\ ToDeadline \in Store /\ ToDirty \in Store
BY DEF ToBrightness, ToOverride, ToScreen, ToDeadline, ToDirty, Store

LEMMA SetBrightnessInv ==
  ASSUME IInv, NEW level \in Levels, SetBrightness(level) PROVE IInv'
<1> DEFINE sequence == <<ToBrightness(level), ToOverride(None), ToDirty>>
<1>1. Change(sequence)
  BY DEF SetBrightness, ToBrightness, ToOverride, ToDirty
<1>2. sequence # <<>> /\ sequence \in Seq(Store)
  BY StoresAreSequences, StoresAreStores
<1>3. Changing'
  BY <1>1 DEF Changing, Change
<1> QED BY <1>1, <1>2, <1>3, ChangeInv

LEMMA BenchOverrideInv == ASSUME IInv, BenchOverride PROVE IInv'
<1> DEFINE sequence == <<ToOverride(RawLevel), ToDeadline, ToDirty>>
<1>1. Change(sequence)
  BY DEF BenchOverride, ToOverride, ToDeadline, ToDirty
<1>2. sequence # <<>> /\ sequence \in Seq(Store)
  BY StoresAreSequences, StoresAreStores
<1>3. Changing'
  BY <1>1 DEF Changing, Change
<1> QED BY <1>1, <1>2, <1>3, ChangeInv

LEMMA ScreenEdgeInv == ASSUME IInv, ScreenEdge PROVE IInv'
<1>1. PICK demand \in {ScreenLevel, None} : Change(<<ToScreen(demand), ToDirty>>)
  BY DEF ScreenEdge, ToScreen, ToDirty
<1> DEFINE sequence == <<ToScreen(demand), ToDirty>>
<1>2. sequence # <<>> /\ sequence \in Seq(Store)
  BY StoresAreSequences, StoresAreStores
<1>3. Changing'
  BY <1>1 DEF Changing, Change
<1> QED BY <1>1, <1>2, <1>3, ChangeInv

\* A store leaves a change that still has something to announce, or it was
\* the announcement.
LEMMA StoreNextForm ==
  ASSUME IInv, StoreNext
  PROVE  /\ Changing' /\ stores' \in Seq(Store)
         /\ brightness' \in Levels /\ override' \in {RawLevel, None}
         /\ left' \in 0..OVERRIDE_TIME /\ screen' \in {ScreenLevel, None}
         /\ IF stores' = <<>>
            THEN stores = <<ToDirty>> /\ dirty' = 2
            ELSE dirty' = dirty
<1> DEFINE s == Head(stores)
<1> USE NoneIsNoLevel DEF ToBrightness, ToOverride, ToDeadline, ToScreen, ToDirty
<1>1. stores # <<>> /\ stores' = Tail(stores)
  BY DEF StoreNext
<1>2. /\ brightness' = IF s.to = "brightness" THEN s.value ELSE brightness
      /\ override' = IF s.to = "override" THEN s.value ELSE override
      /\ left' = IF s.to = "deadline" THEN s.value ELSE left
      /\ screen' = IF s.to = "screen" THEN s.value ELSE screen
      /\ dirty' = IF s.to = "dirty" THEN s.value ELSE dirty
  BY DEF StoreNext
<1>3. /\ brightness \in Levels /\ override \in {RawLevel, None}
      /\ left \in 0..OVERRIDE_TIME /\ screen \in {ScreenLevel, None}
  BY DEF IInv, TypeOK, Places
<1>4. stores' \in Seq(Store)
  BY <1>1 DEF IInv, TypeOK, Places
<1>5. CASE \E level \in Levels : stores = <<ToBrightness(level), ToOverride(None), ToDirty>>
  <2>1. PICK level \in Levels : stores = <<ToBrightness(level), ToOverride(None), ToDirty>>
    BY <1>5
  <2>2. s = ToBrightness(level) /\ stores' = <<ToOverride(None), ToDirty>>
    BY <2>1, <1>1
  <2>3. Changing'
    BY <2>2 DEF Changing
  <2> QED BY <2>2, <2>3, <1>2, <1>3, <1>4
<1>6. CASE \E level \in {RawLevel, None} : stores = <<ToOverride(level), ToDirty>>
  <2>1. PICK level \in {RawLevel, None} : stores = <<ToOverride(level), ToDirty>>
    BY <1>6
  <2>2. s = ToOverride(level) /\ stores' = <<ToDirty>>
    BY <2>1, <1>1
  <2>3. Changing'
    BY <2>2 DEF Changing
  <2> QED BY <2>2, <2>3, <1>2, <1>3, <1>4
<1>7. CASE stores = <<ToOverride(RawLevel), ToDeadline, ToDirty>>
  <2>1. s = ToOverride(RawLevel) /\ stores' = <<ToDeadline, ToDirty>>
    BY <1>7, <1>1
  <2>2. Changing'
    BY <2>1 DEF Changing
  <2> QED BY <2>1, <2>2, <1>2, <1>3, <1>4
<1>8. CASE stores = <<ToDeadline, ToDirty>>
  <2>1. s = ToDeadline /\ stores' = <<ToDirty>>
    BY <1>8, <1>1
  <2>2. Changing'
    BY <2>1 DEF Changing
  <2>3. left' = OVERRIDE_TIME /\ left' \in 0..OVERRIDE_TIME
    BY <2>1, <1>2
  <2> QED BY <2>1, <2>2, <2>3, <1>2, <1>3, <1>4
<1>9. CASE \E level \in {ScreenLevel, None} : stores = <<ToScreen(level), ToDirty>>
  <2>1. PICK level \in {ScreenLevel, None} : stores = <<ToScreen(level), ToDirty>>
    BY <1>9
  <2>2. s = ToScreen(level) /\ stores' = <<ToDirty>>
    BY <2>1, <1>1
  <2>3. Changing'
    BY <2>2 DEF Changing
  <2> QED BY <2>2, <2>3, <1>2, <1>3, <1>4
<1>10. CASE stores = <<ToDirty>>
  <2>1. s = ToDirty /\ stores' = <<>>
    BY <1>10, <1>1
  <2>2. Changing'
    BY <2>1 DEF Changing
  <2> QED BY <1>10, <2>1, <2>2, <1>2, <1>3, <1>4
<1> QED BY <1>1, <1>5, <1>6, <1>7, <1>8, <1>9, <1>10 DEF IInv, Changing

LEMMA StoreNextInv == ASSUME IInv, StoreNext PROVE IInv'
<1>1. UNCHANGED <<changes, core1, hand, window, written, hurried>> /\ stores # <<>>
  BY DEF StoreNext
<1>2. dirty' \in 0..2 /\ (dirty > 0 => dirty' > 0) /\ (stores' = <<>> => dirty' = 2)
  BY StoreNextForm DEF IInv, TypeOK, Places
<1>3. TypeOK'
  BY StoreNextForm, <1>1, <1>2 DEF IInv, TypeOK, Places
<1>4. Counted'
  BY <1>1, <1>2 DEF IInv, Counted, TypeOK, Places
<1>5. LastPass'
  BY <1>2 DEF LastPass
<1>6. ~hurried => dirty = 0 /\ core1 \in {"poll", "swap"}
  BY <1>1 DEF IInv, FirstPass, Counted, TypeOK, Places
<1>7. stores' # <<>> => dirty' = dirty
  BY StoreNextForm
<1>8. FirstPass'
  BY <1>1, <1>2, <1>6, <1>7 DEF FirstPass
<1> QED BY StoreNextForm, <1>3, <1>4, <1>5, <1>8 DEF IInv

-----------------------------------------------------------------------------
(* Core 1. *)

LEMMA PollInv == ASSUME IInv, Poll PROVE IInv'
<1> USE DEF IInv, Poll
<1>1. TypeOK' /\ Changing' /\ Counted'
  BY DEF TypeOK, Places, Changing, Counted, settings
<1>2. Target' = Target /\ (Current' <=> Current)
  BY DEF Target, Current, settings
<1>3. LastPass'
  BY <1>2 DEF LastPass, settings
<1>4. FirstPass'
  BY <1>2 DEF FirstPass, settings, TypeOK, Places
<1> QED BY <1>1, <1>3, <1>4

\* The buffer in core 1's hand, rewritten for what is current.
LEMMA FormatInv ==
  ASSUME IInv, core1 \in {"deadline", "screen", "setting"}, NEW level \in Lit, Format(level),
         UNCHANGED <<settings, dirty, stores, changes, hand, hurried>>,
         stores = <<>> /\ Current /\ (dirty = 1 \/ ~hurried) => level = Target
  PROVE  IInv'
<1> USE DEF IInv, Format, settings
<1>1. /\ \A b \in Buffer : window'[b] = IF b = hand THEN level ELSE window[b]
      /\ hand \in Buffer /\ 1 - hand \in Buffer /\ 1 - hand # hand
  BY DEF TypeOK, Places, Buffer
<1>2. TypeOK'
  BY DEF TypeOK, Places
<1>3. Changing' /\ Counted'
  BY DEF Changing, Counted
<1>4. Target' = Target /\ (Current' <=> Current)
  BY DEF Target, Current
<1>5. dirty > 0
  BY DEF Counted
<1>6. LastPass'
  BY <1>1, <1>4, <1>5 DEF LastPass, TypeOK, Places
<1>7. FirstPass'
  BY <1>1, <1>4, <1>5 DEF FirstPass, TypeOK, Places
<1> QED BY <1>2, <1>3, <1>6, <1>7

\* A load that leads on to another load.
LEMMA LookedInv ==
  ASSUME IInv, core1 \in {"raw", "deadline"}, NEW place \in {"deadline", "expire", "screen"},
         core1' = place,
         UNCHANGED <<settings, dirty, stores, changes, hand, window, written, hurried>>,
         place = "deadline" => override = RawLevel,
         place = "screen" => override = None,
         place = "expire" => (stores = <<>> /\ ~hurried => ~Current)
  PROVE  IInv'
<1>1. TypeOK' /\ Changing' /\ Counted'
  BY DEF IInv, TypeOK, Places, Changing, Counted, settings
<1>2. Target' = Target /\ (Current' <=> Current)
  BY DEF Target, Current, settings
<1>3. LastPass'
  BY <1>2 DEF IInv, LastPass, settings
<1>4. FirstPass'
  BY <1>2 DEF IInv, FirstPass, settings
<1> QED BY <1>1, <1>3, <1>4 DEF IInv

LEMMA ReadOverrideInv == ASSUME IInv, ReadOverride PROVE IInv'
<1>1. /\ core1 = "raw" /\ core1' = IF override = None THEN "screen" ELSE "deadline"
      /\ UNCHANGED <<settings, dirty, stores, changes, hand, window, written, hurried>>
  BY DEF ReadOverride
<1>2. override \in {RawLevel, None}
  BY DEF IInv, TypeOK, Places
<1> QED BY <1>1, <1>2, LookedInv

LEMMA ReadDeadlineInv == ASSUME IInv, ReadDeadline PROVE IInv'
<1>1. /\ core1 = "deadline"
      /\ UNCHANGED <<settings, dirty, stores, changes, hand, hurried>>
  BY DEF ReadDeadline
<1>2. dirty > 0 /\ left \in Nat
  BY <1>1 DEF IInv, Counted, TypeOK, Places
<1>3. stores = <<>> /\ Current /\ (dirty = 1 \/ ~hurried) => override = RawLevel
  BY <1>1 DEF IInv, LastPass, FirstPass
<1>4. CASE left > 0
  <2>1. Format(RawLevel) /\ RawLevel \in Lit
    BY <1>4 DEF ReadDeadline, Lit
  <2>2. override = RawLevel => RawLevel = Target
    BY NoneIsNoLevel DEF Target
  <2> QED BY <1>1, <1>3, <2>1, <2>2, FormatInv
<1>5. CASE ~(left > 0)
  <2>1. core1' = "expire" /\ UNCHANGED <<window, written>>
    BY <1>5 DEF ReadDeadline
  <2>2. Current => override = None
    BY <1>5 DEF Current
  <2>3. stores = <<>> /\ ~hurried => ~Current
    BY <1>3, <2>2, NoneIsNoLevel
  <2> QED BY <1>1, <2>1, <2>3, LookedInv
<1> QED BY <1>4, <1>5

LEMMA ExpireInv == ASSUME IInv, Expire PROVE IInv'
<1>1. /\ core1 = "expire" /\ core1' = "announce" /\ override' = None
      /\ UNCHANGED <<brightness, left, screen, dirty, stores, changes, hand, window, written, hurried>>
  BY DEF Expire
<1>2. TypeOK' /\ Changing' /\ Counted' /\ dirty > 0
  BY <1>1 DEF IInv, TypeOK, Places, Changing, Counted
<1>3. LastPass'
  BY <1>1, <1>2 DEF LastPass
<1>4. FirstPass'
  BY <1>1, <1>2 DEF IInv, FirstPass
<1> QED BY <1>2, <1>3, <1>4 DEF IInv

LEMMA AnnounceInv == ASSUME IInv, Announce PROVE IInv'
<1>1. /\ core1 = "announce" /\ core1' = "screen" /\ dirty' = 2 /\ dirty > 0
      /\ UNCHANGED <<settings, stores, changes, hand, window, written, hurried>>
  BY DEF Announce, IInv, Counted
<1>2. TypeOK' /\ Changing' /\ Counted'
  BY <1>1 DEF IInv, TypeOK, Places, Changing, Counted, settings
<1>3. Current' <=> Current
  BY <1>1 DEF Current, settings
<1>4. LastPass'
  BY <1>1 DEF LastPass
<1>5. FirstPass'
  BY <1>1, <1>3 DEF IInv, FirstPass, settings
<1> QED BY <1>2, <1>4, <1>5 DEF IInv

LEMMA ReadScreenInv == ASSUME IInv, ReadScreen PROVE IInv'
<1>1. /\ core1 = "screen" /\ dirty > 0
      /\ UNCHANGED <<settings, dirty, stores, changes, hand, hurried>>
  BY DEF ReadScreen, IInv, Counted
<1>2. stores = <<>> /\ Current /\ (dirty = 1 \/ ~hurried) => override = None
  BY <1>1 DEF IInv, LastPass, FirstPass
<1>3. CASE screen # None
  <2>1. Format(screen) /\ screen \in Lit
    BY <1>3 DEF ReadScreen, IInv, TypeOK, Places, Lit
  <2>2. override = None => screen = Target
    BY <1>3 DEF Target
  <2> QED BY <1>1, <1>2, <2>1, <2>2, FormatInv
<1>4. CASE screen = None
  <2>1. core1' = "setting" /\ UNCHANGED <<window, written>>
    BY <1>4 DEF ReadScreen
  <2>2. TypeOK' /\ Changing' /\ Counted'
    BY <1>1, <2>1 DEF IInv, TypeOK, Places, Changing, Counted, settings
  <2>3. Target' = Target /\ (Current' <=> Current)
    BY <1>1 DEF Target, Current, settings
  <2>4. LastPass'
    BY <1>1, <1>4, <2>1, <2>3 DEF IInv, LastPass, settings
  <2>5. FirstPass'
    BY <1>1, <1>4, <2>1, <2>3 DEF IInv, FirstPass, settings
  <2> QED BY <2>2, <2>4, <2>5 DEF IInv
<1> QED BY <1>3, <1>4

LEMMA ReadSettingInv == ASSUME IInv, ReadSetting PROVE IInv'
<1>1. /\ core1 = "setting" /\ Format(brightness)
      /\ UNCHANGED <<settings, dirty, stores, changes, hand, hurried>>
  BY DEF ReadSetting
<1>2. stores = <<>> /\ Current /\ (dirty = 1 \/ ~hurried) => override = None /\ screen = None
  BY <1>1 DEF IInv, LastPass, FirstPass
<1>3. override = None /\ screen = None => brightness = Target
  BY DEF Target
<1>4. brightness \in Lit
  BY DEF IInv, TypeOK, Places, Lit
<1> QED BY <1>1, <1>2, <1>3, <1>4, FormatInv

LEMMA CountInv == ASSUME IInv, Count PROVE IInv'
<1>1. /\ core1 = "count" /\ core1' = "swap"
      /\ UNCHANGED <<settings, stores, changes, hand, window, written, hurried>>
  BY DEF Count
<1>2. dirty \in 1..2 /\ dirty' = dirty - 1
  BY <1>1 DEF Count, IInv, Counted, TypeOK, Places
<1>3. TypeOK' /\ Changing' /\ Counted'
  BY <1>1, <1>2 DEF IInv, TypeOK, Places, Changing, Counted, settings
<1>4. Target' = Target /\ (Current' <=> Current)
  BY <1>1 DEF Target, Current, settings
<1>5. LastPass'
  BY <1>1, <1>2, <1>4 DEF IInv, LastPass
<1>6. \A b \in Buffer : b = hand \/ b = 1 - hand
  BY DEF IInv, TypeOK, Places, Buffer
<1>7. FirstPass'
  BY <1>1, <1>2, <1>4, <1>6 DEF IInv, FirstPass
<1> QED BY <1>3, <1>5, <1>7 DEF IInv

LEMMA SwapInv == ASSUME IInv, Swap PROVE IInv'
<1>1. /\ core1 = "swap" /\ core1' = "poll" /\ hand' = 1 - hand
      /\ UNCHANGED <<settings, dirty, stores, changes, window, written, hurried>>
  BY DEF Swap
<1>2. hand \in Buffer /\ hand' \in Buffer /\ 1 - hand' = hand
  BY <1>1 DEF IInv, TypeOK, Places, Buffer
<1>3. TypeOK' /\ Changing' /\ Counted'
  BY <1>1, <1>2 DEF IInv, TypeOK, Places, Changing, Counted, settings
<1>4. Target' = Target /\ (Current' <=> Current)
  BY <1>1 DEF Target, Current, settings
<1>5. LastPass'
  BY <1>1, <1>4 DEF IInv, LastPass
<1>6. FirstPass'
  BY <1>1, <1>2, <1>4 DEF IInv, FirstPass
<1> QED BY <1>3, <1>5, <1>6 DEF IInv

\* Time only ever takes an override out of what must be followed.
LEMMA TickInv == ASSUME IInv, Tick PROVE IInv'
<1>1. /\ left > 0 /\ left' = left - 1
      /\ UNCHANGED <<brightness, override, screen, dirty, stores, changes,
                     core1, hand, window, written, hurried>>
  BY DEF Tick
<1>2. TypeOK' /\ Changing' /\ Counted'
  BY <1>1, LevelAssumption DEF IInv, TypeOK, Places, Changing, Counted
<1>3. Target' = Target /\ (Current' => Current)
  BY <1>1 DEF Target, Current, IInv, TypeOK, Places
<1>4. LastPass' /\ FirstPass'
  BY <1>1, <1>3 DEF IInv, LastPass, FirstPass
<1> QED BY <1>2, <1>4 DEF IInv

LEMMA StutterInv == IInv /\ UNCHANGED vars => IInv'
<1> SUFFICES ASSUME IInv, UNCHANGED vars PROVE IInv'
  OBVIOUS
<1>1. TypeOK' /\ Changing' /\ Counted'
  BY DEF IInv, TypeOK, Places, Changing, Counted, vars, settings
<1>2. Target' = Target /\ (Current' <=> Current)
  BY DEF Target, Current, vars, settings
<1>3. LastPass' /\ FirstPass'
  BY <1>2 DEF IInv, LastPass, FirstPass, vars, settings
<1> QED BY <1>1, <1>3 DEF IInv

LEMMA StepInv == IInv /\ [Next]_vars => IInv'
BY SetBrightnessInv, BenchOverrideInv, ScreenEdgeInv, StoreNextInv, PollInv, ReadOverrideInv,
   ReadDeadlineInv, ExpireInv, AnnounceInv, ReadScreenInv, ReadSettingInv, CountInv, SwapInv, TickInv, StutterInv
   DEF Next, Core0, Core1

-----------------------------------------------------------------------------
(* The theorems. *)

\* Every variable keeps its type; above all the count of rewrites, on eight
\* bits and stored by both cores, is never taken below zero.
THEOREM TypeCorrect == Spec => []TypeOK
<1>1. IInv => TypeOK
  BY DEF IInv
<1> QED BY <1>1, InitInv, StepInv, PTL DEF Spec

\* Hurried or not, once the rewriting has ended the buffer written last shows
\* what was asked for last.
THEOREM LastAlwaysFollows == Spec => []LastWrittenFollows
<1>1. IInv => LastWrittenFollows
  BY DEF IInv, LastPass, LastWrittenFollows, Settled, Current
<1> QED BY <1>1, InitInv, StepInv, PTL DEF Spec

\* Changes that each wait for the one before reach both buffers, wherever core
\* 1 is when they are made.
THEOREM BothAlwaysFollow == Spec => []BothFollowUnhurried
<1>1. IInv => BothFollowUnhurried
  BY DEF IInv, FirstPass, BothFollowUnhurried, Settled, Current
<1> QED BY <1>1, InitInv, StepInv, PTL DEF Spec
=============================================================================
