----------------------------- MODULE OtaProofs -----------------------------
(***************************************************************************)
(* Theorems about the firmware update of module Ota, for every number of   *)
(* uploads, power cuts and flash faults and every choice of milestones.    *)
(***************************************************************************)
EXTENDS Ota, TLAPS

(***************************************************************************)
(* The operators on otadata are well typed.                                *)
(***************************************************************************)

\* Sequence arithmetic stays inside the two slots.
LEMMA SlotOfSeqType == ASSUME NEW n \in Nat PROVE SlotOfSeq(n) \in Slot
BY DEF SlotOfSeq, Slot

LEMMA CurrentType ==
  ASSUME NEW e \in OtaData
  PROVE  CurrentEntry(e) \in Slot /\ CurrentApp(e) \in Slot \cup {NoSlot}
<1>1. CurrentEntry(e) \in Slot
  BY DEF CurrentEntry, Slot
<1>2. e[CurrentEntry(e)].seq \in Nat
  BY <1>1 DEF OtaData, Entry
<1> QED BY <1>1, <1>2, SlotOfSeqType DEF CurrentApp

LEMMA DamageType == Damage \subseteq Entry
BY DEF Damage, Erased, Torn, Entry, UNINITIALIZED, FwState

LEMMA LiveType ==
  ASSUME NEW n \in Nat, NEW st \in FwState PROVE Live(n, st) \in Entry
BY DEF Live, Entry

LEMMA SetStateType ==
  ASSUME NEW e \in OtaData, NEW st \in FwState PROVE SetState(e, st) \in OtaData
<1>1. CurrentEntry(e) \in Slot /\ e[CurrentEntry(e)].seq \in Nat
  BY CurrentType DEF OtaData, Entry
<1>2. Live(e[CurrentEntry(e)].seq, st) \in Entry
  BY <1>1, LiveType
<1> QED BY <1>1, <1>2 DEF SetState, OtaData

LEMMA SelectAppType ==
  ASSUME NEW e \in OtaData, NEW app \in Int PROVE SelectApp(e, app) \in OtaData
<1>1. CurrentEntry(e) \in Slot /\ CurrentApp(e) \in Slot \cup {NoSlot}
  BY CurrentType
<1>2. SelectTarget(e) \in Slot
  BY <1>1 DEF SelectTarget, Other, Slot
<1>3. SeqStep(e, app) \in Nat
  BY <1>1 DEF SeqStep, Slot, NoSlot
<1>4. e[CurrentEntry(e)].seq + SeqStep(e, app) \in Nat /\ e[SelectTarget(e)].state \in FwState
  BY <1>1, <1>2, <1>3 DEF OtaData, Entry
<1>5. Live(e[CurrentEntry(e)].seq + SeqStep(e, app), e[SelectTarget(e)].state) \in Entry
  BY <1>4, LiveType
<1> QED BY <1>2, <1>5 DEF SelectApp, Selected, OtaData

LEMMA AbortPendingType ==
  ASSUME NEW e \in OtaData PROVE AbortPending(e) \in OtaData
<1>1. \A i \in Slot : e[i].seq \in Nat /\ e[i] \in Entry
  BY DEF OtaData, Entry
<1>2. \A i \in Slot : Live(e[i].seq, "Aborted") \in Entry
  BY <1>1, LiveType DEF FwState
<1> QED BY <1>1, <1>2 DEF AbortPending, OtaData

LEMMA BootType ==
  ASSUME NEW e \in OtaData, NEW s \in [Slot -> Image]
  PROVE  /\ BootSlot(e, s) \in Slot \cup {NoSlot}
         /\ BootData(e, s) \in OtaData
<1>1. BootSlot(e, s) \in Slot \cup {NoSlot}
  BY DEF BootSlot, FirstBootable, Other, Slot
<1>2. AbortPending(e) \in OtaData
  BY AbortPendingType
<1>3. HandOver(AbortPending(e)) \in OtaData
  <2> DEFINE a == AbortPending(e)
  <2>1. \A i \in Slot : a[i].seq \in Nat /\ a[i] \in Entry
    BY <1>2 DEF OtaData, Entry
  <2>2. \A i \in Slot : Live(a[i].seq, "PendingVerify") \in Entry
    BY <2>1, LiveType DEF FwState
  <2> QED BY <2>1, <2>2 DEF HandOver, OtaData
<1>4. Live(1, "Valid") \in Entry
  BY LiveType DEF FwState
<1> QED BY <1>1, <1>3, <1>4 DEF BootData, OtaData

LEMMA ClassType ==
  ASSUME NEW e \in OtaData, NEW r PROVE ClassOf(r, e) \in BootClass
<1>1. e[CurrentEntry(e)].state \in FwState
  BY CurrentType DEF OtaData, Entry
<1>2. \A st \in FwState : ReasonFor(st) \in BootClass
  BY DEF ReasonFor, BootClass, Reverted, FwState
<1>3. \A sel, st : st \in FwState => Classify(r, sel, st) \in BootClass
  BY <1>2 DEF Classify, BootClass, FwState
<1> QED BY <1>1, <1>3 DEF ClassOf

(***************************************************************************)
(* Type correctness.                                                       *)
(***************************************************************************)

LEMMA PowerOffType == ASSUME PowerOff PROVE
  /\ phase' \in {"off", "promoting", "running", "dead"} /\ running' \in Slot \cup {NoSlot}
  /\ boot' \in BootClass /\ uptime' \in 0..REVERT_AT
  /\ hasIp' \in BOOLEAN /\ served' \in BOOLEAN /\ swapped' \in BOOLEAN
  /\ trial' \in {"absent", "watching", "confirmed", "resetting"}
  /\ upload' \in {"none", "open", "staging"} /\ want' \in BOOLEAN /\ activating' \in BOOLEAN
  /\ activator' \in {"waiting", "signalled", "selected", "resetting", "done"}
<1>1. uptime' \in 0..REVERT_AT
  BY MilestoneAssumption DEF PowerOff
<1>2. /\ hasIp' \in BOOLEAN /\ served' \in BOOLEAN /\ swapped' \in BOOLEAN
      /\ want' \in BOOLEAN /\ activating' \in BOOLEAN
  BY Zenon DEF PowerOff
<1>3. /\ phase' \in {"off", "promoting", "running", "dead"} /\ running' \in Slot \cup {NoSlot}
      /\ boot' \in BootClass /\ upload' \in {"none", "open", "staging"}
      /\ trial' \in {"absent", "watching", "confirmed", "resetting"}
      /\ activator' \in {"waiting", "signalled", "selected", "resetting", "done"}
  BY DEF PowerOff, BootClass
<1> QED BY <1>1, <1>2, <1>3

LEMMA WriteCutType == ASSUME TypeOK, NEW i \in Slot, CutInWrite(i) PROVE TypeOK'
<1>1. entries' \in OtaData
  BY DamageType DEF CutInWrite, TypeOK, OtaData
<1>2. cuts' \in Nat /\ uploads' \in Nat /\ faults' \in Nat /\ flashOk' \in BOOLEAN
  BY DEF CutInWrite, Cut, TypeOK
<1> QED BY <1>1, <1>2, PowerOffType DEF CutInWrite, TypeOK

LEMMA ResetType == ASSUME TypeOK, SoftwareReset PROVE TypeOK'
BY PowerOffType DEF SoftwareReset, flashVars, envVars, TypeOK

LEMMA FailedWriteType ==
  ASSUME TypeOK, NEW i \in Slot, FailedWrite(i) PROVE entries' \in OtaData
BY DamageType DEF FailedWrite, TypeOK, OtaData

\* TypeOK in two halves, so that the flags are left to Zenon.
FlagsOK ==
  /\ hasIp \in BOOLEAN /\ served \in BOOLEAN /\ swapped \in BOOLEAN
  /\ want \in BOOLEAN /\ activating \in BOOLEAN
  /\ flashOk \in BOOLEAN /\ exposed \in BOOLEAN
RestOK ==
  /\ entries \in OtaData
  /\ slots \in [Slot -> Image]
  /\ phase \in {"off", "promoting", "running", "dead"}
  /\ running \in Slot \cup {NoSlot}
  /\ boot \in BootClass
  /\ uptime \in 0..REVERT_AT
  /\ trial \in {"absent", "watching", "confirmed", "resetting"}
  /\ upload \in {"none", "open", "staging"}
  /\ activator \in {"waiting", "signalled", "selected", "resetting", "done"}
  /\ uploads \in Nat /\ cuts \in Nat /\ faults \in Nat
  /\ vouched \in [Slot -> BOOLEAN]

\* Every step keeps every variable in its type.
LEMMA TypeStep == ASSUME TypeOK, [Next]_vars PROVE TypeOK'
<1> USE DEF flashVars, healthVars, bootVars, uploadVars, activateVars, envVars
<1>1. ASSUME PowerCut PROVE TypeOK'
  BY <1>1, PowerOffType DEF PowerCut, Cut, TypeOK
<1>2. ASSUME CutInBootloader PROVE TypeOK'
  BY <1>2, WriteCutType DEF CutInBootloader
<1>3. ASSUME CutInNoteBoot \/ CutInTrialWrite \/ CutInMark PROVE TypeOK'
  BY <1>3, WriteCutType, CurrentType DEF CutInNoteBoot, CutInTrialWrite, CutInMark, TypeOK
<1>4. ASSUME CutInSelect PROVE TypeOK'
  <2>1. SelectTarget(entries) \in Slot
    BY CurrentType DEF SelectTarget, Other, Slot, TypeOK
  <2> QED BY <1>4, <2>1, WriteCutType DEF CutInSelect
<1>5. ASSUME FlashFails \/ FlashRecovers PROVE TypeOK'
  <2>1. FlagsOK'
    BY <1>5, Zenon DEF FlashFails, FlashRecovers, TypeOK, FlagsOK
  <2>2. RestOK'
    BY <1>5 DEF FlashFails, FlashRecovers, TypeOK, RestOK
  <2> QED BY <2>1, <2>2 DEF TypeOK, FlagsOK, RestOK
<1>6. ASSUME Boot PROVE TypeOK'
  BY <1>6, BootType, ClassType DEF Boot, TypeOK
<1>7. ASSUME NoteBoot PROVE TypeOK'
  <2>1. entries' \in OtaData
    BY <1>7, SetStateType, FailedWriteType, CurrentType DEF NoteBoot, TypeOK, FwState
  <2> QED BY <1>7, <2>1 DEF NoteBoot, TypeOK, BootClass
<1>8. ASSUME CrashReset \/ TrialResets \/ ActivateResets PROVE TypeOK'
  BY <1>8, ResetType DEF CrashReset, TrialResets, ActivateResets
<1>9. ASSUME HealthNext PROVE TypeOK'
  <2>1. FlagsOK'
    BY <1>9, Zenon DEF HealthNext, Tick, LinkChanges, FirstRequest, FirstSwap, TypeOK, FlagsOK
  <2>2. RestOK'
    BY <1>9, MilestoneAssumption DEF HealthNext, Tick, LinkChanges, FirstRequest, FirstSwap, TypeOK, RestOK
  <2> QED BY <2>1, <2>2 DEF TypeOK, FlagsOK, RestOK
<1>10. ASSUME TrialConfirms \/ TrialReverts PROVE TypeOK'
  <2>1. entries' \in OtaData
    BY <1>10, SetStateType, FailedWriteType, CurrentType
       DEF TrialConfirms, TrialReverts, TypeOK, FwState
  <2>2. vouched' \in [Slot -> BOOLEAN]
    BY <1>10 DEF TrialConfirms, TrialReverts, TypeOK
  <2> QED BY <1>10, <2>1, <2>2 DEF TrialConfirms, TrialReverts, TypeOK
<1>11. ASSUME UploadNext PROVE TypeOK'
  <2>1. ASSUME NEW activate \in BOOLEAN, UploadStarts(activate) PROVE TypeOK'
    BY <2>1 DEF UploadStarts, TypeOK
  <2>2. ASSUME SectorStaged \/ SectorFails PROVE TypeOK'
    <3>1. FlagsOK'
      BY <2>2, Zenon DEF SectorStaged, SectorFails, TypeOK, FlagsOK
    <3>2. RestOK'
      BY <2>2 DEF SectorStaged, SectorFails, TypeOK, RestOK, Image, Image
    <3> QED BY <3>1, <3>2 DEF TypeOK, FlagsOK, RestOK
  <2>3. ASSUME UploadAccepted PROVE TypeOK'
    <3>1. slots' \in [Slot -> Image]
      BY <2>3, OfferedAssumption DEF UploadAccepted, TypeOK
    <3> QED BY <2>3, <3>1 DEF UploadAccepted, TypeOK
  <2>4. ASSUME UploadEnds PROVE TypeOK'
    <3>1. FlagsOK'
      BY <2>4, Zenon DEF UploadEnds, TypeOK, FlagsOK
    <3>2. RestOK'
      BY <2>4 DEF UploadEnds, TypeOK, RestOK
    <3> QED BY <3>1, <3>2 DEF TypeOK, FlagsOK, RestOK
  <2> QED BY <1>11, <2>1, <2>2, <2>3, <2>4 DEF UploadNext
<1>12. ASSUME ActivateSelects PROVE TypeOK'
  <2>1. Inactive \in Int
    BY DEF Inactive, Other, Slot, NoSlot, TypeOK
  <2>2. SelectTarget(entries) \in Slot
    BY CurrentType DEF SelectTarget, Other, Slot, TypeOK
  <2>3. entries' \in OtaData
    BY <1>12, <2>1, <2>2, SelectAppType, FailedWriteType DEF ActivateSelects, TypeOK
  <2>4. FlagsOK'
    BY <1>12, Zenon DEF ActivateSelects, GivesUp, TypeOK, FlagsOK
  <2>5. RestOK'
    BY <1>12, <2>3 DEF ActivateSelects, GivesUp, TypeOK, RestOK
  <2> QED BY <2>4, <2>5 DEF TypeOK, FlagsOK, RestOK
<1>13. ASSUME ActivateMarks PROVE TypeOK'
  <2>1. entries' \in OtaData
    BY <1>13, SetStateType, FailedWriteType, CurrentType DEF ActivateMarks, TypeOK, FwState
  <2>2. FlagsOK'
    <3>1. exposed' \in BOOLEAN
      BY <1>13 DEF ActivateMarks, LeavesUnmarked, TypeOK
    <3> QED BY <1>13, <3>1, Zenon DEF ActivateMarks, GivesUp, TypeOK, FlagsOK
  <2>3. RestOK'
    BY <1>13, <2>1 DEF ActivateMarks, GivesUp, TypeOK, RestOK
  <2> QED BY <2>2, <2>3 DEF TypeOK, FlagsOK, RestOK
<1>14. ASSUME UNCHANGED vars PROVE TypeOK'
  BY <1>14 DEF vars, TypeOK
<1> QED
  BY <1>1, <1>2, <1>3, <1>4, <1>5, <1>6, <1>7, <1>8, <1>9, <1>10, <1>11, <1>12, <1>13, <1>14
     DEF Next, PowerNext, BootNext, TrialNext, ActivateNext

LEMMA TypeInit == Init => TypeOK
<1> SUFFICES ASSUME Init PROVE TypeOK
  OBVIOUS
<1>1. entries \in OtaData
  BY DamageType DEF Init, OtaData, Damage
<1>2. FlagsOK
  BY Zenon DEF Init, FlagsOK
<1>3. RestOK
  BY <1>1, MilestoneAssumption DEF Init, RestOK, Image, BootClass, Slot
<1> QED BY <1>2, <1>3 DEF TypeOK, FlagsOK, RestOK

\* Every variable of the update keeps its type, for every bound.
THEOREM TypeCorrect == Spec => []TypeOK
<1>1. TypeOK /\ [Next]_vars => TypeOK'
  BY TypeStep
<1> QED BY <1>1, TypeInit, PTL DEF Spec

(***************************************************************************)
(* otadata with a live entry k: where its two entries stand.               *)
(***************************************************************************)

LEMMA SlotFacts == 0 \in Slot /\ 1 \in Slot /\ (\A k \in Slot : k = 0 \/ k = 1)
                   /\ Other(0) = 1 /\ Other(1) = 0
BY DEF Slot, Other

\* A well-formed pair never ties, and entry i selects slot i.
LEMMA CurrentFacts ==
  ASSUME NEW e \in OtaData, WellFormed(e), NEW k \in Slot, e[k].kind = "Live"
  PROVE  /\ ~Unwritten(e)
         /\ e[Other(k)].seq > e[k].seq =>
              CurrentEntry(e) = Other(k) /\ CurrentApp(e) = Other(k) /\ e[Other(k)].kind = "Live"
         /\ ~(e[Other(k)].seq > e[k].seq) => CurrentEntry(e) = k /\ CurrentApp(e) = k
<1>1. e[0].seq \in Nat /\ e[1].seq \in Nat
  BY SlotFacts DEF OtaData, Entry
<1>2. \A i \in Slot : e[i].kind # "Live" => e[i].seq = 0
  BY DEF WellFormed, Damage, Erased, Torn, UNINITIALIZED
<1>3. \A i \in Slot : e[i].kind = "Live" => e[i].seq > 0 /\ SlotOfSeq(e[i].seq) = i
  BY DEF WellFormed
<1>4. e[0].seq = e[1].seq => e[0].seq = 0
  BY <1>1, <1>2, <1>3, SlotFacts DEF SlotOfSeq
<1>5. ~Unwritten(e)
  BY <1>3, <1>1, SlotFacts DEF Unwritten, UNINITIALIZED
<1>6. e[Other(k)].seq > e[k].seq => CurrentEntry(e) = Other(k) /\ e[Other(k)].kind = "Live"
  BY <1>1, <1>2, <1>3, <1>5, SlotFacts DEF CurrentEntry
<1>7. ~(e[Other(k)].seq > e[k].seq) => CurrentEntry(e) = k
  BY <1>1, <1>3, <1>4, <1>5, SlotFacts DEF CurrentEntry
<1>8. Other(k) \in Slot
  BY SlotFacts
<1> QED BY <1>3, <1>5, <1>6, <1>7, <1>8 DEF CurrentApp

\* One more than a sequence selects the other slot.
LEMMA NextSeq ==
  ASSUME NEW n \in Nat, n > 0 PROVE SlotOfSeq(n + 1) = Other(SlotOfSeq(n))
BY DEF SlotOfSeq, Other

\* Writing into one entry keeps the pair well formed.
LEMMA WellFormedWrite ==
  ASSUME NEW e \in OtaData, WellFormed(e), NEW i \in Slot, NEW en,
         \/ en \in Damage
         \/ \E n \in Nat, st \in FwState : n > 0 /\ SlotOfSeq(n) = i /\ en = Live(n, st)
  PROVE  WellFormed([e EXCEPT ![i] = en])
<1> DEFINE d == [e EXCEPT ![i] = en]
<1>1. d[i] = en /\ \A j \in Slot : j # i => d[j] = e[j]
  BY DEF OtaData
<1>2. IF en.kind = "Live" THEN en.seq > 0 /\ SlotOfSeq(en.seq) = i ELSE en \in Damage
  <2>1. CASE en \in Damage
    BY <2>1 DEF Damage, Erased, Torn
  <2>2. CASE \E n \in Nat, st \in FwState : n > 0 /\ SlotOfSeq(n) = i /\ en = Live(n, st)
    BY <2>2 DEF Live
  <2> QED BY <2>1, <2>2
<1>3. \A j \in Slot : IF d[j].kind = "Live" THEN d[j].seq > 0 /\ SlotOfSeq(d[j].seq) = j
                      ELSE d[j] \in Damage
  BY <1>1, <1>2 DEF WellFormed
<1> QED BY <1>3 DEF WellFormed

\* What a state written into the current entry leaves.
LEMMA SetStateFacts ==
  ASSUME NEW e \in OtaData, WellFormed(e), NEW k \in Slot, e[k].kind = "Live",
         e[Other(k)].seq > e[k].seq, NEW st \in FwState
  PROVE  LET d == SetState(e, st)
         IN  /\ WellFormed(d) /\ d[k] = e[k]
             /\ d[Other(k)].seq = e[Other(k)].seq /\ d[Other(k)].state = st
             /\ d[Other(k)].kind = "Live"
<1> DEFINE o == Other(k)
           d == SetState(e, st)
<1>1. CurrentEntry(e) = o /\ e[o].kind = "Live" /\ o \in Slot /\ o # k
  BY CurrentFacts, SlotFacts
<1>2. d = [e EXCEPT ![o] = Live(e[o].seq, st)]
  BY <1>1 DEF SetState
<1>3. e[o].seq \in Nat /\ e[o].seq > 0 /\ SlotOfSeq(e[o].seq) = o
  BY <1>1 DEF WellFormed, OtaData, Entry
<1>4. WellFormed(d)
  <2>1. \E n \in Nat, x \in FwState :
           n > 0 /\ SlotOfSeq(n) = o /\ Live(e[o].seq, st) = Live(n, x)
    BY <1>3
  <2> QED BY ONLY <1>1, <1>2, <2>1, e \in OtaData, WellFormed(e), WellFormedWrite
<1>5. d[k] = e[k] /\ d[o] = Live(e[o].seq, st)
  BY <1>1, <1>2 DEF OtaData
<1> QED BY <1>4, <1>5 DEF Live

\* What selecting the slot beside a live entry k leaves.
LEMMA SelectFacts ==
  ASSUME NEW e \in OtaData, WellFormed(e), NEW k \in Slot, e[k].kind = "Live"
  PROVE  LET d == SelectApp(e, Other(k))
         IN  /\ WellFormed(d) /\ d[k] = e[k]
             /\ d[Other(k)].seq > e[k].seq
             /\ SelectWrites(e, Other(k)) => SelectTarget(e) = Other(k)
<1> DEFINE o == Other(k)
           d == SelectApp(e, o)
<1>1. o \in Slot /\ o # k /\ Other(o) = k
  BY SlotFacts
<1>2. CASE e[o].seq > e[k].seq
  <2>1. d = e /\ ~SelectWrites(e, o)
    BY <1>2, CurrentFacts DEF SelectApp, SelectWrites
  <2> QED BY <1>2, <2>1
<1>3. CASE ~(e[o].seq > e[k].seq)
  <2>1. CurrentEntry(e) = k /\ CurrentApp(e) = k /\ ~Unwritten(e)
    BY <1>3, CurrentFacts
  <2>2. SelectWrites(e, o) /\ SelectTarget(e) = o
    BY <2>1, <1>1 DEF SelectWrites, SelectTarget
  <2>3. SeqStep(e, o) = 1
    BY <2>1, SlotFacts DEF SeqStep
  <2>4. d = [e EXCEPT ![o] = Live(e[k].seq + 1, e[o].state)]
    BY <2>1, <2>2, <2>3 DEF SelectApp, Selected
  <2>5. e[k].seq \in Nat /\ e[k].seq > 0 /\ SlotOfSeq(e[k].seq) = k /\ e[o].state \in FwState
    BY <1>1 DEF WellFormed, OtaData, Entry
  <2>6. e[k].seq + 1 \in Nat /\ e[k].seq + 1 > 0 /\ SlotOfSeq(e[k].seq + 1) = o
    BY <2>5, NextSeq
  <2>7. WellFormed(d)
    <3>1. \E n \in Nat, x \in FwState :
             n > 0 /\ SlotOfSeq(n) = o /\ Live(e[k].seq + 1, e[o].state) = Live(n, x)
      BY <2>5, <2>6
    <3> QED BY ONLY <1>1, <2>4, <3>1, e \in OtaData, WellFormed(e), WellFormedWrite
  <2>8. d[k] = e[k] /\ d[o] = Live(e[k].seq + 1, e[o].state)
    BY <1>1, <2>4 DEF OtaData
  <2> QED BY <2>2, <2>5, <2>7, <2>8 DEF Live
<1> QED BY <1>2, <1>3

(***************************************************************************)
(* The bootloader, on an otadata whose entry k is live and VALID.          *)
(***************************************************************************)

\* Whatever else the flash holds, as long as one slot holds an image that
\* verifies, something is run.
LEMMA SomethingBoots ==
  ASSUME NEW e, NEW s, NEW j \in Slot, Bootable(s[j])
  PROVE  BootSlot(e, s) \in Slot /\ Bootable(s[BootSlot(e, s)])
BY SlotFacts DEF BootSlot, FirstBootable

\* After AbortPending the entry beside k is what it was or ABORTED, and the
\* bootloader's choice is between a k that is good and an o that is newer.
LEMMA AbortFacts ==
  ASSUME NEW e \in OtaData, WellFormed(e), NEW k \in Slot,
         e[k].kind = "Live", e[k].state = "Valid"
  PROVE  LET a == AbortPending(e)
             o == Other(k)
         IN  /\ a \in OtaData /\ WellFormed(a) /\ a[k] = e[k] /\ a[o].seq = e[o].seq
             /\ a[o].state = IF e[o].state = "PendingVerify" THEN "Aborted" ELSE e[o].state
             /\ SelectedSlot(a) = ActiveEntry(a)
             /\ ActiveEntry(a) = IF IsValid(a[o]) /\ a[o].seq > a[k].seq THEN o ELSE k
             /\ IsValid(a[k])
<1> DEFINE a == AbortPending(e)
           o == Other(k)
<1>1. a \in OtaData /\ o \in Slot /\ Other(o) = k /\ o # k
  BY AbortPendingType, SlotFacts
<1>2. \A i \in Slot : e[i].kind # "Live" => e[i].state = "Undefined"
  BY DEF WellFormed, Damage, Erased, Torn
<1>3. \A i \in Slot : /\ a[i].kind = e[i].kind /\ a[i].seq = e[i].seq
                      /\ a[i].state = IF e[i].state = "PendingVerify" THEN "Aborted" ELSE e[i].state
                      /\ e[i].state # "PendingVerify" => a[i] = e[i]
  BY <1>2 DEF AbortPending, Live
<1>4. WellFormed(a)
  BY <1>2, <1>3 DEF WellFormed
<1>5. a[k] = e[k] /\ IsValid(a[k]) /\ ~IsInvalid(a[k])
  BY <1>3 DEF IsValid, IsInvalid
<1>6. a[0].seq \in Nat /\ a[1].seq \in Nat
  BY <1>1, SlotFacts DEF OtaData, Entry
<1>7. ~(a[o].seq = a[k].seq)
  <2>1. CASE a[o].kind = "Live"
    BY <2>1, <1>1, <1>3, <1>4 DEF WellFormed
  <2>2. CASE a[o].kind # "Live"
    BY <2>2, <1>1, <1>3, <1>4, <1>6, SlotFacts DEF WellFormed, Damage, Erased, Torn, UNINITIALIZED
  <2> QED BY <2>1, <2>2
<1>8. ActiveEntry(a) = IF IsValid(a[o]) /\ a[o].seq > a[k].seq THEN o ELSE k
  BY <1>5, <1>6, <1>7, SlotFacts DEF ActiveEntry
<1>9. SlotOfSeq(a[ActiveEntry(a)].seq) = ActiveEntry(a)
  <2>1. a[o].kind # "Live" => ~(a[o].seq > a[k].seq)
    BY <1>1, <1>4, <1>6, SlotFacts DEF WellFormed, Damage, Erased, Torn, UNINITIALIZED
  <2> QED BY <1>1, <1>3, <1>4, <1>8, <2>1 DEF WellFormed
<1>10. SelectedSlot(a) = ActiveEntry(a)
  BY <1>5, <1>9 DEF SelectedSlot
<1> QED BY <1>1, <1>3, <1>4, <1>5, <1>8, <1>10

\* A device running another slot than the one selected is on no trial.
LEMMA NoTrialElsewhere ==
  ASSUME NEW booted, NEW sel, NEW st, booted # sel PROVE ~OnTrial(Classify(booted, sel, st))
BY DEF Classify, ReasonFor, OnTrial

\* What a boot does: the entry of the good image is untouched; either that
\* image runs, not on trial and with nothing VALID above it, or the newer one
\* runs, on trial.  A newer entry that is spent is not tried again.
LEMMA BootFacts ==
  ASSUME NEW e \in OtaData, WellFormed(e), NEW k \in Slot,
         e[k].kind = "Live", e[k].state = "Valid",
         e[Other(k)].seq > e[k].seq => e[Other(k)].state # "Valid",
         NEW s \in [Slot -> Image], Bootable(s[k])
  PROVE  LET r == BootSlot(e, s)
             d == BootData(e, s)
             c == ClassOf(r, d)
             o == Other(k)
         IN  /\ d[k] = e[k] /\ WellFormed(d)
             /\ e[o].state \in {"PendingVerify", "Invalid", "Aborted"} => r = k
             /\ \/ r = k /\ ~OnTrial(c) /\ (d[o].seq > d[k].seq => d[o].state # "Valid")
                \/ /\ r = o /\ Bootable(s[o]) /\ d[o].seq > d[k].seq
                   /\ \/ c = "Trial" /\ d[o].state = "PendingVerify"
                      \/ c = "Unproven" /\ d[o].state = "Undefined"
<1> DEFINE a == AbortPending(e)
           o == Other(k)
           r == BootSlot(e, s)
           d == BootData(e, s)
           c == ClassOf(r, d)
<1>1. o \in Slot /\ o # k /\ Other(o) = k /\ (\A i \in Slot : i = k \/ i = o)
  BY SlotFacts
<1>2. /\ a \in OtaData /\ WellFormed(a) /\ a[k] = e[k] /\ a[o].seq = e[o].seq
      /\ a[o].state = IF e[o].state = "PendingVerify" THEN "Aborted" ELSE e[o].state
      /\ SelectedSlot(a) = ActiveEntry(a)
      /\ ActiveEntry(a) = IF IsValid(a[o]) /\ a[o].seq > a[k].seq THEN o ELSE k
      /\ IsValid(a[k])
  BY AbortFacts
<1>3. d = HandOver(a)
  BY <1>1 DEF BootData, IsInitial
<1>4. d[k] = a[k]
  BY <1>2, <1>3 DEF HandOver
<1>5. r = IF ActiveEntry(a) = o /\ Bootable(s[o]) THEN o ELSE k
  BY <1>1, <1>2, SlotFacts DEF BootSlot, FirstBootable
<1>6. a[o].state \in FwState /\ a[o].seq \in Nat /\ a[k].seq \in Nat
  BY <1>1, <1>2 DEF OtaData, Entry
<1>7. a[o].seq > a[k].seq => a[o].state # "Valid" /\ a[o].state # "PendingVerify"
  BY <1>2
<1>8. CASE ActiveEntry(a) = k
  <2>1. d[o] = a[o]
    BY <1>1, <1>3, <1>8 DEF HandOver
  <2>2. \A i \in Slot : d[i] = a[i]
    BY <1>1, <1>4, <2>1
  <2>3. WellFormed(d)
    BY <1>2, <2>2 DEF WellFormed
  <2>4. d \in OtaData /\ d[k].kind = "Live"
    BY <1>1, <1>2, <1>3, <1>4, <2>2 DEF HandOver, OtaData
  <2>5. r = k
    BY <1>1, <1>5, <1>8
  <2>6. ~OnTrial(c)
    <3>1. CASE d[o].seq > d[k].seq
      <4>1. CurrentApp(d) = o /\ CurrentEntry(d) = o
        BY <2>3, <2>4, <3>1, CurrentFacts
      <4>2. r # IF Readable(d) THEN CurrentApp(d) ELSE NoSlot
        BY <1>1, <2>5, <4>1, SlotFacts DEF NoSlot
      <4> QED BY <4>2, NoTrialElsewhere DEF ClassOf
    <3>2. CASE ~(d[o].seq > d[k].seq)
      <4>1. CurrentApp(d) = k /\ CurrentEntry(d) = k /\ d[k].state = "Valid"
        BY <1>2, <1>4, <2>3, <2>4, <3>2, CurrentFacts
      <4> QED BY <1>1, <2>5, <4>1, SlotFacts DEF ClassOf, Classify, OnTrial
    <3> QED BY <3>1, <3>2
  <2> QED BY <1>2, <1>4, <1>7, <2>1, <2>3, <2>5, <2>6
<1>9. CASE ActiveEntry(a) = o
  <2>1. IsValid(a[o]) /\ a[o].seq > a[k].seq
    BY <1>1, <1>2, <1>9
  <2>2. a[o].kind = "Live" /\ a[o].state \in {"New", "Undefined"}
    BY <1>1, <1>2, <1>6, <1>7, <2>1 DEF IsValid, IsInvalid, Entry, OtaData, FwState
  <2>3. d[o] = IF a[o].state = "New" THEN Live(a[o].seq, "PendingVerify") ELSE a[o]
    BY <1>1, <1>2, <1>3, <1>9, <2>1 DEF HandOver
  <2>4. /\ d[o].kind = "Live" /\ d[o].seq = a[o].seq
        /\ d[o].state = IF a[o].state = "New" THEN "PendingVerify" ELSE "Undefined"
    BY <2>2, <2>3 DEF Live
  <2>5. WellFormed(d)
    BY <1>1, <1>2, <1>4, <2>2, <2>4 DEF WellFormed
  <2>6. d \in OtaData
    <3>1. Live(a[o].seq, "PendingVerify") \in Entry /\ a[o] \in Entry /\ a[k] \in Entry
      BY <1>1, <1>2, <1>6, LiveType DEF OtaData, FwState
    <3>2. d[o] \in Entry /\ d[k] \in Entry
      BY <1>4, <2>3, <3>1
    <3> QED BY <1>1, <1>3, <3>2 DEF HandOver, OtaData
  <2>7. CurrentApp(d) = o /\ CurrentEntry(d) = o /\ d[k].kind = "Live"
    BY <1>2, <1>4, <2>1, <2>4, <2>5, <2>6, CurrentFacts
  <2>8. Readable(d)
    BY <1>1, <2>4, <2>7 DEF Readable
  <2>9. CASE Bootable(s[o])
    <3>1. r = o
      BY <1>5, <1>9, <2>9
    <3>2. c = IF d[o].state = "PendingVerify" THEN "Trial" ELSE "Unproven"
      BY <1>1, <2>4, <2>7, <2>8, <3>1, SlotFacts DEF ClassOf, Classify, NoSlot
    <3> QED BY <1>2, <1>4, <2>1, <2>2, <2>4, <2>5, <2>9, <3>1, <3>2
  <2>10. CASE ~Bootable(s[o])
    <3>1. r = k
      BY <1>5, <2>10
    <3>2. ~OnTrial(c)
      BY <1>1, <2>7, <2>8, <3>1, NoTrialElsewhere DEF ClassOf
    <3> QED BY <1>2, <1>4, <2>4, <2>5, <3>1, <3>2
  <2> QED BY <2>9, <2>10
<1> QED BY <1>2, <1>8, <1>9

(***************************************************************************)
(* The memory of one boot.                                                 *)
(***************************************************************************)

LEMMA PowerOffMemory ==
  ASSUME BootMemory, PowerOff, UNCHANGED slots PROVE BootMemory'
BY DEF BootMemory, PowerOff

\* An action that leaves all this alone disturbs nothing.
memoryVars == <<phase, running, boot, slots, trial, upload, activating, activator>>

LEMMA MemoryUnchanged == ASSUME BootMemory, UNCHANGED memoryVars PROVE BootMemory'
BY DEF memoryVars, BootMemory, Inactive

\* Every step keeps the pieces of a boot's memory consistent with one another.
LEMMA MemoryStep == ASSUME TypeOK, BootMemory, [Next]_vars PROVE BootMemory'
<1> USE DEF flashVars, healthVars, bootVars, uploadVars, activateVars, envVars
<1>1. ASSUME \/ PowerCut \/ CutInBootloader \/ CutInNoteBoot \/ CutInTrialWrite \/ CutInSelect \/ CutInMark
             \/ CrashReset \/ TrialResets \/ ActivateResets
      PROVE BootMemory'
  BY <1>1, PowerOffMemory
     DEF PowerCut, CutInBootloader, CutInNoteBoot, CutInTrialWrite, CutInSelect, CutInMark,
         CutInWrite, CrashReset, TrialResets, ActivateResets, SoftwareReset
<1>2. ASSUME FlashFails \/ FlashRecovers \/ HealthNext PROVE BootMemory'
  BY <1>2, MemoryUnchanged
     DEF FlashFails, FlashRecovers, HealthNext, Tick, LinkChanges, FirstRequest, FirstSwap, memoryVars
<1>3. ASSUME Boot PROVE BootMemory'
  <2>1. PICK j \in Slot : Bootable(slots[j])
    BY DEF BootMemory
  <2>2. BootSlot(entries, slots) \in Slot /\ Bootable(slots[BootSlot(entries, slots)])
    BY <2>1, SomethingBoots
  <2>3. BootSlot(entries, slots) # NoSlot
    BY <2>2 DEF Slot, NoSlot
  <2> QED BY <1>3, <2>1, <2>2, <2>3 DEF Boot, BootMemory, OnTrial, Inactive
<1>4. ASSUME NoteBoot PROVE BootMemory'
  BY <1>4 DEF NoteBoot, BootMemory, OnTrial, Inactive
<1>5. ASSUME TrialConfirms \/ TrialReverts PROVE BootMemory'
  BY <1>5 DEF TrialConfirms, TrialReverts, Deciding, ExecutorFree, BootMemory, Inactive
<1>6. ASSUME NEW activate \in BOOLEAN, UploadStarts(activate) PROVE BootMemory'
  BY <1>6 DEF UploadStarts, ExecutorFree, Refused, SlotIsSpokenFor, Confirmed, BootMemory, Inactive, TypeOK
<1>7. ASSUME SectorStaged \/ SectorFails \/ UploadAccepted PROVE BootMemory'
  <2>1. running \in Slot /\ Inactive \in Slot /\ Inactive # running /\ Bootable(slots[running])
    BY <1>7, SlotFacts DEF SectorStaged, SectorFails, UploadAccepted, ExecutorFree, BootMemory, Inactive
  <2>2. slots'[running] = slots[running]
    BY <1>7, <2>1 DEF SectorStaged, SectorFails, UploadAccepted, TypeOK
  <2>3. UploadAccepted => Bootable(slots'[Inactive])
    BY <2>1, OfferedAssumption DEF UploadAccepted, TypeOK
  <2>4. Inactive' = Inactive /\ phase' = "running" /\ running' = running /\ boot' = boot /\ trial' = trial
    BY <1>7 DEF SectorStaged, SectorFails, UploadAccepted, ExecutorFree, Inactive
  <2>5. trial \notin {"watching", "resetting"} /\ ~activating
    BY <1>7 DEF SectorStaged, SectorFails, UploadAccepted, BootMemory
  <2>6. CASE SectorStaged \/ SectorFails
    BY <2>1, <2>2, <2>4, <2>5, <2>6 DEF SectorStaged, SectorFails, ExecutorFree, BootMemory
  <2>7. CASE UploadAccepted
    BY <2>1, <2>2, <2>3, <2>4, <2>5, <2>7 DEF UploadAccepted, ExecutorFree, BootMemory
  <2> QED BY <1>7, <2>6, <2>7
<1>8. ASSUME UploadEnds PROVE BootMemory'
  BY <1>8 DEF UploadEnds, ExecutorFree, BootMemory, Inactive
<1>9. ASSUME ActivateSelects \/ ActivateMarks PROVE BootMemory'
  BY <1>9 DEF ActivateSelects, ActivateMarks, GivesUp, ExecutorFree, BootMemory, Inactive
<1>10. ASSUME UNCHANGED vars PROVE BootMemory'
  BY <1>10, MemoryUnchanged DEF vars, memoryVars
<1> QED
  BY <1>1, <1>2, <1>3, <1>4, <1>5, <1>6, <1>7, <1>8, <1>9, <1>10
     DEF Next, PowerNext, BootNext, TrialNext, UploadNext, ActivateNext

LEMMA MemoryInit == Init => BootMemory
<1> SUFFICES ASSUME Init PROVE BootMemory
  OBVIOUS
<1>1. Bootable(slots[0])
  BY SlotFacts DEF Init, Bootable
<1> QED BY <1>1, SlotFacts DEF Init, BootMemory

LEMMA MemoryCorrect == Spec => [](TypeOK /\ BootMemory)
<1>1. TypeOK /\ BootMemory /\ [Next]_vars => BootMemory'
  BY MemoryStep
<1> QED BY <1>1, MemoryInit, TypeCorrect, PTL DEF Spec

\* There is no instant at which losing power leaves a device that does not
\* boot, whatever the power and the flash do, damaging failures included.
THEOREM BootsAlways == Spec => []AlwaysBoots
<1>1. TypeOK /\ BootMemory => AlwaysBoots
  BY SomethingBoots DEF BootMemory, AlwaysBoots, Slot, NoSlot
<1> QED BY <1>1, MemoryCorrect, PTL

\* From an accepted upload to the reset no other upload is in progress and the
\* image that was accepted is the one in the slot.
THEOREM TargetIntact == Spec => []ActivationTargetIntact
<1>1. BootMemory => ActivationTargetIntact
  BY DEF BootMemory, ActivationTargetIntact
<1> QED BY <1>1, MemoryCorrect, PTL

(***************************************************************************)
(* The image the device can return to.                                     *)
(***************************************************************************)

\* A keeper and the memory of the boot, spelled out for one slot.
LEMMA KeeperFacts ==
  ASSUME TypeOK, BootMemory, WellFormed(entries), NEW k \in Slot, Keeper(k)
  PROVE  /\ Other(k) \in Slot /\ Other(k) # k /\ Other(Other(k)) = k
         /\ phase \in {"off", "promoting", "running"}
         /\ trial \in {"watching", "resetting"} =>
              /\ running = Other(k) /\ Inactive = k /\ Above(k) /\ Beside(k) # "Valid"
              /\ activator \notin {"signalled", "selected", "resetting"} /\ upload = "none"
         /\ phase = "running" /\ trial \notin {"watching", "resetting"} =>
              running = k /\ Inactive = Other(k)
         /\ activator # "selected" /\ Above(k) => Beside(k) # "Valid"
         /\ Above(k) => CurrentEntry(entries) = Other(k) /\ ~Unwritten(entries)
         /\ ~Above(k) => CurrentEntry(entries) = k
<1>1. Other(k) \in Slot /\ Other(k) # k /\ Other(Other(k)) = k
  BY SlotFacts
<1>2. /\ Above(k) => CurrentEntry(entries) = Other(k) /\ ~Unwritten(entries)
      /\ ~Above(k) => CurrentEntry(entries) = k
  BY CurrentFacts DEF TypeOK, Keeper, Above
<1> QED BY <1>1, <1>2 DEF Keeper, BootMemory, Inactive, TypeOK

\* Power lost inside a write beside the keeper.
LEMMA CutBeside ==
  ASSUME TypeOK, BootMemory, WellFormed(entries), NEW k \in Slot, Keeper(k), CutInWrite(Other(k))
  PROVE  WellFormed(entries') /\ Keeper(k)'
<1> DEFINE o == Other(k)
<1>1. o \in Slot /\ o # k
  BY SlotFacts
<1>2. PICK d \in Damage : entries' = [entries EXCEPT ![o] = d]
  BY DEF CutInWrite
<1>3. entries'[k] = entries[k] /\ entries'[o] = d
  BY <1>1, <1>2 DEF TypeOK, OtaData
<1>4. WellFormed(entries')
  BY ONLY <1>1, <1>2, TypeOK, WellFormed(entries), WellFormedWrite DEF TypeOK
<1>5. entries[k].seq > 0 /\ entries[k].seq \in Nat
  BY DEF Keeper, WellFormed, TypeOK, OtaData, Entry
<1>6. ~(entries'[o].seq > entries'[k].seq)
  BY <1>3, <1>5 DEF Damage, Erased, Torn, UNINITIALIZED
<1> QED BY <1>3, <1>4, <1>6 DEF Keeper, CutInWrite, PowerOff, Above

\* The power goes, or the firmware resets, with no write under way.
LEMMA OffKeeps ==
  ASSUME TypeOK, BootMemory, WellFormed(entries), NEW k \in Slot, Keeper(k),
         PowerOff, UNCHANGED flashVars, activator = "selected" => ~LeavesUnmarked
  PROVE  WellFormed(entries') /\ Keeper(k)'
<1>1. Above(k) => Beside(k) # "Valid"
  BY KeeperFacts DEF LeavesUnmarked, Beside
<1> QED BY <1>1 DEF Keeper, PowerOff, flashVars, Above, Beside

\* A trial's verdict, or the mark, written beside a keeper that has something above it.
LEMMA StateBeside ==
  ASSUME TypeOK, WellFormed(entries), NEW k \in Slot, Keeper(k), Above(k), NEW st \in FwState,
         entries' = SetState(entries, st)
  PROVE  /\ WellFormed(entries') /\ entries'[k] = entries[k]
         /\ Above(k)' /\ Beside(k)' = st /\ entries'[Other(k)].kind = "Live"
BY SetStateFacts DEF Keeper, Above, Beside, TypeOK

\* The one step that moves the firmware to the other slot.
Wins == TrialConfirms /\ trial' = "confirmed"

keeperVars == <<entries, slots, vouched, phase, running, trial, activator>>

LEMMA KeeperUnchanged ==
  ASSUME NEW k \in Slot, Keeper(k), UNCHANGED keeperVars PROVE Keeper(k)'
BY DEF keeperVars, Keeper, Above, Beside

\* Every step but a trial's confirmation keeps the keeper, when a failed write
\* leaves its entry alone and no activation stops over a VALID state.
LEMMA KeeperStep ==
  ASSUME FailureDamage = FALSE, TypeOK, BootMemory, WellFormed(entries),
         NEW k \in Slot, Keeper(k), [Next]_vars, ~Wins, ~exposed'
  PROVE  WellFormed(entries') /\ Keeper(k)'
<1> USE DEF flashVars, healthVars, bootVars, uploadVars, activateVars, envVars
<1> DEFINE o == Other(k)
<1>0. \A i : FailedWrite(i) => UNCHANGED entries
  BY DEF FailedWrite
<1>1. ASSUME PowerCut PROVE WellFormed(entries') /\ Keeper(k)'
  BY <1>1, OffKeeps DEF PowerCut
<1>2. ASSUME CutInBootloader PROVE WellFormed(entries') /\ Keeper(k)'
  <2>1. phase = "off" /\ BootData(entries, slots)[k] = entries[k]
    BY <1>2, BootFacts DEF CutInBootloader, Keeper, TypeOK, Above, Beside
  <2>2. CutInWrite(o)
    BY <1>2, <2>1, SlotFacts DEF CutInBootloader
  <2> QED BY <2>2, CutBeside
<1>3. ASSUME CutInNoteBoot \/ CutInTrialWrite \/ CutInMark \/ CutInSelect
      PROVE  WellFormed(entries') /\ Keeper(k)'
  <2>1. CutInNoteBoot \/ CutInTrialWrite \/ CutInMark => CutInWrite(CurrentEntry(entries)) /\ Above(k)
    BY <1>3, KeeperFacts DEF CutInNoteBoot, CutInTrialWrite, CutInMark, Deciding, BootMemory, Keeper
  <2>2. CutInSelect => CutInWrite(SelectTarget(entries)) /\ Inactive = o /\ SelectWrites(entries, o)
    BY KeeperFacts DEF CutInSelect, ExecutorFree
  <2>3. SelectWrites(entries, o) => SelectTarget(entries) = o
    BY SelectFacts DEF Keeper, TypeOK
  <2>4. CutInWrite(o)
    BY <1>3, <2>1, <2>2, <2>3, KeeperFacts
  <2> QED BY <2>4, CutBeside
<1>4. ASSUME FlashFails \/ FlashRecovers \/ HealthNext \/ UploadEnds \/ UNCHANGED vars
      PROVE  WellFormed(entries') /\ Keeper(k)'
  BY <1>4, KeeperUnchanged
     DEF FlashFails, FlashRecovers, HealthNext, Tick, LinkChanges, FirstRequest, FirstSwap,
         UploadEnds, vars, keeperVars
<1>5. ASSUME NEW activate \in BOOLEAN, UploadStarts(activate)
      PROVE  WellFormed(entries') /\ Keeper(k)'
  BY <1>5, KeeperUnchanged DEF UploadStarts, keeperVars
<1>6. ASSUME CrashReset \/ TrialResets \/ ActivateResets PROVE WellFormed(entries') /\ Keeper(k)'
  <2>1. activator # "selected"
    BY <1>6, KeeperFacts DEF CrashReset, TrialResets, ActivateResets
  <2> QED BY <1>6, <2>1, OffKeeps DEF CrashReset, TrialResets, ActivateResets, SoftwareReset
<1>7. ASSUME Boot PROVE WellFormed(entries') /\ Keeper(k)'
  <2> DEFINE r == BootSlot(entries, slots)
             d == BootData(entries, slots)
             c == ClassOf(r, d)
  <2>1. phase = "off" /\ activator = "waiting" /\ (Above(k) => Beside(k) # "Valid")
    BY <1>7 DEF Boot, BootMemory, Keeper
  <2>2. /\ d[k] = entries[k] /\ WellFormed(d)
        /\ \/ r = k /\ ~OnTrial(c) /\ (d[o].seq > d[k].seq => d[o].state # "Valid")
           \/ /\ r = o /\ Bootable(slots[o]) /\ d[o].seq > d[k].seq
              /\ \/ c = "Trial" /\ d[o].state = "PendingVerify"
                 \/ c = "Unproven" /\ d[o].state = "Undefined"
    BY <2>1, BootFacts DEF Keeper, TypeOK, Above, Beside
  <2>3. r # NoSlot /\ o \in Slot /\ o # k
    BY <2>2, SlotFacts DEF NoSlot
  <2>4. /\ entries' = d /\ running' = r /\ slots' = slots /\ vouched' = vouched
        /\ activator' = "waiting"
        /\ phase' = IF c = "Unproven" THEN "promoting" ELSE "running"
        /\ trial' = IF OnTrial(c) THEN "watching" ELSE "absent"
    BY <1>7, <2>1, <2>3 DEF Boot
  <2>5. CASE r = k
    BY <2>2, <2>3, <2>4, <2>5 DEF Keeper, Above, Beside, OnTrial
  <2>6. CASE r = o
    BY <2>2, <2>3, <2>4, <2>6 DEF Keeper, Above, Beside, OnTrial
  <2> QED BY <2>2, <2>5, <2>6
<1>8. ASSUME NoteBoot PROVE WellFormed(entries') /\ Keeper(k)'
  <2>1. phase = "promoting" /\ running = o /\ trial = "watching" /\ Above(k) /\ Beside(k) = "Undefined"
    BY <1>8 DEF NoteBoot, BootMemory, Keeper
  <2>2. CASE entries' = SetState(entries, "PendingVerify")
    BY <1>8, <2>1, <2>2, StateBeside DEF NoteBoot, Keeper, FwState
  <2>3. CASE UNCHANGED entries
    BY <1>8, <2>1, <2>3 DEF NoteBoot, Keeper, Above, Beside
  <2> QED BY <1>0, <1>8, <2>2, <2>3 DEF NoteBoot
<1>9. ASSUME TrialConfirms PROVE WellFormed(entries') /\ Keeper(k)'
  <2>1. UNCHANGED keeperVars
    BY <1>0, <1>9 DEF Wins, TrialConfirms, keeperVars
  <2> QED BY <2>1, KeeperUnchanged DEF keeperVars
<1>10. ASSUME TrialReverts PROVE WellFormed(entries') /\ Keeper(k)'
  <2>1. phase = "running" /\ running = o /\ Above(k) /\ Beside(k) # "Valid"
        /\ Beside(k) \in {"PendingVerify", "Undefined", "Invalid"} /\ trial' = "resetting"
    BY <1>10, KeeperFacts DEF TrialReverts, Deciding, ExecutorFree, Keeper
  <2>2. CASE entries' = SetState(entries, "Invalid")
    BY <1>10, <2>1, <2>2, StateBeside DEF TrialReverts, Keeper, FwState
  <2>3. CASE UNCHANGED entries
    BY <1>10, <2>1, <2>3 DEF TrialReverts, Keeper, Above, Beside
  <2> QED BY <1>0, <1>10, <2>2, <2>3 DEF TrialReverts
<1>11. ASSUME SectorStaged \/ SectorFails \/ UploadAccepted PROVE WellFormed(entries') /\ Keeper(k)'
  <2>1. phase = "running" /\ Inactive = o /\ o # k /\ activator # "selected"
    BY <1>11, KeeperFacts DEF SectorStaged, SectorFails, UploadAccepted, ExecutorFree
  <2>2. slots'[k] = slots[k] /\ vouched'[k] = vouched[k]
    BY <1>11, <2>1, SlotFacts DEF SectorStaged, SectorFails, UploadAccepted, TypeOK
  <2>3. /\ UNCHANGED <<entries, phase, running, trial>> /\ activator' # "selected"
    BY <1>11, <2>1 DEF SectorStaged, SectorFails, UploadAccepted
  <2> QED BY <2>1, <2>2, <2>3 DEF Keeper, Above, Beside
<1>12. ASSUME ActivateSelects PROVE WellFormed(entries') /\ Keeper(k)'
  <2>1. /\ phase = "running" /\ running = k /\ Inactive = o /\ activator = "signalled"
        /\ trial \in {"absent", "confirmed"} /\ (Above(k) => Beside(k) # "Valid")
    BY <1>12, KeeperFacts DEF ActivateSelects, ExecutorFree, Keeper
  <2>2. UNCHANGED <<slots, vouched, phase, running, trial>>
    BY <1>12 DEF ActivateSelects
  <2>3. CASE entries' = SelectApp(entries, o) /\ activator' = "selected"
    <3>1. WellFormed(entries') /\ entries'[k] = entries[k] /\ Above(k)'
      BY <2>3, SelectFacts DEF Keeper, TypeOK, Above
    <3> QED BY <2>1, <2>2, <2>3, <3>1 DEF Keeper
  <2>4. CASE UNCHANGED entries /\ activator' = "done"
    BY <2>1, <2>2, <2>4 DEF Keeper, Above, Beside
  <2> QED BY <1>0, <1>12, <2>1, <2>3, <2>4 DEF ActivateSelects, GivesUp
<1>13. ASSUME ActivateMarks PROVE WellFormed(entries') /\ Keeper(k)'
  <2>1. /\ phase = "running" /\ running = k /\ activator = "selected"
        /\ trial \in {"absent", "confirmed"} /\ Above(k)
    BY <1>13, KeeperFacts DEF ActivateMarks, Keeper
  <2>2. UNCHANGED <<slots, vouched, phase, running, trial>> /\ activator' # "selected"
    BY <1>13 DEF ActivateMarks, GivesUp
  <2>3. CASE entries' = SetState(entries, "New")
    <3>1. WellFormed(entries') /\ entries'[k] = entries[k] /\ Beside(k)' = "New"
      BY <2>1, <2>3, StateBeside DEF FwState
    <3> QED BY <2>1, <2>2, <3>1 DEF Keeper
  <2>4. CASE UNCHANGED entries /\ exposed' = (exposed \/ LeavesUnmarked)
    <3>1. Beside(k) # "Valid"
      BY <2>1, <2>4, KeeperFacts DEF LeavesUnmarked, Beside
    <3> QED BY <2>1, <2>2, <2>4, <3>1 DEF Keeper, Above, Beside
  <2> QED BY <1>0, <1>13, <2>3, <2>4 DEF ActivateMarks
<1> QED
  BY <1>1, <1>2, <1>3, <1>4, <1>5, <1>6, <1>7, <1>8, <1>9, <1>10, <1>11, <1>12, <1>13
     DEF Next, PowerNext, BootNext, TrialNext, UploadNext, ActivateNext

\* A trial that confirms itself makes the running image the keeper.
LEMMA WinnerKeeps ==
  ASSUME TypeOK, BootMemory, WellFormed(entries), NEW k \in Slot, Keeper(k), Wins
  PROVE  WellFormed(entries') /\ Keeper(Other(k))'
<1> DEFINE o == Other(k)
<1>1. /\ phase = "running" /\ trial = "watching" /\ running = o /\ Above(k)
      /\ activator \notin {"signalled", "selected", "resetting"} /\ Bootable(slots[o])
  BY KeeperFacts DEF Wins, TrialConfirms, Deciding, ExecutorFree, BootMemory
<1>2. entries' = SetState(entries, "Valid") /\ vouched'[o] /\ trial' = "confirmed"
  BY <1>1, SlotFacts DEF Wins, TrialConfirms, TypeOK
<1>3. UNCHANGED <<slots, phase, running, activator>>
  BY DEF Wins, TrialConfirms, bootVars, activateVars
<1>4. /\ WellFormed(entries') /\ entries'[k] = entries[k]
      /\ Above(k)' /\ Beside(k)' = "Valid" /\ entries'[o].kind = "Live"
  BY <1>1, <1>2, StateBeside DEF FwState
<1>5. entries' \in OtaData
  BY <1>2, SetStateType DEF TypeOK, FwState
<1>6. ~(entries'[Other(o)].seq > entries'[o].seq)
  BY <1>4, <1>5, SlotFacts DEF Above, OtaData, Entry
<1> QED BY <1>1, <1>2, <1>3, <1>4, <1>6 DEF Keeper, Above, Beside

\* Before the first boot there is nothing to do but boot slot 0, and an
\* interrupted attempt can be made again.
LEMMA FreshStep ==
  ASSUME TypeOK, BootMemory, WellFormed(entries), Fresh, [Next]_vars
  PROVE  WellFormed(entries') /\ (Fresh' \/ Keeper(0)')
<1> USE DEF flashVars, healthVars, bootVars, uploadVars, activateVars, envVars
<1>1. phase = "off" /\ activator = "waiting" /\ entries[0] \in Damage /\ entries[1] = Erased
  BY SlotFacts DEF Fresh, IsInitial, WellFormed, BootMemory
<1>2. AbortPending(entries) = entries
  <2>1. \A i \in Slot : entries[i].state = "Undefined"
    BY <1>1, SlotFacts DEF Damage, Erased, Torn
  <2> QED BY <2>1 DEF AbortPending, TypeOK, OtaData
<1>3. BootSlot(entries, slots) = 0
  <2>1. SelectedSlot(entries) \in {0, NoSlot}
    BY <1>1, SlotFacts DEF SelectedSlot, IsValid, IsInvalid, Damage, Erased, Torn
  <2> QED BY <1>2, <2>1, SlotFacts DEF BootSlot, FirstBootable, Fresh, NoSlot
<1>4. BootData(entries, slots) = [entries EXCEPT ![0] = Live(1, "Valid")]
  BY <1>3 DEF BootData, Fresh, NoSlot
<1>5. ASSUME Boot PROVE WellFormed(entries') /\ Keeper(0)'
  <2> DEFINE d == BootData(entries, slots)
  <2>1. d[0] = Live(1, "Valid") /\ d[1] = Erased /\ d \in OtaData
    BY <1>1, <1>4, SlotFacts, BootType DEF TypeOK, OtaData
  <2>2. WellFormed(d)
    BY <2>1, SlotFacts DEF WellFormed, Live, Erased, SlotOfSeq, Damage
  <2>3. CurrentEntry(d) = 0 /\ CurrentApp(d) = 0
    BY <2>1, <2>2, SlotFacts, CurrentFacts DEF Live, Erased, UNINITIALIZED
  <2>4. ClassOf(0, d) = "Settled"
    BY <2>1, <2>3, SlotFacts DEF ClassOf, Classify, Readable, Live, Erased, NoSlot
  <2>5. /\ entries' = d /\ running' = 0 /\ phase' = "running" /\ trial' = "absent"
        /\ UNCHANGED <<slots, vouched, activator>>
    BY <1>3, <1>5, <2>4 DEF Boot, OnTrial, NoSlot
  <2>6. ~(entries'[1].seq > entries'[0].seq)
    BY <2>1, <2>5 DEF Live, Erased, UNINITIALIZED
  <2> QED BY <1>1, <2>1, <2>2, <2>5, <2>6, SlotFacts DEF Keeper, Fresh, Live, Above, Beside
<1>6. ASSUME CutInBootloader PROVE WellFormed(entries') /\ Fresh'
  <2>1. PICK i \in Slot : entries[i] # BootData(entries, slots)[i] /\ CutInWrite(i)
    BY <1>6 DEF CutInBootloader
  <2>2. i = 0
    BY <1>4, <2>1, SlotFacts DEF TypeOK, OtaData
  <2>3. PICK d \in Damage : entries' = [entries EXCEPT ![0] = d]
    BY <2>1, <2>2 DEF CutInWrite
  <2>4. WellFormed(entries')
    BY ONLY <2>3, TypeOK, WellFormed(entries), SlotFacts, WellFormedWrite DEF TypeOK
  <2>5. entries'[0] \in Damage /\ entries'[1] = Erased
    BY <1>1, <2>3, SlotFacts DEF TypeOK, OtaData
  <2>6. IsInitial(entries')
    BY <2>5, SlotFacts DEF IsInitial, Damage, Erased, Torn
  <2> QED BY <2>1, <2>4, <2>5, <2>6 DEF CutInWrite, PowerOff, Fresh
<1>7. ASSUME FlashFails \/ FlashRecovers \/ UNCHANGED vars PROVE WellFormed(entries') /\ Fresh'
  BY <1>7 DEF FlashFails, FlashRecovers, vars, Fresh
<1>8. \/ Boot \/ CutInBootloader \/ FlashFails \/ FlashRecovers \/ UNCHANGED vars
  BY <1>1 DEF Next, PowerNext, BootNext, HealthNext, TrialNext, UploadNext, ActivateNext,
       PowerCut, CutInNoteBoot, CutInTrialWrite, CutInSelect, CutInMark, NoteBoot, CrashReset,
       Tick, LinkChanges, FirstRequest, FirstSwap, TrialConfirms, TrialReverts, TrialResets, Deciding,
       UploadStarts, SectorStaged, SectorFails, UploadAccepted, UploadEnds,
       ActivateSelects, ActivateMarks, ActivateResets, ExecutorFree
<1> QED BY <1>5, <1>6, <1>7, <1>8

(***************************************************************************)
(* The inductive invariant and what follows from it.  A write that fails   *)
(* leaves its entry alone: the assumption FailureDamage = FALSE.           *)
(***************************************************************************)

LEMMA InvInit == Init => IInv
<1> SUFFICES ASSUME Init PROVE HasKeeper
  BY TypeInit, MemoryInit DEF IInv
<1>1. entries[0] = Erased /\ entries[1] = Erased
  BY SlotFacts DEF Init
<1>2. WellFormed(entries)
  BY <1>1, SlotFacts DEF WellFormed, Erased, Damage
<1>3. IsInitial(entries)
  BY <1>1, SlotFacts DEF IsInitial, Erased
<1>4. vouched[0] /\ Bootable(slots[0])
  BY SlotFacts DEF Init, Bootable
<1> QED BY <1>1, <1>2, <1>3, <1>4 DEF HasKeeper, Fresh, Init

\* Once an activation has been exposed it stays so.
LEMMA ExposedStays == ASSUME exposed, [Next]_vars PROVE exposed'
BY Zenon DEF Next, PowerNext, BootNext, HealthNext, TrialNext, UploadNext, ActivateNext,
     PowerCut, CutInBootloader, CutInNoteBoot, CutInTrialWrite, CutInSelect, CutInMark, CutInWrite,
     FlashFails, FlashRecovers, Boot, NoteBoot, CrashReset, SoftwareReset,
     Tick, LinkChanges, FirstRequest, FirstSwap, TrialConfirms, TrialReverts, TrialResets,
     UploadStarts, SectorStaged, SectorFails, UploadAccepted, UploadEnds,
     ActivateSelects, ActivateMarks, ActivateResets, vars

LEMMA InvStep == ASSUME FailureDamage = FALSE, IInv, [Next]_vars PROVE IInv'
<1>1. TypeOK' /\ BootMemory'
  BY TypeStep, MemoryStep DEF IInv
<1>2. ASSUME ~exposed' PROVE HasKeeper'
  <2>1. HasKeeper
    BY <1>2, ExposedStays DEF IInv
  <2>2. CASE Fresh
    BY <2>1, <2>2, FreshStep, SlotFacts DEF HasKeeper, IInv
  <2>3. ASSUME NEW k \in Slot, Keeper(k) PROVE HasKeeper'
    <3>1. CASE Wins
      BY <2>1, <2>3, <3>1, WinnerKeeps, SlotFacts DEF HasKeeper, IInv
    <3>2. CASE ~Wins
      BY <1>2, <2>1, <2>3, <3>2, KeeperStep DEF HasKeeper, IInv
    <3> QED BY <3>1, <3>2
  <2> QED BY <2>1, <2>2, <2>3 DEF HasKeeper
<1> QED BY <1>1, <1>2 DEF IInv

\* The invariant of the model, for every bound: while no activation has been
\* stopped over a VALID state, one slot holds a vouched-for image with nothing
\* VALID above it.
THEOREM KeeperAlways == ASSUME FailureDamage = FALSE PROVE Spec => []IInv
<1>1. Init => IInv
  BY InvInit
<1>2. IInv /\ [Next]_vars => IInv'
  BY InvStep
<1> QED BY <1>1, <1>2, PTL DEF Spec

LEMMA KeeperVouched == ASSUME IInv PROVE PermanentIsVouched /\ EscapeHatch
<1>1. ASSUME phase = "running", ~exposed
      PROVE  \E k \in Slot : Keeper(k) /\ WellFormed(entries)
  BY <1>1 DEF IInv, HasKeeper, Fresh
<1>2. PermanentIsVouched
  <2> SUFFICES ASSUME phase = "running", ~TrialPending, ~exposed PROVE vouched[running]
    BY DEF PermanentIsVouched
  <2>1. PICK k \in Slot : Keeper(k) /\ WellFormed(entries)
    BY <1>1
  <2>2. trial \notin {"watching", "resetting"}
    BY DEF IInv, BootMemory, TrialPending, Confirmed
  <2> QED BY <2>1, <2>2, KeeperFacts DEF IInv, Keeper
<1>3. EscapeHatch
  <2> SUFFICES ASSUME TrialPending, ~exposed
               PROVE  /\ vouched[Inactive] /\ Bootable(slots[Inactive])
                      /\ entries[CurrentEntry(entries)].state # "Undefined" =>
                            BootSlot(entries, slots) = Inactive
    BY DEF EscapeHatch
  <2>1. PICK k \in Slot : Keeper(k) /\ WellFormed(entries)
    BY <1>1 DEF TrialPending
  <2>2. trial \in {"watching", "resetting"} /\ phase = "running"
    BY DEF IInv, BootMemory, TrialPending, Confirmed, TypeOK
  <2>3. Inactive = k /\ running = Other(k) /\ Above(k) /\ CurrentEntry(entries) = Other(k)
    BY <2>1, <2>2, KeeperFacts DEF IInv
  <2>4. Beside(k) \in {"PendingVerify", "Undefined", "Invalid"}
    BY <2>1, <2>2 DEF Keeper
  <2>5. Beside(k) # "Undefined" => BootSlot(entries, slots) = k
    BY <2>1, <2>4, BootFacts DEF Keeper, Beside, IInv, TypeOK
  <2> QED BY <2>1, <2>3, <2>5 DEF Keeper, Beside
<1> QED BY <1>2, <1>3

\* An image that is not on trial was flashed by hand or confirmed itself.
THEOREM PermanentAlwaysVouched ==
  ASSUME FailureDamage = FALSE PROVE Spec => []PermanentIsVouched
<1>1. IInv => PermanentIsVouched
  BY KeeperVouched
<1> QED BY <1>1, KeeperAlways, PTL

\* While a trial is undecided there is a vouched-for image to go back to, and
\* any reset goes back to it.
THEOREM HatchStaysOpen == ASSUME FailureDamage = FALSE PROVE Spec => []EscapeHatch
<1>1. IInv => EscapeHatch
  BY KeeperVouched
<1> QED BY <1>1, KeeperAlways, PTL

(***************************************************************************)
(* The update implements the promise to the owner.                         *)
(***************************************************************************)

LEMMA CommittedFacts ==
  ASSUME TypeOK, BootMemory, WellFormed(entries)
  PROVE  /\ \A k \in Slot : Keeper(k) => Committed = k
         /\ Fresh => Committed = 0
<1>1. ASSUME NEW k \in Slot, Keeper(k) PROVE Committed = k
  <2> DEFINE o == Other(k)
  <2>1. CASE activator = "selected"
    BY <1>1, <2>1, KeeperFacts DEF Committed, BootMemory
  <2>2. CASE activator # "selected"
    <3>1. o \in Slot /\ o # k /\ \A i \in Slot : i = k \/ i = o
      BY SlotFacts
    <3>2. entries[k].state = "Valid" /\ entries[k].kind = "Live"
      BY <1>1 DEF Keeper
    <3>3. entries[o].seq > entries[k].seq => entries[o].state # "Valid"
      BY <1>1, <2>2, KeeperFacts DEF Above, Beside
    <3>4. entries[o].seq # entries[k].seq
      <4>1. CASE entries[o].kind = "Live"
        BY <3>1, <3>2, <4>1 DEF WellFormed
      <4>2. CASE entries[o].kind # "Live"
        BY <3>1, <3>2, <4>2 DEF WellFormed, Damage, Erased, Torn, UNINITIALIZED
      <4> QED BY <4>1, <4>2
    <3>5. entries[o].seq \in Nat /\ entries[k].seq \in Nat
      BY <3>1 DEF TypeOK, OtaData, Entry
    <3> DEFINE Latest(i) == /\ entries[i].state = "Valid"
                            /\ \A j \in Slot : entries[j].state = "Valid" => entries[j].seq <= entries[i].seq
    <3>6. Latest(k) /\ \A i \in Slot : Latest(i) => i = k
      BY <3>1, <3>2, <3>3, <3>4, <3>5
    <3>7. (CHOOSE i \in Slot : Latest(i)) = k
      BY <3>6
    <3>8. \E i \in Slot : entries[i].state = "Valid"
      BY <3>2
    <3> QED BY <2>2, <3>7, <3>8 DEF Committed
  <2> QED BY <2>1, <2>2
<1>2. ASSUME Fresh PROVE Committed = 0
  <2>1. \A i \in Slot : entries[i].kind # "Live" /\ entries[i] \in Damage
    BY <1>2 DEF Fresh, IsInitial, WellFormed
  <2>2. \A i \in Slot : entries[i].state # "Valid"
    <3>1. \A d \in Damage : d.state # "Valid"
      BY DEF Damage, Erased, Torn
    <3> QED BY <2>1, <3>1
  <2> QED BY <1>2, <2>2 DEF Committed, Fresh, BootMemory
<1> QED BY <1>1, <1>2

\* The same of the state after a step.
CommittedIsKeeper ==
  TypeOK /\ BootMemory /\ WellFormed(entries) =>
    /\ \A k \in Slot : Keeper(k) => Committed = k
    /\ Fresh => Committed = 0

LEMMA CommittedAfter == CommittedIsKeeper'
<1>1. CommittedIsKeeper
  BY CommittedFacts DEF CommittedIsKeeper
<1> QED BY <1>1, PTL

LEMMA PromiseStep ==
  ASSUME FailureDamage = FALSE, IInv, [Next]_vars
  PROVE  [exposed' \/ Promise!Next]_<<Committed, Tentative>>
<1> SUFFICES ASSUME ~exposed' PROVE [Promise!Next]_<<Committed, Tentative>>
  OBVIOUS
<1>1. IInv' /\ HasKeeper /\ HasKeeper'
  BY InvStep, ExposedStays DEF IInv
<1>2. /\ TypeOK /\ BootMemory /\ WellFormed(entries)
      /\ TypeOK' /\ BootMemory' /\ WellFormed(entries')
  BY <1>1 DEF IInv, HasKeeper
<1>3. \A k \in Slot : Keeper(k)' => Committed' = k
  BY <1>2, CommittedAfter DEF CommittedIsKeeper
<1>4. Fresh' => Committed' = 0
  BY <1>2, CommittedAfter DEF CommittedIsKeeper
<1>5. Tentative \in BOOLEAN /\ Tentative' \in BOOLEAN
  BY DEF Tentative
<1>6. ASSUME Committed' = Committed PROVE [Promise!Next]_<<Committed, Tentative>>
  BY <1>5, <1>6 DEF Promise!Next, Promise!Try, Promise!GiveUp
<1>7. CASE Fresh
  <2>1. Committed = 0 /\ (Fresh' \/ Keeper(0)')
    BY <1>2, <1>7, CommittedFacts, FreshStep
  <2> QED BY <1>3, <1>4, <1>6, <2>1, SlotFacts
<1>8. ASSUME NEW k \in Slot, Keeper(k) PROVE [Promise!Next]_<<Committed, Tentative>>
  <2>1. Committed = k
    BY <1>2, <1>8, CommittedFacts
  <2>2. CASE ~Wins
    BY <1>2, <1>3, <1>6, <1>8, <2>1, <2>2, KeeperStep
  <2>3. CASE Wins
    <3>1. Committed' = Other(k) /\ Other(k) = 1 - k
      BY <1>2, <1>3, <1>8, <2>3, WinnerKeeps, SlotFacts
    <3>2. phase = "running" /\ OnTrial(boot) /\ trial = "watching" /\ trial' = "confirmed"
      BY <2>3, <1>2 DEF Wins, TrialConfirms, Deciding, ExecutorFree, BootMemory
    <3>3. Tentative = TRUE /\ Tentative' = FALSE
      BY <3>2 DEF Tentative
    <3> QED BY <2>1, <3>1, <3>3 DEF Promise!Next, Promise!Keep
  <2> QED BY <2>2, <2>3
<1> QED BY <1>1, <1>7, <1>8 DEF HasKeeper

\* The device has one firmware, another image may only be tried, and only the
\* end of a trial that went well changes which is which.
THEOREM PromiseKept == ASSUME FailureDamage = FALSE PROVE Spec => KeepsPromise
<1>1. Init => Promise!Init
  <2> SUFFICES ASSUME Init PROVE Committed \in 0..1 /\ Tentative = FALSE
    BY DEF Promise!Init
  <2>1. Fresh /\ TypeOK /\ BootMemory /\ WellFormed(entries)
    <3>1. IInv /\ ~exposed
      BY InvInit DEF Init
    <3>2. \A k \in Slot : entries[k].kind # "Live"
      BY SlotFacts DEF Init, Erased
    <3> QED BY <3>1, <3>2 DEF IInv, HasKeeper, Keeper
  <2>2. Committed = 0
    BY <2>1, CommittedFacts
  <2> QED BY <2>2 DEF Tentative, Init
<1>2. IInv /\ [Next]_vars => [exposed' \/ Promise!Next]_<<Committed, Tentative>>
  BY PromiseStep
<1> QED BY <1>1, <1>2, KeeperAlways, PTL DEF Spec, KeepsPromise

=============================================================================
