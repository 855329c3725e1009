--------------------------- MODULE SettingsProofs ---------------------------
(***************************************************************************)
(* The settings of module Settings keep their promise, for any values,     *)
(* pages, quiet period and bounds.                                         *)
(***************************************************************************)
EXTENDS Settings, TLAPS

USE SettingsAssumption, NoneAssumption, FoundAssumption

LEMMA LoadedType ==
  ASSUME NEW fl \in [Field -> Item \cup {None}], NEW sc \in Version \cup {None}
  PROVE  Loaded(fl, sc) \in [Field -> Value]
<1>1. ASSUME NEW f \in Field, fl[f] # None PROVE fl[f].val \in Value
  BY <1>1 DEF Item
<1> QED BY <1>1 DEF Loaded

LEMMA SavingType ==
  ASSUME NEW f \in Field, NEW v \in Value, schema \in Version \cup {None}
  PROVE  Saving(f, v) \in Save /\ Saving(f, v) # None
<1>1. Saving(f, v) \in Save
  BY DEF Saving, Save, Version
<1> QED BY <1>1

LEMMA InitType == Init => TypeOK
<1> SUFFICES ASSUME Init PROVE TypeOK
  OBVIOUS
<1>1. PICK m \in Found : schema = m.schema /\ flash = m.items
  BY DEF Init
<1>2. m \in Maps
  BY <1>1
<1>3. flash \in [Field -> Item \cup {None}] /\ schema \in Version \cup {None}
  <2>1. CASE m = [schema |-> None, items |-> [f \in Field |-> None]]
    BY <1>1, <2>1
  <2>2. CASE m \in [schema : Version, items : [Field -> Item \cup {None}]]
    BY <1>1, <2>2
  <2> QED BY <1>2, <2>1, <2>2 DEF Maps
<1>4. live \in [Field -> Value]
  BY <1>3, LoadedType DEF Init
<1>5. quiet \in [Debounced -> 0..QUIET_MS \cup {None}]
  BY DEF Init
<1>6. changes \in 0..MaxChanges /\ restarts \in 0..MaxRestarts /\ faults \in 0..MaxFaults
  BY DEF Init
<1>7. dirty = {} /\ wake = FALSE /\ draining = FALSE /\ save = None /\ lost = {}
  BY DEF Init
<1> QED BY <1>3, <1>4, <1>5, <1>6, <1>7 DEF TypeOK

LEMMA StepType == TypeOK /\ [Next]_vars => TypeOK'
<1> SUFFICES ASSUME TypeOK, [Next]_vars PROVE TypeOK'
  OBVIOUS
<1> USE DEF TypeOK
<1>1. CASE EraseStep
  <2>1. PICK p \in save.erase :
          /\ save' = [save EXCEPT !.erase = @ \ {p}]
          /\ flash' = [f \in Field |-> IF flash[f] # None /\ flash[f].page = p THEN None ELSE flash[f]]
          /\ schema' = IF schema # None /\ schema.page = p THEN None ELSE schema
    BY <1>1 DEF EraseStep
  <2>2. save \in Save
    BY <1>1 DEF EraseStep
  <2>3. save' \in Save
    BY <2>1, <2>2 DEF Save
  <2>4. flash' \in [Field -> Item \cup {None}] /\ schema' \in Version \cup {None}
    BY <2>1
  <2> QED BY <1>1, <2>3, <2>4 DEF EraseStep, taskVars, bounds
<1>2. CASE VersionStep
  <2>1. save' \in Save
    BY <1>2 DEF VersionStep, Save
  <2>2. schema' \in Version
    BY <1>2 DEF VersionStep, Version, Page
  <2> QED BY <1>2, <2>1, <2>2 DEF VersionStep, taskVars, bounds
<1>3. CASE ItemStep
  <2>1. save \in Save
    BY <1>3 DEF ItemStep
  <2>2. save.field \in Field /\ save.val \in Value
    BY <2>1 DEF Save
  <2>3. [val |-> save.val, ours |-> TRUE, page |-> 0] \in Item
    BY <2>2 DEF Item, Page
  <2>4. flash' \in [Field -> Item \cup {None}]
    BY <1>3, <2>2, <2>3 DEF ItemStep
  <2>5. live' \in [Field -> Value]
    BY <1>3, <2>2 DEF ItemStep
  <2> QED BY <1>3, <2>4, <2>5 DEF ItemStep, taskVars, bounds
<1>4. CASE WriteFails
  <2>1. save.field \in Field
    BY <1>4 DEF WriteFails, Save
  <2> QED BY <1>4, <2>1 DEF WriteFails, taskVars
<1>5. ASSUME NEW f \in Debounced, NEW v \in Value, SetDebounced(f, v) PROVE TypeOK'
  <2>1. f \in Field
    BY DEF Field
  <2> QED BY <1>5, <2>1 DEF SetDebounced
<1>6. ASSUME NEW v \in Value, SetName(v) PROVE TypeOK'
  <2>1. "Name" \in Field
    BY DEF Field, Prompt
  <2>2. save' \in Save
    BY <1>6, <2>1, SavingType DEF SetName
  <2> QED BY <1>6, <2>1, <2>2 DEF SetName, taskVars
<1>7. ASSUME NEW v \in Value, SetColour(v) PROVE TypeOK'
  <2>1. "Colour" \in Field
    BY DEF Field, Prompt
  <2>2. save' \in Save
    BY <1>7, <2>1, SavingType DEF SetColour
  <2> QED BY <1>7, <2>2 DEF SetColour, taskVars
<1>8. CASE TaskWakes
  BY <1>8 DEF TaskWakes, bounds
<1>9. ASSUME NEW f \in Debounced, TaskCommits(f) PROVE TypeOK'
  <2>1. f \in Field /\ live[f] \in Value
    BY DEF Field
  <2>2. save' \in Save
    BY <1>9, <2>1, SavingType DEF TaskCommits
  <2> QED BY <1>9, <2>2 DEF TaskCommits, bounds
<1>10. CASE TaskSleeps
  BY <1>10 DEF TaskSleeps, bounds
<1>11. CASE Advance
  <2>1. ASSUME NEW f \in Debounced, quiet[f] # None, quiet[f] < QUIET_MS
        PROVE  quiet[f] + 1 \in 0..QUIET_MS
    BY <2>1
  <2>2. quiet' \in [Debounced -> 0..QUIET_MS \cup {None}]
    BY <1>11, <2>1 DEF Advance
  <2> QED BY <1>11, <2>2 DEF Advance, bounds
<1>12. CASE Restart
  <2>1. live' \in [Field -> Value]
    BY <1>12, LoadedType DEF Restart
  <2>2. quiet' \in [Debounced -> 0..QUIET_MS \cup {None}]
    BY <1>12 DEF Restart
  <2>3. /\ dirty' = {} /\ wake' = FALSE /\ draining' = FALSE /\ save' = None /\ lost' = {}
        /\ restarts' \in 0..MaxRestarts /\ UNCHANGED <<flash, schema, changes, faults>>
    BY <1>12 DEF Restart
  <2> QED BY <2>1, <2>2, <2>3
<1>13. CASE UNCHANGED vars
  BY <1>13 DEF vars, taskVars, bounds
<1> QED
  BY <1>1, <1>2, <1>3, <1>4, <1>5, <1>6, <1>7, <1>8, <1>9, <1>10, <1>11, <1>12, <1>13
  DEF Next, SaveStep, TaskStep

\* Every variable of the settings keeps its type: a quiet time stays within
\* QUIET_MS, and what a save has left to do is pages, a version and an item.
THEOREM TypeCorrect == Spec => []TypeOK
<1> QED BY InitType, StepType, PTL DEF Spec

-----------------------------------------------------------------------------
(* From here on neither the power nor the flash fails half-way through an  *)
(* erase, or there is never anything to erase, because the device has not  *)
(* been switched on with another build's map (Sheltered).                  *)
(* What is left of a save says what the flash holds: before and            *)
(* during the erase everything lies on pages that are still to go, before  *)
(* the version there is nothing, and an item is written under a version    *)
(* of this build only.                                                     *)

SaveSound ==
  save # None =>
    /\ save.field # "Colour" => save.val = live[save.field]
    /\ save.erase # {} =>
         /\ save.version /\ (schema = None \/ ~schema.ours)
         /\ schema # None => schema.page \in save.erase
         /\ \A f \in Field : flash[f] # None => flash[f].page \in save.erase
    /\ save.erase = Page => schema # None
    /\ save.erase = {} /\ save.version => schema = None
    /\ ~save.version => save.erase = {} /\ schema # None /\ schema.ours

\* No items without a version, but in the middle of an erase.
NothingUnversioned == schema = None /\ ~InErase => \A f \in Field : flash[f] = None

ColourStored == live["Colour"] = Loaded(flash, schema)["Colour"]

\* Nothing is erased where an erase might be cut short.
NothingToErase ==
  CutInErase => /\ schema # None => schema.ours
                /\ save # None => save.erase = {}

Sheltered == CutInErase => \A m \in Found : m.schema # None => m.schema.ours

IInv ==
  /\ TypeOK /\ SaveSound /\ NothingUnversioned /\ NotReinterpreted
  /\ ColourStored /\ SavedOrPending /\ NothingToErase

LEMMA PageNotEmpty == Page # {} /\ 0 \in Page
BY DEF Page

LEMMA Fields ==
  /\ Debounced \subseteq Field /\ "Name" \in Field /\ "Colour" \in Field
  /\ "Name" \notin Debounced /\ "Colour" \notin Debounced
BY DEF Field, Debounced, Prompt

LEMMA InitInv == ASSUME Sheltered, Init PROVE IInv
<1>1. TypeOK
  BY InitType
<1>2. PICK m \in Found : schema = m.schema /\ flash = m.items
  BY DEF Init
<1>3. NothingUnversioned /\ NotReinterpreted
  <2>1. CASE m = [schema |-> None, items |-> [f \in Field |-> None]]
    BY <1>2, <2>1 DEF NothingUnversioned, NotReinterpreted
  <2>2. CASE /\ m \in [schema : Version, items : [Field -> Item \cup {None}]]
             /\ \A f \in Field : m.items[f] # None => m.items[f].ours = m.schema.ours
    <3>1. schema # None
      BY <1>2, <2>2
    <3> QED BY <1>2, <2>2, <3>1 DEF NothingUnversioned, NotReinterpreted
  <2> QED BY <2>1, <2>2 DEF Maps
<1>4. save = None /\ live = Loaded(flash, schema)
  BY DEF Init
<1>5. SaveSound /\ ColourStored /\ SavedOrPending /\ NothingToErase
  BY <1>2, <1>4 DEF SaveSound, ColourStored, SavedOrPending, NothingToErase, Sheltered
<1> QED BY <1>1, <1>3, <1>5 DEF IInv

\* Erasing and stamping change nothing of what a restart would find.
LEMMA Unread ==
  ASSUME IInv, EraseStep \/ VersionStep
  PROVE  Loaded(flash', schema') = Loaded(flash, schema)
<1>1. CASE EraseStep
  <2>1. (schema = None \/ ~schema.ours) /\ (schema' = None \/ ~schema'.ours)
    BY <1>1 DEF EraseStep, IInv, SaveSound
  <2> QED BY <2>1 DEF Loaded
<1>2. CASE VersionStep
  <2>1. schema = None /\ ~InErase /\ flash' = flash
    BY <1>2 DEF VersionStep, IInv, SaveSound, InErase
  <2>2. \A f \in Field : flash[f] = None
    BY <2>1 DEF IInv, NothingUnversioned
  <2> QED BY <2>1, <2>2 DEF Loaded
<1> QED BY <1>1, <1>2

LEMMA ItemRead ==
  ASSUME IInv, ItemStep
  PROVE  /\ save.field \in Field /\ save.val \in Value
         /\ Loaded(flash', schema') = [Loaded(flash, schema) EXCEPT ![save.field] = save.val]
<1> DEFINE it == [val |-> save.val, ours |-> TRUE, page |-> 0]
<1>1. save \in Save
  BY DEF IInv, TypeOK, ItemStep
<1>2. save.field \in Field /\ save.val \in Value
  BY <1>1 DEF Save
<1>3. schema # None /\ schema.ours /\ schema' = schema
  BY DEF ItemStep, IInv, SaveSound
<1>4. it \in Item /\ it.val = save.val
  BY <1>2, PageNotEmpty DEF Item
<1>5. it # None
  BY <1>4
<1>6. \A f \in Field : f # save.field => flash'[f] = flash[f]
  BY DEF ItemStep, IInv, TypeOK
<1>7. \/ flash'[save.field] # None /\ flash'[save.field].val = save.val
      \/ flash'[save.field] = None /\ save.val = Default
  BY <1>2, <1>4, <1>5 DEF ItemStep, Skipped, IInv, TypeOK
<1>8. \A f \in Field :
        Loaded(flash', schema')[f] = IF f = save.field THEN save.val ELSE Loaded(flash, schema)[f]
  <2> HIDE DEF it
  <2> QED BY <1>2, <1>3, <1>6, <1>7 DEF Loaded
<1>9. Loaded(flash', schema') = [f \in Field |-> Loaded(flash', schema')[f]]
  BY DEF Loaded
<1>10. [Loaded(flash, schema) EXCEPT ![save.field] = save.val]
         = [f \in Field |-> IF f = save.field THEN save.val ELSE Loaded(flash, schema)[f]]
  BY DEF Loaded
<1> QED BY <1>2, <1>8, <1>9, <1>10

\* An action that leaves the flash alone and begins or ends no save disturbs
\* only what it says of the fields in force.
LEMMA FlashSame ==
  ASSUME IInv, UNCHANGED <<flash, schema, save>>,
         live'["Colour"] = live["Colour"],
         save # None => \A f \in Field : live'[f] = live[f]
  PROVE  /\ SaveSound' /\ NothingUnversioned' /\ NotReinterpreted' /\ ColourStored'
         /\ NothingToErase'
<1>1. NothingUnversioned' /\ NotReinterpreted' /\ NothingToErase'
  BY DEF IInv, NothingUnversioned, NotReinterpreted, NothingToErase, InErase
<1>2. Loaded(flash, schema)' = Loaded(flash, schema)
  BY DEF Loaded
<1>3. ColourStored'
  BY <1>2 DEF IInv, ColourStored
<1>4. save # None => save.field \in Field
  BY DEF IInv, TypeOK, Save
<1>5. SaveSound'
  BY <1>4 DEF IInv, SaveSound
<1> QED BY <1>1, <1>3, <1>5

\* A save begins.
LEMMA SaveBegins ==
  ASSUME IInv, save = None, NEW f \in Field, NEW v \in Value,
         save' = Saving(f, v), UNCHANGED <<flash, schema>>,
         f # "Colour" => v = live'[f], live'["Colour"] = live["Colour"]
  PROVE  /\ SaveSound' /\ NothingUnversioned' /\ NotReinterpreted' /\ ColourStored'
         /\ NothingToErase' /\ save' # None /\ save'.field = f
<1>0. save' # None
  BY SavingType DEF IInv, TypeOK
<1>1. /\ save'.field = f /\ save'.val = v
      /\ save'.erase = (IF schema # None /\ ~schema.ours THEN Page ELSE {})
      /\ save'.version = (schema = None \/ ~schema.ours)
  BY DEF Saving
<1>2. schema # None => schema.page \in Page /\ schema.ours \in BOOLEAN
  BY DEF IInv, TypeOK, Version
<1>3. \A g \in Field : flash[g] # None => flash[g].page \in Page
  BY DEF IInv, TypeOK, Item
<1>4. SaveSound'
  BY <1>0, <1>1, <1>2, <1>3, PageNotEmpty DEF SaveSound
<1>5. ~InErase /\ ~InErase'
  BY <1>1 DEF InErase
<1>6. NothingUnversioned' /\ NotReinterpreted'
  BY <1>5 DEF IInv, NothingUnversioned, NotReinterpreted
<1>7. ColourStored'
  BY DEF IInv, ColourStored, Loaded
<1>8. NothingToErase'
  BY <1>1 DEF IInv, NothingToErase
<1> QED BY <1>0, <1>1, <1>4, <1>6, <1>7, <1>8

\* A step of a save that changes neither what is in force nor what a restart
\* would find.
LEMMA OthersSame ==
  ASSUME IInv, UNCHANGED <<live, taskVars, lost>>,
         Loaded(flash, schema)' = Loaded(flash, schema),
         save # None, save' # None, save'.field = save.field
  PROVE  ColourStored' /\ SavedOrPending'
<1>1. ASSUME NEW f \in Field PROVE OnItsWay(f)' = OnItsWay(f)
  BY DEF OnItsWay, taskVars
<1>2. SavedOrPending'
  BY <1>1 DEF IInv, SavedOrPending
<1>3. ColourStored'
  BY DEF IInv, ColourStored
<1> QED BY <1>2, <1>3

LEMMA EraseInv == IInv /\ EraseStep => IInv'
<1> SUFFICES ASSUME IInv, EraseStep PROVE IInv'
  OBVIOUS
<1>1. TypeOK'
  BY StepType DEF IInv, Next, SaveStep
<1>2. PICK p \in save.erase :
        /\ save' = [save EXCEPT !.erase = @ \ {p}]
        /\ flash' = [f \in Field |-> IF flash[f] # None /\ flash[f].page = p THEN None ELSE flash[f]]
        /\ schema' = IF schema # None /\ schema.page = p THEN None ELSE schema
  BY DEF EraseStep
<1>3. save \in Save /\ save # None /\ UNCHANGED <<live, taskVars, bounds, lost>>
  BY DEF EraseStep, IInv, TypeOK
<1>4. /\ save'.erase = save.erase \ {p} /\ save'.version = save.version
      /\ save'.field = save.field /\ save'.val = save.val
  BY <1>2, <1>3 DEF Save
<1>5. /\ save.version /\ (schema = None \/ ~schema.ours)
      /\ schema # None => schema.page \in save.erase
      /\ \A f \in Field : flash[f] # None => flash[f].page \in save.erase
      /\ save.field # "Colour" => save.val = live[save.field]
  BY <1>2, <1>3 DEF IInv, SaveSound
<1>6. save'.erase # Page /\ save.erase \subseteq Page
  BY <1>2, <1>3, <1>4 DEF Save
<1>7. \A f \in Field : flash'[f] # None => flash'[f].page \in save'.erase
  BY <1>2, <1>4, <1>5
<1>8. schema' # None => schema'.page \in save'.erase /\ ~schema'.ours
  BY <1>2, <1>4, <1>5
<1>9. SaveSound'
  BY <1>3, <1>4, <1>5, <1>6, <1>7, <1>8 DEF SaveSound
<1>14. save' \in Save
  BY <1>2, <1>3 DEF Save
<1>15. save' # None
  BY <1>14
<1>10. NothingUnversioned'
  BY <1>6, <1>7, <1>15 DEF NothingUnversioned, InErase
<1>11. NotReinterpreted'
  BY <1>8 DEF NotReinterpreted
<1>12. Loaded(flash, schema)' = Loaded(flash, schema)
  BY Unread
<1>13. ColourStored' /\ SavedOrPending'
  BY <1>3, <1>4, <1>12, <1>15, OthersSame
<1>16. NothingToErase'
  BY <1>2, <1>3 DEF IInv, NothingToErase
<1> QED BY <1>1, <1>9, <1>10, <1>11, <1>13, <1>16 DEF IInv

LEMMA VersionInv == IInv /\ VersionStep => IInv'
<1> SUFFICES ASSUME IInv, VersionStep PROVE IInv'
  OBVIOUS
<1>1. TypeOK'
  BY StepType DEF IInv, Next, SaveStep
<1>2. /\ save \in Save /\ save # None /\ save.erase = {} /\ save.version
      /\ schema' = [ours |-> TRUE, page |-> 0] /\ save' = [save EXCEPT !.version = FALSE]
      /\ UNCHANGED <<live, flash, taskVars, bounds, lost>>
  BY DEF VersionStep, IInv, TypeOK
<1>3. /\ save' \in Save /\ save'.erase = {} /\ ~save'.version
      /\ save'.field = save.field /\ save'.val = save.val
  BY <1>2 DEF Save
<1>4. save' # None
  BY <1>3
<1>5. schema' \in Version /\ schema'.ours
  BY <1>2, PageNotEmpty DEF Version
<1>6. schema' # None
  BY <1>5
<1>7. save.field # "Colour" => save.val = live[save.field]
  BY <1>2 DEF IInv, SaveSound
<1>8. SaveSound'
  BY <1>2, <1>3, <1>5, <1>6, <1>7, PageNotEmpty DEF SaveSound
<1>9. \A f \in Field : flash[f] = None
  BY <1>2 DEF IInv, SaveSound, NothingUnversioned, InErase
<1>10. NothingUnversioned' /\ NotReinterpreted'
  BY <1>2, <1>6, <1>9 DEF NothingUnversioned, NotReinterpreted
<1>11. Loaded(flash, schema)' = Loaded(flash, schema)
  BY Unread
<1>12. ColourStored' /\ SavedOrPending'
  BY <1>2, <1>3, <1>4, <1>11, OthersSame
<1>13. NothingToErase'
  BY <1>3, <1>5 DEF NothingToErase
<1> QED BY <1>1, <1>8, <1>10, <1>12, <1>13 DEF IInv

LEMMA ItemInv == IInv /\ ItemStep => IInv'
<1> SUFFICES ASSUME IInv, ItemStep PROVE IInv'
  OBVIOUS
<1> DEFINE L == Loaded(flash, schema)
<1>1. TypeOK'
  BY StepType DEF IInv, Next, SaveStep
<1>2. /\ save.field \in Field /\ save.val \in Value
      /\ L' = [L EXCEPT ![save.field] = save.val]
  BY ItemRead
<1>3. L \in [Field -> Value]
  BY LoadedType DEF IInv, TypeOK
<1>4. /\ save # None /\ save' = None /\ UNCHANGED <<schema, taskVars, bounds>>
      /\ schema # None /\ schema.ours
      /\ save.field # "Colour" => save.val = live[save.field]
      /\ lost' = lost \ {save.field}
      /\ live' = IF save.field = "Colour" THEN [live EXCEPT !["Colour"] = save.val] ELSE live
  BY DEF ItemStep, IInv, SaveSound
<1>5. SaveSound' /\ NothingUnversioned' /\ NothingToErase'
  BY <1>4 DEF SaveSound, NothingUnversioned, NothingToErase
<1>6. NotReinterpreted'
  <2>1. \A f \in Field : flash'[f] # None => flash'[f] = flash[f] \/ flash'[f].ours
    BY <1>2 DEF ItemStep, IInv, TypeOK
  <2> QED BY <1>4, <2>1 DEF IInv, NotReinterpreted
<1>7. live \in [Field -> Value] /\ live["Colour"] = L["Colour"]
  BY DEF IInv, TypeOK, ColourStored
<1> HIDE DEF L
<1>8. live'["Colour"] = L'["Colour"]
  BY <1>2, <1>3, <1>4, <1>7, Fields
<1>9. ASSUME NEW f \in Field
      PROVE  live'[f] = L'[f] \/ OnItsWay(f)' \/ f \in lost'
  <2>1. CASE f = save.field
    BY <1>2, <1>3, <1>4, <1>7, <2>1
  <2>2. CASE f # save.field
    <3>1. live'[f] = live[f] /\ L'[f] = L[f]
      BY <1>2, <1>3, <1>4, <1>7, <1>8, <2>2
    <3>2. OnItsWay(f) => OnItsWay(f)'
      BY <1>4, <2>2 DEF OnItsWay, taskVars
    <3>3. live[f] = L[f] \/ OnItsWay(f) \/ f \in lost
      BY DEF L, IInv, SavedOrPending
    <3> QED BY <1>4, <2>2, <3>1, <3>2, <3>3
  <2> QED BY <2>1, <2>2
<1>10. ColourStored' /\ SavedOrPending'
  BY <1>8, <1>9 DEF L, ColourStored, SavedOrPending
<1> QED BY <1>1, <1>5, <1>6, <1>10 DEF IInv

\* A save that is over, for whatever reason, outside the middle of an erase.
LEMMA SaveOver ==
  ASSUME IInv, ~InErase, save' = None, UNCHANGED <<flash, schema>>
  PROVE  SaveSound' /\ NothingUnversioned' /\ NotReinterpreted' /\ NothingToErase'
BY DEF IInv, SaveSound, NothingUnversioned, NotReinterpreted, NothingToErase, InErase

\* Neither a failing write nor a restart comes half-way through an erase.
LEMMA NotInErase == ASSUME IInv, CutInErase \/ ~InErase PROVE ~InErase
BY DEF IInv, NothingToErase, InErase

LEMMA FailInv == ASSUME IInv, WriteFails PROVE IInv'
<1>1. TypeOK'
  BY StepType DEF IInv, Next
<1>2. SaveSound' /\ NothingUnversioned' /\ NotReinterpreted' /\ NothingToErase'
  BY SaveOver, NotInErase DEF WriteFails
<1>3. Loaded(flash, schema)' = Loaded(flash, schema) /\ UNCHANGED <<live, taskVars>>
  BY DEF WriteFails, Loaded
<1>4. ColourStored'
  BY <1>3 DEF IInv, ColourStored
<1>5. ASSUME NEW f \in Field
      PROVE  live'[f] = Loaded(flash, schema)'[f] \/ OnItsWay(f)' \/ f \in lost'
  <2>1. CASE f # save.field
    <3>1. OnItsWay(f) => OnItsWay(f)'
      BY <1>3, <2>1 DEF OnItsWay, taskVars
    <3> QED BY <1>3, <3>1 DEF IInv, SavedOrPending, WriteFails
  <2>2. CASE f = save.field /\ f # "Colour"
    BY <2>2 DEF WriteFails
  <2>3. CASE f = "Colour"
    BY <1>3, <2>3 DEF IInv, ColourStored
  <2> QED BY <2>1, <2>2, <2>3
<1>6. SavedOrPending'
  BY <1>5 DEF SavedOrPending
<1> QED BY <1>1, <1>2, <1>4, <1>6 DEF IInv

LEMMA SetDebouncedInv ==
  ASSUME IInv, NEW f \in Debounced, NEW v \in Value, SetDebounced(f, v) PROVE IInv'
<1>1. TypeOK'
  BY StepType DEF IInv, Next
<1>2. /\ save = None /\ UNCHANGED <<flash, schema, quiet, save>>
      /\ live' = [live EXCEPT ![f] = v] /\ dirty' = dirty \cup {f} /\ wake' = TRUE
      /\ lost' = lost \ {f}
  BY DEF SetDebounced, Idle
<1>3. live'["Colour"] = live["Colour"]
  BY <1>2, Fields DEF IInv, TypeOK
<1>4. SaveSound' /\ NothingUnversioned' /\ NotReinterpreted' /\ ColourStored' /\ NothingToErase'
  BY <1>2, <1>3, FlashSame
<1>5. Loaded(flash, schema)' = Loaded(flash, schema)
  BY <1>2 DEF Loaded
<1>6. ASSUME NEW g \in Field
      PROVE  live'[g] = Loaded(flash, schema)'[g] \/ OnItsWay(g)' \/ g \in lost'
  <2>1. CASE g = f
    BY <1>2, <2>1 DEF OnItsWay
  <2>2. CASE g # f
    <3>1. live'[g] = live[g] /\ (OnItsWay(g) => OnItsWay(g)')
      BY <1>2, <2>2 DEF IInv, TypeOK, OnItsWay
    <3> QED BY <1>2, <1>5, <2>2, <3>1 DEF IInv, SavedOrPending
  <2> QED BY <2>1, <2>2
<1>7. SavedOrPending'
  BY <1>6 DEF SavedOrPending
<1> QED BY <1>1, <1>4, <1>7 DEF IInv

LEMMA SetNameInv == ASSUME IInv, NEW v \in Value, SetName(v) PROVE IInv'
<1>1. TypeOK'
  BY StepType DEF IInv, Next
<1>2. /\ save = None /\ save' = Saving("Name", v) /\ UNCHANGED <<flash, schema, taskVars>>
      /\ live' = [live EXCEPT !["Name"] = v] /\ lost' = lost \ {"Name"}
  BY DEF SetName, Idle
<1>3. live'["Colour"] = live["Colour"] /\ live'["Name"] = v
  BY <1>2, Fields DEF IInv, TypeOK
<1>4. /\ SaveSound' /\ NothingUnversioned' /\ NotReinterpreted' /\ ColourStored'
      /\ NothingToErase' /\ save' # None /\ save'.field = "Name"
  BY <1>2, <1>3, Fields, SaveBegins
<1>5. Loaded(flash, schema)' = Loaded(flash, schema)
  BY <1>2 DEF Loaded
<1>6. ASSUME NEW g \in Field
      PROVE  live'[g] = Loaded(flash, schema)'[g] \/ OnItsWay(g)' \/ g \in lost'
  <2>1. CASE g = "Name"
    BY <1>4, <2>1 DEF OnItsWay
  <2>2. CASE g # "Name"
    <3>1. live'[g] = live[g] /\ (OnItsWay(g) => OnItsWay(g)')
      BY <1>2, <2>2 DEF IInv, TypeOK, OnItsWay, taskVars
    <3> QED BY <1>2, <1>5, <2>2, <3>1 DEF IInv, SavedOrPending
  <2> QED BY <2>1, <2>2
<1>7. SavedOrPending'
  BY <1>6 DEF SavedOrPending
<1> QED BY <1>1, <1>4, <1>7 DEF IInv

LEMMA SetColourInv == ASSUME IInv, NEW v \in Value, SetColour(v) PROVE IInv'
<1>1. TypeOK'
  BY StepType DEF IInv, Next
<1>2. save = None /\ save' = Saving("Colour", v) /\ UNCHANGED <<flash, schema, taskVars, live, lost>>
  BY DEF SetColour, Idle
<1>3. SaveSound' /\ NothingUnversioned' /\ NotReinterpreted' /\ ColourStored' /\ NothingToErase'
  BY <1>2, Fields, SaveBegins
<1>4. Loaded(flash, schema)' = Loaded(flash, schema)
  BY <1>2 DEF Loaded
<1>5. ASSUME NEW g \in Field PROVE OnItsWay(g) => OnItsWay(g)'
  BY <1>2 DEF OnItsWay, taskVars
<1>6. SavedOrPending'
  BY <1>2, <1>4, <1>5 DEF IInv, SavedOrPending
<1> QED BY <1>1, <1>3, <1>6 DEF IInv

LEMMA WakesInv == ASSUME IInv, TaskWakes PROVE IInv'
<1>1. TypeOK'
  BY StepType DEF IInv, Next, TaskStep
<1>2. UNCHANGED <<flash, schema, save, live, lost>>
  BY DEF TaskWakes
<1>3. SaveSound' /\ NothingUnversioned' /\ NotReinterpreted' /\ ColourStored' /\ NothingToErase'
  BY <1>2, FlashSame
<1>4. Loaded(flash, schema)' = Loaded(flash, schema)
  BY <1>2 DEF Loaded
<1>5. \A g \in Debounced : g \in dirty \/ quiet[g] # None => quiet'[g] # None
  BY DEF TaskWakes
<1>6. ASSUME NEW g \in Field PROVE OnItsWay(g) => OnItsWay(g)'
  BY <1>2, <1>5 DEF OnItsWay
<1>7. SavedOrPending'
  BY <1>2, <1>4, <1>6 DEF IInv, SavedOrPending
<1> QED BY <1>1, <1>3, <1>7 DEF IInv

LEMMA CommitsInv == ASSUME IInv, NEW f \in Debounced, TaskCommits(f) PROVE IInv'
<1>1. TypeOK'
  BY StepType DEF IInv, Next, TaskStep
<1>2. /\ save = None /\ save' = Saving(f, live[f]) /\ UNCHANGED <<flash, schema, live, dirty, wake, lost>>
      /\ quiet' = [quiet EXCEPT ![f] = None]
  BY DEF TaskCommits
<1>3. f \in Field /\ live[f] \in Value
  BY Fields DEF IInv, TypeOK
<1>4. /\ SaveSound' /\ NothingUnversioned' /\ NotReinterpreted' /\ ColourStored'
      /\ NothingToErase' /\ save' # None /\ save'.field = f
  BY <1>2, <1>3, SaveBegins
<1>5. Loaded(flash, schema)' = Loaded(flash, schema)
  BY <1>2 DEF Loaded
<1>6. ASSUME NEW g \in Field
      PROVE  live'[g] = Loaded(flash, schema)'[g] \/ OnItsWay(g)' \/ g \in lost'
  <2>1. CASE g = f
    BY <1>4, <2>1 DEF OnItsWay
  <2>2. CASE g # f
    <3>1. OnItsWay(g) => OnItsWay(g)'
      BY <1>2, <2>2 DEF IInv, TypeOK, OnItsWay
    <3> QED BY <1>2, <1>5, <2>2, <3>1 DEF IInv, SavedOrPending
  <2> QED BY <2>1, <2>2
<1>7. SavedOrPending'
  BY <1>6 DEF SavedOrPending
<1> QED BY <1>1, <1>4, <1>7 DEF IInv

LEMMA WaitsInv == ASSUME IInv, TaskSleeps \/ Advance \/ UNCHANGED vars PROVE IInv'
<1>1. TypeOK'
  BY StepType DEF IInv, Next, TaskStep
<1>2. UNCHANGED <<flash, schema, save, live, lost, dirty, wake>>
  BY DEF TaskSleeps, Advance, vars, taskVars
<1>3. SaveSound' /\ NothingUnversioned' /\ NotReinterpreted' /\ ColourStored' /\ NothingToErase'
  BY <1>2, FlashSame
<1>4. Loaded(flash, schema)' = Loaded(flash, schema)
  BY <1>2 DEF Loaded
<1>5. \A g \in Debounced : quiet[g] # None => quiet'[g] # None
  <2>1. CASE Advance
    <3>1. ASSUME NEW g \in Debounced, quiet[g] # None, quiet[g] < QUIET_MS PROVE quiet[g] + 1 # None
      <4>1. quiet[g] + 1 \in Nat
        BY <3>1 DEF IInv, TypeOK
      <4> QED BY <4>1
    <3> QED BY <2>1, <3>1 DEF Advance
  <2>2. CASE TaskSleeps \/ UNCHANGED vars
    BY <2>2 DEF TaskSleeps, vars, taskVars
  <2> QED BY <2>1, <2>2
<1>6. ASSUME NEW g \in Field PROVE OnItsWay(g) => OnItsWay(g)'
  BY <1>2, <1>5 DEF OnItsWay
<1>7. SavedOrPending'
  BY <1>2, <1>4, <1>6 DEF IInv, SavedOrPending
<1> QED BY <1>1, <1>3, <1>7 DEF IInv

LEMMA RestartInv == ASSUME IInv, Restart PROVE IInv'
<1>1. TypeOK'
  BY StepType DEF IInv, Next
<1>2. SaveSound' /\ NothingUnversioned' /\ NotReinterpreted' /\ NothingToErase'
  BY SaveOver, NotInErase DEF Restart
<1>3. live' = Loaded(flash, schema)'
  BY DEF Restart, Loaded
<1>4. ColourStored' /\ SavedOrPending'
  BY <1>3 DEF ColourStored, SavedOrPending
<1> QED BY <1>1, <1>2, <1>4 DEF IInv

LEMMA StepInv == ASSUME IInv, [Next]_vars PROVE IInv'
BY EraseInv, VersionInv, ItemInv, FailInv, SetDebouncedInv, SetNameInv, SetColourInv,
   WakesInv, CommitsInv, WaitsInv, RestartInv
DEF Next, SaveStep, TaskStep

THEOREM InvAlways == ASSUME Sheltered PROVE Spec => []IInv
<1>1. IInv /\ [Next]_vars => IInv'
  BY StepInv
<1> QED BY <1>1, InitInv, PTL DEF Spec

\* A value in force that a restart would not bring back is noted, quietening
\* down or being written, or its write failed and was counted.
THEOREM NothingForgotten == ASSUME Sheltered PROVE Spec => []SavedOrPending
<1>1. IInv => SavedOrPending
  BY DEF IInv
<1> QED BY <1>1, InvAlways, PTL

\* As long as an erase is not cut short, another build's items are never read,
\* nor on a device that has never been another build's, however it is cut.
THEOREM MigrationWhole == ASSUME Sheltered PROVE Spec => []NotReinterpreted
<1>1. IInv => NotReinterpreted
  BY DEF IInv
<1> QED BY <1>1, InvAlways, PTL

LEMMA StepMaps ==
  ASSUME IInv, [Next]_vars
  PROVE  [Promise!Next]_<<live, Loaded(flash, schema)>>
<1> DEFINE L == Loaded(flash, schema)
<1> SUFFICES Promise!Next \/ (live' = live /\ L' = L)
  OBVIOUS
<1>1. CASE EraseStep \/ VersionStep
  BY <1>1, Unread DEF EraseStep, VersionStep
<1>2. CASE ItemStep
  <2>1. /\ save.field \in Field /\ save.val \in Value
        /\ L' = [L EXCEPT ![save.field] = save.val]
    BY <1>2, ItemRead
  <2>2. CASE save.field = "Colour"
    <3>1. live' = [live EXCEPT ![save.field] = save.val]
      BY <1>2, <2>2 DEF ItemStep
    <3> HIDE DEF L
    <3>2. Promise!Set(save.field, save.val)
      BY <2>1, <3>1 DEF Promise!Set, L
    <3> QED BY <2>1, <3>2 DEF Promise!Next
  <2>3. CASE save.field # "Colour"
    <3>1. live' = live /\ save.val = live[save.field]
      BY <1>2, <2>3 DEF ItemStep, IInv, SaveSound
    <3> HIDE DEF L
    <3>2. Promise!Persist(save.field)
      BY <2>1, <3>1 DEF Promise!Persist, L
    <3> QED BY <2>1, <3>2 DEF Promise!Next
  <2> QED BY <2>2, <2>3
<1>3. ASSUME NEW f \in Debounced, NEW v \in Value, SetDebounced(f, v) PROVE Promise!Set(f, v)
  BY <1>3 DEF SetDebounced, Promise!Set, Loaded
<1>4. ASSUME NEW v \in Value, SetName(v) PROVE Promise!Set("Name", v)
  BY <1>4 DEF SetName, Promise!Set, Loaded
<1>5. CASE Restart
  <2>1. Promise!Restart
    BY <1>5 DEF Restart, Promise!Restart, Loaded
  <2> QED BY <2>1 DEF Promise!Next
<1>6. CASE TaskStep \/ WriteFails \/ Advance \/ (\E v \in Value : SetColour(v)) \/ UNCHANGED vars
  BY <1>6 DEF TaskStep, TaskWakes, TaskCommits, TaskSleeps, WriteFails, Advance, SetColour, vars, Loaded
<1> QED
  BY <1>1, <1>2, <1>3, <1>4, <1>5, <1>6, Fields DEF Next, SaveStep, Promise!Next

\* What is in flash is replaced by the value in force, field by field, and
\* by nothing else: the settings implement WriteBack.
THEOREM PromiseKept == ASSUME Sheltered PROVE Spec => KeepsPromise
<1>1. Init => Promise!Init
  BY InitType DEF Init, Promise!Init, TypeOK
<1>2. IInv /\ [Next]_vars => [Promise!Next]_<<live, Loaded(flash, schema)>>
  BY StepMaps
<1> QED BY <1>1, <1>2, InvAlways, PTL DEF Spec, KeepsPromise, Promise!Spec
=============================================================================
