----------------------------- MODULE Provision -----------------------------
(***************************************************************************)
(* Getting a panel onto a network: the join/portal machine of              *)
(* crates/provision, the driver of firmware/src/provision.rs that feeds it *)
(* and carries out its actions, and the credentials in flash, which        *)
(* crates/settings writes one record at a time.                            *)
(*                                                                         *)
(* The machine is pure: an event and a machine give the next machine, and  *)
(* the actions it asks for can be read off the difference.  The driver is  *)
(* one task, so a step of it is what runs between two of its waits; a save *)
(* is split at each flash write, because power may go between them.        *)
(*                                                                         *)
(* The radio, the networks, the phones and the owner are external: a join  *)
(* with a pair that works on a network that is up succeeds, or comes out   *)
(* as a fluke.  Left out: the screens, the address, and the machine's own  *)
(* attempt deadline, which the driver never reaches (JoinInFlight).        *)
(***************************************************************************)
EXTENDS Integers, Sequences

CONSTANTS
  Creds,           \* the pairs that are ever posted: [ssid, psk]
  Works,           \* the pairs that are right
  None, Off,
  JOIN_ATTEMPTS, TRIAL_ATTEMPTS,
  AP_GRACE, PORTAL_RETRY, LINK_DOWN,  \* Timing, in ticks
  Persists,        \* the persist bits that posts carry
  MaxPeople, MaxPosts, MaxWipes, MaxOutages, MaxFlukes, MaxCuts, MaxFaults,
  MaxTroubles      \* ... and of all of these together

ASSUME ProvisionAssumption ==
  /\ \A c \in Creds : c = [ssid |-> c.ssid, psk |-> c.psk] /\ c.ssid # None
  /\ Works \subseteq Creds /\ None \notin Creds /\ None \notin {"Stored", "Trial"} /\ Off \notin Int
  /\ JOIN_ATTEMPTS \in Nat \ {0} /\ TRIAL_ATTEMPTS \in Nat \ {0}
  /\ AP_GRACE \in Nat /\ PORTAL_RETRY \in Nat /\ LINK_DOWN \in Nat
  /\ AP_GRACE < LINK_DOWN  \* 30 s and 60 s
  /\ Persists \subseteq BOOLEAN
  /\ MaxPeople \in Nat /\ MaxPosts \in Nat /\ MaxWipes \in Nat /\ MaxOutages \in Nat
  /\ MaxFlukes \in Nat /\ MaxCuts \in Nat /\ MaxFaults \in Nat /\ MaxTroubles \in Nat

VARIABLES
  machine,      \* Provisioner
  \* Driver
  held,         \* the pairs in RAM: stored, trial, and the trial's persist bit
  pendingJoin,  \* the join to start next, or None
  phase,        \* "Idle", "Connecting", "Addressing"
  sta,          \* the pair the radio is configured with
  reassociate, linkWasUp,
  writes,       \* the flash writes of the save in progress
  newWifi,      \* NEW_WIFI: the newest post not yet taken, or None
  wipe,         \* BUTTON_WIPE
  \* the world
  flash,        \* the two records: ssid (None when empty) and psk
  station,      \* the pair the radio is associated with, or None
  addressed,    \* DHCP has answered on that association
  net,          \* the networks that are up
  people,       \* phones on the soft-AP
  left,         \* what is left of the bounds
  \* history
  proven,       \* the pairs that have produced an address, ever
  kept          \* a network was saved, and no wipe or save cut short came after it

driverVars == <<pendingJoin, phase, sta, reassociate, linkWasUp>>
radioVars == <<station, addressed>>
worldVars == <<net, people>>
historyVars == <<proven, kept>>
vars == <<machine, held, driverVars, writes, newWifi, wipe, flash, radioVars, worldVars, left,
          historyVars>>

Ssids == {c.ssid : c \in Creds}
Psks == {c.psk : c \in Creds}

Ages(n) == {Off} \cup 0..n
Budget == [posts : 0..MaxPosts, wipes : 0..MaxWipes, outages : 0..MaxOutages,
           flukes : 0..MaxFlukes, cuts : 0..MaxCuts, faults : 0..MaxFaults, all : 0..MaxTroubles]

Trials == [origin : {"Portal", "Online"}, outcome : {"Trying", "Connected", "Failed"}]

ASSUME NoneIsNoTrial == None \notin Trials

Machine ==
  [state : {"Joining", "Online", "Portal", "Trial"},
   hasStored : BOOLEAN,
   target : {"Stored", "Trial"},
   attempt : 0..(JOIN_ATTEMPTS + TRIAL_ATTEMPTS),
   apUp : BOOLEAN,
   apClients : Nat,
   graceAge : Ages(AP_GRACE),       \* since ap_grace_since
   portalAge : 0..PORTAL_RETRY,     \* since portal_since
   downAge : Ages(LINK_DOWN),       \* since link_down_since
   trial : {None} \cup Trials,
   sticky : BOOLEAN]                \* trial_failed_sticky

TypeOK ==
  /\ machine \in Machine
  /\ held \in [stored : Creds \cup {None}, trial : Creds \cup {None}, persist : BOOLEAN]
  /\ pendingJoin \in {None, "Stored", "Trial"}
  /\ phase \in {"Idle", "Connecting", "Addressing"}
  /\ sta \in Creds \cup {None} /\ reassociate \in BOOLEAN /\ linkWasUp \in BOOLEAN
  /\ writes \in Seq([key : {"ssid"}, to : Ssids \cup {None}]
                    \cup [key : {"psk"}, to : Psks \cup {None}])
  /\ newWifi \in {None} \cup [cred : Creds, persist : BOOLEAN]
  /\ wipe \in BOOLEAN
  /\ flash \in [ssid : Ssids \cup {None}, psk : Psks \cup {None}]
  /\ station \in Creds \cup {None} /\ addressed \in BOOLEAN
  /\ net \subseteq Ssids /\ people \in 0..MaxPeople /\ left \in Budget
  /\ proven \subseteq Creds /\ kept \in BOOLEAN

\* The bounds: what happens to a device from outside happens only so often.
Spend(kind) ==
  /\ left[kind] > 0 /\ left.all > 0
  /\ left' = [left EXCEPT ![kind] = @ - 1, !.all = @ - 1]

---------------------------------------------------------------------------
(* The machine: one operator per transition.                               *)

StartJoin(m, which) == [m EXCEPT !.state = "Joining", !.target = which, !.attempt = 1]

EnterPortal(m) ==
  [m EXCEPT !.state = "Portal", !.portalAge = 0, !.graceAge = Off,
            !.apUp = TRUE, !.apClients = IF m.apUp THEN @ ELSE 0]

\* step(Boot) of a machine that has just been made: begin.
Booted(hasStored) ==
  LET new == [state |-> "Portal", hasStored |-> hasStored, target |-> "Stored", attempt |-> 0,
              apUp |-> FALSE, apClients |-> 0, graceAge |-> Off, portalAge |-> 0,
              downAge |-> Off, trial |-> None, sticky |-> FALSE]
  IN  IF hasStored THEN StartJoin(new, "Stored") ELSE EnterPortal(new)

BeginTrial(m, origin) ==
  [m EXCEPT !.trial = [origin |-> origin, outcome |-> "Trying"], !.sticky = FALSE,
            !.state = "Trial", !.target = "Trial", !.attempt = 1,
            !.downAge = IF origin = "Online" THEN Off ELSE @]

\* Where a post that arrives now came from, as the machine judges it.
PostedFrom(m) ==
  CASE m.state = "Portal" -> "Portal"
    [] m.state = "Trial" -> m.trial.origin
    [] OTHER -> "Online"

CredentialsPosted(m) == BeginTrial(m, PostedFrom(m))

\* The states in which a post or a wipe first stops the join in flight.
StopsJoin(m) == m.state \in {"Joining", "Trial"}

FailTrial(m) ==
  LET failed == [m EXCEPT !.trial.outcome = "Failed"]
      stuck == [failed EXCEPT !.sticky = TRUE]
  IN  CASE m.trial.origin = "Portal" -> EnterPortal(failed)
        [] m.trial.origin = "Online" /\ m.hasStored -> StartJoin(stuck, "Stored")
        [] OTHER -> EnterPortal(stuck)

Retries(m, reason) ==
  IF m.state = "Trial"
  THEN reason # "AuthError" /\ m.attempt < TRIAL_ATTEMPTS
  ELSE m.attempt < JOIN_ATTEMPTS

AttemptUncounted(m, reason) ==
  CASE Retries(m, reason) -> m
    [] ~Retries(m, reason) /\ m.state = "Trial" -> FailTrial(m)
    [] OTHER -> EnterPortal(m)

\* attempt_failed
AttemptFailed(m, reason) ==
  CASE Retries(m, reason) -> [m EXCEPT !.attempt = @ + 1]
    [] ~Retries(m, reason) /\ m.state = "Trial" -> FailTrial(m)
    [] OTHER -> EnterPortal(m)

\* Mutant: success is written over whatever trial there has been.
OnlineSaysConnected(m) ==
  [m EXCEPT !.state = "Online", !.downAge = Off,
            !.hasStored = @ \/ m.target = "Trial",
            !.trial = IF m.trial # None THEN [@ EXCEPT !.outcome = "Connected"] ELSE @,
            !.graceAge = IF m.apUp THEN 0 ELSE Off]

\* go_online
GoOnline(m) ==
  [m EXCEPT !.state = "Online", !.downAge = Off,
            !.hasStored = @ \/ m.target = "Trial",
            !.trial = IF m.state = "Trial" THEN [@ EXCEPT !.outcome = "Connected"] ELSE @,
            !.graceAge = IF m.apUp THEN 0 ELSE Off]

ButtonWipe(m) ==
  EnterPortal([m EXCEPT !.hasStored = FALSE, !.trial = None, !.sticky = FALSE, !.downAge = Off])

\* ApClientAssociated, ApClientLeft.
Counted(m, change) == [m EXCEPT !.apClients = IF @ + change < 0 THEN 0 ELSE @ + change]

Older(age, limit) == IF age = Off \/ age = limit THEN age ELSE age + 1

\* A second passes; the driver reports an edge of the link first.
LinkEdge(m, up, wasUp) ==
  CASE m.state = "Online" /\ up /\ ~wasUp -> [m EXCEPT !.downAge = Off]
    [] m.state = "Online" /\ ~up /\ wasUp /\ m.downAge = Off -> [m EXCEPT !.downAge = 0]
    [] OTHER -> m

Aged(m) == [m EXCEPT !.graceAge = Older(@, AP_GRACE), !.downAge = Older(@, LINK_DOWN),
                     !.portalAge = IF m.state = "Portal" /\ @ < PORTAL_RETRY THEN @ + 1 ELSE @]

\* step(Tick) in Online: the soft-AP's grace ends, the link has been gone too long.
GraceEnds(m) ==
  IF m.graceAge = AP_GRACE THEN [m EXCEPT !.graceAge = Off, !.apUp = FALSE, !.apClients = 0] ELSE m

LinkLost(m) ==
  IF m.downAge = LINK_DOWN THEN StartJoin([m EXCEPT !.downAge = Off], "Stored") ELSE m

PortalStays(m) == m

\* step(Tick) in Portal: the router may be back, and nobody is counted here.
PortalRetry(m) ==
  IF m.hasStored /\ m.apClients = 0 /\ m.portalAge = PORTAL_RETRY THEN StartJoin(m, "Stored") ELSE m

Ticked(m) ==
  CASE m.state = "Online" -> LinkLost(GraceEnds(m))
    [] m.state = "Portal" -> PortalRetry(m)
    [] OTHER -> m

\* trial_is_current: whether the last trial is what the page should hear of.
TrialIsCurrent(m) ==
  /\ m.trial # None
  /\ m.state \in {"Trial", "Portal"} \/ m.sticky \/ (m.state = "Online" /\ m.apUp)

\* trial_view: without a trial to tell of, the empty form.
PageSays == IF TrialIsCurrent(machine) THEN machine.trial.outcome ELSE "Form"

---------------------------------------------------------------------------
(* The credentials in flash.                                               *)

Put(key, to) == [key |-> key, to |-> to]

SaveNameFirst(cred) == <<Put("ssid", cred.ssid), Put("psk", cred.psk)>>

SaveWithoutName(cred) == <<Put("ssid", None), Put("psk", cred.psk)>>

\* save_wifi: the SSID is the commit point, so it goes first and comes last.
SaveWrites(cred) ==
  CASE flash = cred -> <<>>
    [] flash # cred /\ flash.ssid # None ->
         <<Put("ssid", None), Put("psk", cred.psk), Put("ssid", cred.ssid)>>
    [] flash # cred /\ flash.ssid = None -> <<Put("psk", cred.psk), Put("ssid", cred.ssid)>>

\* clear_wifi
ClearWrites ==
  CASE flash.ssid # None /\ flash.psk # None -> <<Put("ssid", None), Put("psk", None)>>
    [] flash.ssid # None /\ flash.psk = None -> <<Put("ssid", None)>>
    [] flash.ssid = None /\ flash.psk # None -> <<Put("psk", None)>>
    [] OTHER -> <<>>

\* load
StoredPair == IF flash.ssid = None THEN None ELSE flash

Write ==
  /\ writes # <<>>
  /\ flash' = [flash EXCEPT ![Head(writes).key] = Head(writes).to]
  /\ writes' = Tail(writes)
  /\ kept' = (kept \/ (writes' = <<>> /\ flash'.ssid # None))
  /\ UNCHANGED <<machine, held, driverVars, newWifi, wipe, radioVars, worldVars, left, proven>>

\* A write fails: save_wifi and clear_wifi return at once, and the driver
\* goes on with what it has in RAM.
WriteFails ==
  /\ writes # <<>> /\ Spend("faults")
  /\ writes' = <<>> /\ kept' = FALSE
  /\ UNCHANGED <<machine, held, driverVars, newWifi, wipe, flash, radioVars, worldVars, proven>>

---------------------------------------------------------------------------
(* The driver.                                                             *)

\* The top of provision_task's loop.
AtTop == phase = "Idle" /\ writes = <<>>
IdleBeforeReassociating == AtTop /\ pendingJoin = None

\* ... and with nothing to do but wait for four things.
Idle == AtTop /\ pendingJoin = None /\ ~reassociate
\* Waiting where a post or the button is heard.
Listening == Idle \/ phase # "Idle"

\* What carry_out does about a new machine, apart from the flash: StartJoin,
\* RaiseAp and DropAp.  The soft-AP coming or going restarts the radio.
CarryOut(m, join) ==
  /\ machine' = m
  /\ phase' = "Idle"
  /\ pendingJoin' = join
  /\ reassociate' = (reassociate \/ (machine.apUp /\ ~m.apUp))
  /\ people' = IF machine.apUp = m.apUp THEN people ELSE 0

WantedOnce(m) == IF StopsJoin(m) /\ m.attempt = 1 THEN m.target ELSE None

\* The join the machine asks for: every step into these states asks for one.
Wanted(m) == IF StopsJoin(m) THEN m.target ELSE None

Restarts(m) == machine.apUp # m.apUp

Dissociate == station' = None /\ addressed' = FALSE

DissociateIf(condition) == IF condition THEN Dissociate ELSE UNCHANGED radioVars

\* run_join, up to its wait.
RunJoin ==
  /\ AtTop /\ pendingJoin # None
  /\ sta' = IF pendingJoin = "Stored" THEN held.stored ELSE held.trial
  /\ pendingJoin' = None /\ phase' = "Connecting"
  /\ Dissociate
  /\ UNCHANGED <<machine, held, reassociate, linkWasUp, writes, newWifi, wipe, flash, worldVars, left,
                 historyVars>>

Joinable(cred) == cred \in Works /\ cred.ssid \in net

Associated ==
  /\ phase = "Connecting" /\ Joinable(sta)
  /\ station' = sta /\ addressed' = FALSE /\ phase' = "Addressing"
  /\ UNCHANGED <<machine, held, pendingJoin, sta, reassociate, linkWasUp, writes, newWifi, wipe, flash,
                 worldVars, left, historyVars>>

\* The machine is told that the attempt failed.
Failed(reason) ==
  LET m == AttemptFailed(machine, reason)
  IN  /\ CarryOut(m, Wanted(m))
      /\ DissociateIf(Restarts(m))
      /\ UNCHANGED <<held, sta, linkWasUp, writes, newWifi, wipe, flash, net, historyVars>>

\* fail_reason, of what keeps this pair from joining.
Reason(cred) == IF cred.ssid \in net THEN "AuthError" ELSE "NetworkNotFound"

ConnectFails ==
  /\ phase = "Connecting" /\ ~Joinable(sta)
  /\ Failed(Reason(sta))
  /\ UNCHANGED left

\* The radio gives up on any pair, for any reason, or gives no answer in time.
ConnectFluke ==
  /\ phase = "Connecting" /\ Spend("flukes")
  /\ \E reason \in {"AuthError", "NetworkNotFound", "Other"} : Failed(reason)

\* await_address: with one, Joined; the save that follows a trial is under way.
AddressComes ==
  /\ phase = "Addressing" /\ station # None
  /\ addressed' = TRUE /\ linkWasUp' = TRUE /\ proven' = proven \cup {station}
  /\ CarryOut(GoOnline(machine), None)
  /\ IF machine.target = "Trial"
     THEN /\ held' = [held EXCEPT !.stored = held.trial]
          /\ writes' = IF held.persist THEN SaveWrites(held.trial) ELSE <<>>
     ELSE UNCHANGED <<held, writes>>
  /\ UNCHANGED <<sta, newWifi, wipe, flash, station, net, left, kept>>

\* DHCP_WAIT passes: the association went meanwhile, or nobody answered.
NoAddress ==
  /\ phase = "Addressing"
  /\ \/ station = None /\ UNCHANGED left
     \/ station # None /\ Spend("flukes")
  /\ Failed("Other")

\* posted
Posted ==
  LET m == CredentialsPosted(machine)
  IN  /\ Listening /\ newWifi # None
      /\ held' = [held EXCEPT !.trial = newWifi.cred, !.persist = newWifi.persist]
      /\ newWifi' = None
      /\ CarryOut(m, Wanted(m))
      /\ DissociateIf(StopsJoin(machine))
      /\ UNCHANGED <<sta, linkWasUp, writes, wipe, flash, net, left, historyVars>>

Forget(h) == [h EXCEPT !.stored = None, !.trial = None, !.persist = TRUE]

\* wiped
Wiped ==
  LET m == ButtonWipe(machine)
  IN  /\ Listening /\ wipe
      /\ wipe' = FALSE /\ kept' = FALSE
      /\ held' = Forget(held) /\ writes' = ClearWrites
      /\ CarryOut(m, Wanted(m))
      /\ DissociateIf(StopsJoin(machine) \/ Restarts(m))
      /\ UNCHANGED <<sta, linkWasUp, newWifi, flash, net, left, proven>>

LinkUp == station # None /\ addressed

Tick ==
  LET m == Ticked(LinkEdge(Aged(machine), LinkUp, linkWasUp))
  IN  /\ Idle
      /\ CarryOut(m, Wanted(m))
      /\ linkWasUp' = LinkUp
      /\ DissociateIf(Restarts(m))
      /\ UNCHANGED <<held, sta, writes, newWifi, wipe, flash, net, left, historyVars>>

\* The radio was restarted under an online station.
Reassociate ==
  /\ AtTop /\ pendingJoin = None /\ reassociate
  /\ reassociate' = FALSE
  /\ addressed' = FALSE
  /\ \/ Joinable(sta) /\ station' = sta /\ UNCHANGED left
     \/ ~Joinable(sta) /\ station' = None /\ UNCHANGED left
     \/ Joinable(sta) /\ Spend("flukes") /\ station' = None
  /\ UNCHANGED <<machine, held, pendingJoin, phase, sta, linkWasUp, writes, newWifi, wipe, flash,
                 worldVars, historyVars>>

---------------------------------------------------------------------------
(* The world.                                                              *)

\* POST /api/v1/wifi, POST /setup, Improv or SET_WIFI, the newest winning;
\* only SET_WIFI, from the LAN, may ask that the pair not be kept.
Post ==
  /\ Spend("posts")
  /\ \E c \in Creds, persist \in Persists :
       (persist \/ LinkUp) /\ newWifi' = [cred |-> c, persist |-> persist]
  /\ UNCHANGED <<machine, held, driverVars, writes, wipe, flash, radioVars, worldVars, historyVars>>

\* Five seconds on the button.
Hold ==
  /\ Spend("wipes")
  /\ wipe' = TRUE
  /\ UNCHANGED <<machine, held, driverVars, writes, newWifi, flash, radioVars, worldVars, historyVars>>

\* A phone comes to the soft-AP or leaves it.  The event is seen only by a
\* driver that is waiting for it.
PhoneMoves(change) ==
  /\ machine.apUp /\ people + change \in 0..MaxPeople
  /\ people' = people + change
  /\ machine' = IF Idle THEN Counted(machine, change) ELSE machine
  /\ UNCHANGED <<held, driverVars, writes, newWifi, wipe, flash, radioVars, net, left, historyVars>>

NetworkGoes ==
  /\ Spend("outages")
  /\ \E s \in net :
       /\ net' = net \ {s}
       /\ DissociateIf(station # None /\ station.ssid = s)
  /\ UNCHANGED <<machine, held, driverVars, writes, newWifi, wipe, flash, people, historyVars>>

NetworkReturns ==
  /\ \E s \in Ssids \ net : net' = net \cup {s}
  /\ UNCHANGED <<machine, held, driverVars, writes, newWifi, wipe, flash, radioVars, people, left,
                 historyVars>>

\* DHCP answers when nobody is waiting for it.
LateAddress ==
  /\ station # None /\ ~addressed /\ phase # "Addressing"
  /\ addressed' = TRUE
  /\ UNCHANGED <<machine, held, driverVars, writes, newWifi, wipe, flash, station, worldVars, left,
                 historyVars>>

\* A reset or a power cut; main loads what flash holds and provision_task boots.
Restart ==
  /\ Spend("cuts")
  /\ machine' = Booted(flash.ssid # None)
  /\ held' = [stored |-> StoredPair, trial |-> None, persist |-> TRUE]
  /\ pendingJoin' = Wanted(machine')
  /\ phase' = "Idle" /\ sta' = None /\ reassociate' = FALSE /\ linkWasUp' = FALSE
  /\ writes' = <<>> /\ newWifi' = None /\ wipe' = FALSE
  /\ Dissociate /\ people' = 0
  /\ kept' = (kept /\ writes = <<>>)
  /\ UNCHANGED <<flash, net, proven>>

---------------------------------------------------------------------------

Full == [posts |-> MaxPosts, wipes |-> MaxWipes, outages |-> MaxOutages, flukes |-> MaxFlukes,
         cuts |-> MaxCuts, faults |-> MaxFaults,
         all |-> MaxTroubles]

\* A device out of its box, or one that has been on a network that works.
Init ==
  /\ flash \in {[ssid |-> None, psk |-> None]} \cup Works
  /\ proven = (IF flash.ssid = None THEN {} ELSE {flash})
  /\ held = [stored |-> StoredPair, trial |-> None, persist |-> TRUE]
  /\ machine = Booted(flash.ssid # None)
  /\ pendingJoin = Wanted(machine)
  /\ phase = "Idle" /\ sta = None /\ reassociate = FALSE /\ linkWasUp = FALSE
  /\ writes = <<>> /\ newWifi = None /\ wipe = FALSE
  /\ station = None /\ addressed = FALSE
  /\ net = Ssids /\ people = 0 /\ left = Full /\ kept = (flash.ssid # None)

Driver ==
  \/ RunJoin \/ Associated \/ ConnectFails \/ ConnectFluke \/ AddressComes \/ NoAddress
  \/ Posted \/ Wiped \/ Tick \/ Reassociate \/ Write \/ WriteFails

World ==
  \/ Post \/ Hold \/ PhoneMoves(1) \/ PhoneMoves(-1) \/ NetworkGoes \/ NetworkReturns
  \/ LateAddress \/ Restart

Next == Driver \/ World

Spec == Init /\ [][Next]_vars

\* The executor runs the driver, its timers fire, and a radio answers.
Fairness ==
  /\ WF_vars(RunJoin) /\ WF_vars(Associated \/ ConnectFails) /\ WF_vars(AddressComes \/ NoAddress)
  /\ WF_vars(Reassociate) /\ WF_vars(Write) /\ WF_vars(Tick) /\ WF_vars(LateAddress)
  /\ WF_vars(Posted) /\ WF_vars(Wiped)

FairSpec == Spec /\ Fairness

---------------------------------------------------------------------------
(* What must hold.                                                         *)

\* However power cuts, failing writes and posts fall, flash never names a
\* network that this device has not been on with exactly that key: nothing is
\* saved before it has joined, and no two pairs are mixed (save_wifi).
FlashIsProven == flash.ssid # None => flash \in proven

\* Only a wipe, or a save cut short, makes a device forget a network it had:
\* no number of posts that do not join costs it the way back.
NeverForgets == kept => flash.ssid # None \/ writes # <<>>

\* The machine, which never sees a credential, and the driver, which holds
\* them, agree on which there are; so a join that is asked for can be run.
HeldAgrees ==
  /\ machine.hasStored <=> held.stored # None
  /\ machine.state = "Trial" => held.trial # None
  /\ pendingJoin = "Trial" => held.trial # None
  /\ pendingJoin = "Stored" => held.stored # None

\* The machine is waiting for a join exactly while the driver has one to start
\* or under way: it is never left waiting for an answer nobody will give.
JoinInFlight == StopsJoin(machine) <=> (pendingJoin # None \/ phase # "Idle")

\* The radio only ever joins a network the device still holds: a wipe or a
\* newer post is not followed by a join of what it replaced.
JoinsOnlyHeld == [][station' # station /\ station' # None => station' \in {held.stored, held.trial}]_vars

Trying == PageSays = "Trying"

\* A post from the LAN, whose page is reloaded from wherever the device goes next.
FailedFromTheLan(m) ==
  m.trial # None /\ m.trial.origin = "Online" /\ m.trial.outcome = "Failed"

\* The setup page (and GET /api/v1/wifi) hears "trying" exactly while a pair is
\* being tried.  It hears "connected" only of the pair posted last, after that
\* pair has produced an address and become what the device goes back to, and
\* only with the device online or in its portal: there it is a stale answer, the
\* network having gone since, and not what trial_view promises (README, 5).  A
\* post from the LAN that failed is told so, whatever the device has done since,
\* until the next post, wipe or restart.  And the device is online on what it
\* holds, however posts and wipes have crossed the attempts.
AnswerIsHonest ==
  /\ PageSays = "Trying" <=> machine.state = "Trial"
  /\ PageSays = "Connected" =>
       /\ held.trial \in proven /\ held.stored = held.trial
       /\ machine.state \in {"Online", "Portal"}
  /\ FailedFromTheLan(machine) => PageSays = "Failed"
  /\ machine.state = "Online" => held.stored \in proven /\ sta = held.stored

\* Every post gets its answer: connected, failed, or wiped away.
PostAnswered == Trying ~> ~Trying

Ready(nobodyThere) ==
  /\ machine.hasStored /\ Joinable(held.stored) /\ nobodyThere

\* A device whose stored network is there, and which counts no phone on its
\* portal, ends up on it.
ReturnsOnline == <>[]Ready(machine.apClients = 0) => <>[](machine.state = "Online" /\ LinkUp)

\* ... and so it should with no phone on its portal (protocol-v1.md 8.3: "The
\* portal is never terminal"; "it fires on the first tick after the last
\* client leaves").
PortalIsNeverTerminal == <>[]Ready(people = 0) => <>[](machine.state = "Online" /\ LinkUp)
=============================================================================
