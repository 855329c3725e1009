--------------------------- MODULE ProvisionProofs ---------------------------
(***************************************************************************)
(* Theorems about provisioning, module Provision: for any pairs of         *)
(* credentials, any networks, any number of phones, posts, wipes, outages, *)
(* cuts and failing writes, and any timers that keep the order of the      *)
(* soft-AP's grace and the link's.                                         *)
(***************************************************************************)
EXTENDS Provision, TLAPS

(***************************************************************************)
(* The machine.                                                            *)
(***************************************************************************)

\* What its state says of the rest of it.  The last part is why the soft-AP
\* never comes down in the tick in which a lost link starts a join.
Coherent(m) ==
  /\ m.state = "Joining" => m.target = "Stored" /\ m.hasStored
  /\ m.state = "Trial" => m.target = "Trial" /\ m.trial \in Trials
  /\ m.state = "Online" => m.hasStored
  /\ m.state = "Online" /\ m.graceAge # Off /\ m.downAge # Off => m.downAge < m.graceAge
  /\ m.state = "Online" /\ m.graceAge # Off => m.graceAge = 0 \/ m.graceAge < AP_GRACE

Whole(m) == m \in Machine /\ Coherent(m)

LEMMA Constants ==
  /\ JOIN_ATTEMPTS \in Nat \ {0} /\ TRIAL_ATTEMPTS \in Nat \ {0}
  /\ AP_GRACE \in Nat /\ PORTAL_RETRY \in Nat /\ LINK_DOWN \in Nat /\ AP_GRACE < LINK_DOWN
  /\ Off \notin Int
BY ProvisionAssumption

LEMMA StartJoinWhole ==
  ASSUME NEW m \in Machine, m.hasStored
  PROVE  LET n == StartJoin(m, "Stored")
         IN  /\ Whole(n) /\ n.state = "Joining" /\ n.target = "Stored" /\ n.hasStored /\ n.apUp = m.apUp
<1> DEFINE n == StartJoin(m, "Stored")
<1>1. n = [m EXCEPT !.state = "Joining", !.target = "Stored", !.attempt = 1]
  BY DEF StartJoin
<1>2. 1 \in 0..(JOIN_ATTEMPTS + TRIAL_ATTEMPTS)
  BY Constants
<1>3. n \in Machine
  BY <1>1, <1>2 DEF Machine
<1>4. n.state = "Joining" /\ n.target = "Stored" /\ n.hasStored /\ n.apUp = m.apUp
  BY <1>1 DEF Machine
<1> QED BY <1>3, <1>4 DEF Whole, Coherent

LEMMA EnterPortalWhole ==
  ASSUME NEW m \in Machine
  PROVE  LET n == EnterPortal(m)
         IN  /\ Whole(n) /\ n.state = "Portal" /\ n.hasStored = m.hasStored /\ n.apUp
<1> DEFINE n == EnterPortal(m)
<1>1. n = [m EXCEPT !.state = "Portal", !.portalAge = 0, !.graceAge = Off,
                    !.apUp = TRUE, !.apClients = IF m.apUp THEN @ ELSE 0]
  BY DEF EnterPortal
<1>2. 0 \in 0..PORTAL_RETRY /\ (IF m.apUp THEN m.apClients ELSE 0) \in Nat
  BY Constants DEF Machine
<1>3. n \in Machine
  BY <1>1, <1>2 DEF Machine, Ages
<1>4. n.state = "Portal" /\ n.hasStored = m.hasStored /\ n.apUp
  BY <1>1 DEF Machine
<1> QED BY <1>3, <1>4 DEF Whole, Coherent

LEMMA BootedWhole ==
  ASSUME NEW stored \in BOOLEAN
  PROVE  LET n == Booted(stored)
         IN  /\ Whole(n) /\ n.hasStored = stored
             /\ n.state = IF stored THEN "Joining" ELSE "Portal"
<1> DEFINE new == [state |-> "Portal", hasStored |-> stored, target |-> "Stored", attempt |-> 0,
              apUp |-> FALSE, apClients |-> 0, graceAge |-> Off, portalAge |-> 0,
              downAge |-> Off, trial |-> None, sticky |-> FALSE]
<1>1. new \in Machine /\ new.hasStored = stored
  BY Constants DEF Machine, Ages
<1>2. Booted(stored) = IF stored THEN StartJoin(new, "Stored") ELSE EnterPortal(new)
  BY DEF Booted
<1> HIDE DEF new
<1> QED BY <1>1, <1>2, StartJoinWhole, EnterPortalWhole

LEMMA PostedWhole ==
  ASSUME NEW m, Whole(m)
  PROVE  LET n == CredentialsPosted(m)
         IN  /\ Whole(n) /\ n.state = "Trial" /\ n.hasStored = m.hasStored /\ n.apUp = m.apUp
<1>1. PostedFrom(m) \in {"Portal", "Online"}
  BY DEF PostedFrom, Whole, Coherent, Trials
<1> DEFINE n == CredentialsPosted(m)
           trial == [origin |-> PostedFrom(m), outcome |-> "Trying"]
           down == IF PostedFrom(m) = "Online" THEN Off ELSE m.downAge
<1>2. n = [m EXCEPT !.trial = trial, !.sticky = FALSE, !.state = "Trial", !.target = "Trial",
                    !.attempt = 1, !.downAge = down]
  BY DEF CredentialsPosted, BeginTrial
<1>3. trial \in Trials /\ 1 \in 0..(JOIN_ATTEMPTS + TRIAL_ATTEMPTS)
  BY <1>1, Constants DEF Trials
<1>4. down \in Ages(LINK_DOWN)
  BY DEF Ages, Whole, Machine
<1> HIDE DEF trial, down
<1>5. n \in Machine
  BY <1>2, <1>3, <1>4 DEF Machine, Whole
<1>6. /\ n.state = "Trial" /\ n.target = "Trial" /\ n.trial \in Trials
      /\ n.hasStored = m.hasStored /\ n.apUp = m.apUp
  BY <1>2, <1>3 DEF Machine, Whole
<1> QED BY <1>5, <1>6 DEF Whole, Coherent

\* A failed attempt leaves a machine that tries again, the same pair or the
\* stored one, or a portal.
LEMMA FailedWhole ==
  ASSUME NEW m, Whole(m), StopsJoin(m), NEW reason
  PROVE  LET n == AttemptFailed(m, reason)
         IN  /\ Whole(n) /\ n.hasStored = m.hasStored /\ (m.apUp => n.apUp)
             /\ n.state \in {"Joining", "Trial", "Portal"}
             /\ n.state = "Trial" => m.state = "Trial"
<1>1. CASE Retries(m, reason)
  BY <1>1, Constants DEF AttemptFailed, Retries, Whole, Coherent, Machine, StopsJoin
<1>2. CASE ~Retries(m, reason) /\ m.state = "Trial"
  <2> DEFINE failed == [m EXCEPT !.trial.outcome = "Failed"]
             stuck == [failed EXCEPT !.sticky = TRUE]
  <2>1. /\ failed \in Machine /\ stuck \in Machine
        /\ failed.hasStored = m.hasStored /\ stuck.hasStored = m.hasStored
        /\ failed.apUp = m.apUp /\ stuck.apUp = m.apUp
    BY <1>2 DEF Whole, Coherent, Machine, Trials
  <2>2. AttemptFailed(m, reason) = CASE m.trial.origin = "Portal" -> EnterPortal(failed)
               [] m.trial.origin = "Online" /\ m.hasStored -> StartJoin(stuck, "Stored")
               [] OTHER -> EnterPortal(stuck)
    BY <1>2 DEF AttemptFailed, FailTrial
  <2>3. m.hasStored \in BOOLEAN /\ m.trial.origin \in {"Portal", "Online"}
    BY <1>2 DEF Whole, Coherent, Machine, Trials
  <2> HIDE DEF failed, stuck
  <2>4. CASE m.trial.origin = "Portal"
    <3>1. AttemptFailed(m, reason) = EnterPortal(failed)
      BY <2>2, <2>4
    <3> QED BY <2>1, <3>1, EnterPortalWhole
  <2>5. CASE m.trial.origin = "Online" /\ m.hasStored
    <3>1. AttemptFailed(m, reason) = StartJoin(stuck, "Stored")
      BY <2>2, <2>5
    <3> QED BY <2>1, <2>5, <3>1, StartJoinWhole
  <2>6. CASE m.trial.origin = "Online" /\ ~m.hasStored
    <3>1. AttemptFailed(m, reason) = EnterPortal(stuck)
      BY <2>2, <2>6
    <3> QED BY <2>1, <3>1, EnterPortalWhole
  <2> QED BY <2>3, <2>4, <2>5, <2>6
<1>3. CASE ~Retries(m, reason) /\ m.state # "Trial"
  <2>1. AttemptFailed(m, reason) = EnterPortal(m)
    BY <1>3 DEF AttemptFailed
  <2> QED BY <2>1, EnterPortalWhole DEF Whole
<1> QED BY <1>1, <1>2, <1>3

LEMMA OnlineWhole ==
  ASSUME NEW m, Whole(m), StopsJoin(m)
  PROVE  LET n == GoOnline(m)
         IN  /\ Whole(n) /\ n.state = "Online" /\ n.hasStored /\ n.apUp = m.apUp
<1> DEFINE n == GoOnline(m)
           trial == IF m.state = "Trial" THEN [m.trial EXCEPT !.outcome = "Connected"] ELSE m.trial
           grace == IF m.apUp THEN 0 ELSE Off
           stored == m.hasStored \/ m.target = "Trial"
<1>1. n = [m EXCEPT !.state = "Online", !.downAge = Off, !.hasStored = stored,
                    !.trial = trial, !.graceAge = grace]
  BY DEF GoOnline
<1>2. trial \in {None} \cup Trials
  BY DEF Whole, Coherent, Machine, Trials
<1>3. grace \in Ages(AP_GRACE) /\ Off \in Ages(LINK_DOWN)
  BY Constants DEF Ages
<1>4. stored = TRUE
  BY DEF Whole, Coherent, StopsJoin, Machine
<1>7. grace = 0 \/ grace = Off
  OBVIOUS
<1> HIDE DEF trial, grace, stored
<1>5. n \in Machine
  BY <1>1, <1>2, <1>3, <1>4 DEF Machine, Whole
<1>6. /\ n.state = "Online" /\ n.hasStored /\ n.apUp = m.apUp
      /\ n.downAge = Off /\ n.graceAge = grace
  BY <1>1, <1>4 DEF Machine, Whole
<1> QED BY <1>5, <1>6, <1>7 DEF Whole, Coherent

LEMMA WipeWhole ==
  ASSUME NEW m \in Machine
  PROVE  LET n == ButtonWipe(m)
         IN  /\ Whole(n) /\ n.state = "Portal" /\ ~n.hasStored /\ n.apUp
<1> DEFINE bare == [m EXCEPT !.hasStored = FALSE, !.trial = None, !.sticky = FALSE, !.downAge = Off]
<1>1. bare \in Machine /\ bare.hasStored = FALSE
  BY DEF Machine, Ages
<1>2. ButtonWipe(m) = EnterPortal(bare)
  BY DEF ButtonWipe
<1> HIDE DEF bare
<1> QED BY <1>1, <1>2, EnterPortalWhole

LEMMA CountedWhole ==
  ASSUME NEW m, Whole(m), NEW change \in {-1, 1}
  PROVE  LET n == Counted(m, change)
         IN  /\ Whole(n) /\ n.hasStored = m.hasStored /\ n.state = m.state /\ n.target = m.target
BY DEF Counted, Whole, Coherent, Machine

\* While online, a tick that ends the grace does not end the link's patience.
LEMMA OnlineTick ==
  ASSUME NEW m, Whole(m), m.state = "Online", NEW up \in BOOLEAN, NEW was \in BOOLEAN
  PROVE  LET n == Ticked(LinkEdge(Aged(m), up, was))
         IN  /\ Whole(n) /\ n.hasStored
             /\ n.state = "Online" \/ (n.state = "Joining" /\ n.apUp = m.apUp)
<1> DEFINE a == Aged(m)
           e == LinkEdge(a, up, was)
           g == GraceEnds(e)
           grace == Older(m.graceAge, AP_GRACE)
           down == Older(m.downAge, LINK_DOWN)
<1>1. a = [m EXCEPT !.graceAge = grace, !.downAge = down, !.portalAge = m.portalAge]
  BY DEF Aged, Whole, Machine
<1>2. /\ grace \in Ages(AP_GRACE) /\ down \in Ages(LINK_DOWN)
      /\ grace = Off <=> m.graceAge = Off
      /\ grace # Off => grace = AP_GRACE \/ (grace = m.graceAge + 1 /\ grace < AP_GRACE)
      /\ grace # Off /\ down # Off => down < grace
  BY Constants DEF Older, Ages, Whole, Machine, Coherent
<1>3. /\ a \in Machine /\ a.state = "Online" /\ a.hasStored /\ a.apUp = m.apUp
      /\ a.graceAge = grace /\ a.downAge = down
  BY <1>1, <1>2 DEF Whole, Coherent, Machine
<1> HIDE DEF a
<1>4. PICK d \in {down, Off, 0} : e = [a EXCEPT !.downAge = d] /\ (d = 0 => down \in {0, Off})
  <2>1. CASE up /\ ~was
    BY <1>3, <2>1, Constants DEF LinkEdge
  <2>2. CASE ~up /\ was /\ down = Off
    BY <1>3, <2>2 DEF LinkEdge
  <2>3. CASE ~(up /\ ~was) /\ ~(~up /\ was /\ down = Off)
    <3>1. e = a
      BY <1>3, <2>3 DEF LinkEdge
    <3>2. a = [a EXCEPT !.downAge = down]
      BY <1>3 DEF Machine
    <3> QED BY <3>1, <3>2
  <2> QED BY <2>1, <2>2, <2>3
<1>5. /\ e \in Machine /\ e.state = "Online" /\ e.hasStored /\ e.apUp = m.apUp
      /\ e.graceAge = grace /\ e.downAge = d
  BY <1>2, <1>3, <1>4, Constants DEF Machine, Ages
<1>6. d = LINK_DOWN => grace = Off
  BY <1>2, <1>4, Constants DEF Ages
<1> HIDE DEF e, grace, down
<1>7. /\ g \in Machine /\ g.state = "Online" /\ g.hasStored /\ g.downAge = d
      /\ grace # AP_GRACE => g = e
      /\ grace = AP_GRACE => g.graceAge = Off
  BY <1>5, Constants DEF GraceEnds, Machine, Ages
<1>8. Ticked(e) = LinkLost(g)
  BY <1>5 DEF Ticked
<1>9. CASE g.downAge = LINK_DOWN
  <2> DEFINE h == [g EXCEPT !.downAge = Off]
  <2>1. grace = Off /\ g = e
    BY <1>6, <1>7, <1>9, Constants
  <2>2. LinkLost(g) = StartJoin(h, "Stored")
    BY <1>9 DEF LinkLost
  <2>3. h \in Machine /\ h.hasStored /\ h.apUp = m.apUp
    BY <1>7, <1>5, <2>1 DEF Machine, Ages
  <2> HIDE DEF h
  <2> QED BY <1>8, <2>2, <2>3, StartJoinWhole DEF e, a
<1>10. CASE g.downAge # LINK_DOWN
  <2>1. Ticked(e) = g
    BY <1>8, <1>10 DEF LinkLost
  <2>2. g.graceAge # Off => g.graceAge = grace /\ grace # AP_GRACE
    BY <1>5, <1>7
  <2>3. g.graceAge # Off => /\ g.graceAge < AP_GRACE
                            /\ g.downAge # Off => g.downAge < g.graceAge
    <3> HAVE g.graceAge # Off
    <3>1. grace # Off /\ grace = m.graceAge + 1 /\ grace < AP_GRACE /\ m.graceAge \in Nat
      BY <2>2, <1>2, Constants DEF grace, Ages, Whole, Machine
    <3> QED BY <1>2, <1>4, <1>7, <2>2, <3>1
  <2>4. Whole(g)
    BY <1>7, <2>3 DEF Whole, Coherent
  <2> QED BY <2>1, <2>4, <1>7 DEF e, a
<1> QED BY <1>9, <1>10

LEMMA PortalTick ==
  ASSUME NEW m, Whole(m), m.state = "Portal", NEW up \in BOOLEAN, NEW was \in BOOLEAN
  PROVE  LET n == Ticked(LinkEdge(Aged(m), up, was))
         IN  /\ Whole(n) /\ n.hasStored = m.hasStored /\ n.apUp = m.apUp
             /\ n.state \in {"Portal", "Joining"}
<1> DEFINE a == Aged(m)
           age == IF m.portalAge < PORTAL_RETRY THEN m.portalAge + 1 ELSE m.portalAge
<1>1. /\ Older(m.graceAge, AP_GRACE) \in Ages(AP_GRACE)
      /\ Older(m.downAge, LINK_DOWN) \in Ages(LINK_DOWN)
      /\ age \in 0..PORTAL_RETRY
  BY Constants DEF Older, Ages, Whole, Machine
<1>2. a = [m EXCEPT !.graceAge = Older(m.graceAge, AP_GRACE), !.downAge = Older(m.downAge, LINK_DOWN),
                    !.portalAge = age]
  BY DEF Aged, Whole, Machine
<1>3. /\ a \in Machine /\ a.state = "Portal" /\ a.hasStored = m.hasStored /\ a.apUp = m.apUp
  BY <1>1, <1>2 DEF Whole, Machine
<1> HIDE DEF a
<1>4. LinkEdge(a, up, was) = a
  BY <1>3 DEF LinkEdge
<1>5. Ticked(a) = PortalRetry(a)
  BY <1>3 DEF Ticked
<1>6. CASE a.hasStored /\ a.apClients = 0 /\ a.portalAge = PORTAL_RETRY
  <2>1. Ticked(a) = StartJoin(a, "Stored")
    BY <1>5, <1>6 DEF PortalRetry
  <2> QED BY <2>1, <1>3, <1>4, <1>6, StartJoinWhole DEF a
<1>7. CASE ~(a.hasStored /\ a.apClients = 0 /\ a.portalAge = PORTAL_RETRY)
  <2>1. Ticked(a) = a /\ Whole(a)
    BY <1>5, <1>7, <1>3 DEF PortalRetry, Whole, Coherent
  <2> QED BY <2>1, <1>3, <1>4 DEF a
<1> QED BY <1>6, <1>7

(***************************************************************************)
(* The driver and the machine.                                             *)
(***************************************************************************)

\* The pair of the driver's that a target means.
Pair(target) == IF target = "Stored" THEN held.stored ELSE held.trial

\* What the driver is doing is what the machine asked for, with the pair it
\* asked it for; and it owes the radio a reconnection only while online.
DriverOK ==
  /\ pendingJoin # None => phase = "Idle" /\ pendingJoin = machine.target
  /\ phase # "Idle" => writes = <<>> /\ sta = Pair(machine.target)
  /\ phase = "Addressing" => station \in {None, sta}
  /\ machine.state = "Online" => sta = held.stored
  /\ reassociate => machine.state = "Online"

Agreement == Coherent(machine) /\ HeldAgrees /\ JoinInFlight /\ DriverOK

(***************************************************************************)
(* The flash.                                                              *)
(***************************************************************************)

\* What is left of save_wifi for a pair c, and of clear_wifi.
SavesRest(c) ==
  \/ flash.ssid # None /\ writes = <<Put("ssid", None), Put("psk", c.psk), Put("ssid", c.ssid)>>
  \/ flash.ssid = None /\ writes = <<Put("psk", c.psk), Put("ssid", c.ssid)>>
  \/ flash.ssid = None /\ flash.psk = c.psk /\ writes = <<Put("ssid", c.ssid)>>

ClearsRest ==
  \/ writes = <<Put("ssid", None), Put("psk", None)>>
  \/ writes = <<Put("ssid", None)>>
  \/ flash.ssid = None /\ writes = <<Put("psk", None)>>

FlashOK ==
  /\ FlashIsProven /\ NeverForgets
  /\ writes # <<>> => (\E c \in proven : SavesRest(c)) \/ (~kept /\ ClearsRest)

IInv == TypeOK /\ Agreement /\ FlashOK

(***************************************************************************)
(* Facts that several steps use.                                           *)
(***************************************************************************)

LEMMA Pairs ==
  /\ None \notin Creds /\ None \notin {"Stored", "Trial"}
  /\ \A c \in Creds : /\ c = [ssid |-> c.ssid, psk |-> c.psk] /\ c.ssid # None
                      /\ c.ssid \in Ssids /\ c.psk \in Psks
BY ProvisionAssumption DEF Ssids, Psks

\* The records that a save may write.
Puts == [key : {"ssid"}, to : Ssids \cup {None}] \cup [key : {"psk"}, to : Psks \cup {None}]

LEMMA PutType ==
  /\ \A name \in Ssids \cup {None} : Put("ssid", name) \in Puts
  /\ \A secret \in Psks \cup {None} : Put("psk", secret) \in Puts
BY DEF Put, Puts

LEMMA PutParts ==
  \A x, y : Put(x, y).key = x /\ Put(x, y).to = y
BY DEF Put

LEMMA ShortType ==
  ASSUME NEW S, NEW a \in S, NEW b \in S, NEW c \in S
  PROVE  <<>> \in Seq(S) /\ <<a>> \in Seq(S) /\ <<a, b>> \in Seq(S) /\ <<a, b, c>> \in Seq(S)
OBVIOUS

LEMMA ShortParts ==
  ASSUME NEW a, NEW b, NEW c
  PROVE  /\ <<a>> # <<>> /\ Head(<<a>>) = a /\ Tail(<<a>>) = <<>>
         /\ <<a, b>> # <<>> /\ Head(<<a, b>>) = a /\ Tail(<<a, b>>) = <<b>>
         /\ <<a, b, c>> # <<>> /\ Head(<<a, b, c>>) = a /\ Tail(<<a, b, c>>) = <<b, c>>
OBVIOUS

LEMMA SpendType ==
  ASSUME left \in Budget, NEW kind \in {"posts", "wipes", "outages", "flukes", "cuts", "faults"},
         Spend(kind)
  PROVE  left' \in Budget
<1>1. /\ MaxPosts \in Nat /\ MaxWipes \in Nat /\ MaxOutages \in Nat /\ MaxFlukes \in Nat
      /\ MaxCuts \in Nat /\ MaxFaults \in Nat /\ MaxTroubles \in Nat
  BY ProvisionAssumption
<1>2. left[kind] > 0 /\ left.all > 0
  BY DEF Spend
<1>5. left.all \in 0..MaxTroubles
  BY DEF Budget
<1> DEFINE once == [left EXCEPT ![kind] = @ - 1]
<1>3. once \in Budget /\ once.all = left.all
  <2>1. CASE kind = "posts"
    BY <1>1, <1>2, <2>1 DEF Budget
  <2>2. CASE kind = "wipes"
    BY <1>1, <1>2, <2>2 DEF Budget
  <2>3. CASE kind = "outages"
    BY <1>1, <1>2, <2>3 DEF Budget
  <2>4. CASE kind = "flukes"
    BY <1>1, <1>2, <2>4 DEF Budget
  <2>5. CASE kind = "cuts"
    BY <1>1, <1>2, <2>5 DEF Budget
  <2>6. CASE kind = "faults"
    BY <1>1, <1>2, <2>6 DEF Budget
  <2> QED BY <2>1, <2>2, <2>3, <2>4, <2>5, <2>6
<1>4. left' = [once EXCEPT !.all = left.all - 1]
  BY <1>2 DEF Spend, Budget
<1> HIDE DEF once
<1> QED BY <1>1, <1>2, <1>3, <1>4, <1>5 DEF Budget

LEMMA FlashUnchanged ==
  ASSUME FlashOK, UNCHANGED <<flash, writes, kept, proven>> PROVE FlashOK'
BY DEF FlashOK, FlashIsProven, NeverForgets, SavesRest, ClearsRest

\* The machine and the driver's own variables are all that Agreement reads.
LEMMA AgreementUnchanged ==
  ASSUME Agreement, UNCHANGED <<machine, held, driverVars>>,
         writes' = writes \/ writes' = <<>> \/ writes # <<>>,
         phase = "Addressing" => station' \in {None, station}
  PROVE  Agreement'
BY DEF Agreement, Coherent, HeldAgrees, JoinInFlight, StopsJoin, DriverOK, Pair, driverVars

LEMMA WantedFacts ==
  ASSUME NEW m, Whole(m)
  PROVE  /\ Wanted(m) \in {None, "Stored", "Trial"}
         /\ m.state = "Joining" => Wanted(m) = "Stored"
         /\ m.state = "Trial" => Wanted(m) = "Trial"
         /\ m.state \in {"Portal", "Online"} => Wanted(m) = None
         /\ StopsJoin(m) <=> Wanted(m) # None
         /\ Wanted(m) # None => Wanted(m) = m.target
BY Pairs DEF Wanted, StopsJoin, Whole, Coherent, Machine

\* A new machine that has been carried out agrees with the driver, if the
\* pairs it speaks of are there.
LEMMA CarriedOut ==
  ASSUME NEW m, Whole(m), TypeOK, CarryOut(m, Wanted(m)), ~reassociate,
         held' \in [stored : Creds \cup {None}, trial : Creds \cup {None}, persist : BOOLEAN],
         m.hasStored <=> held'.stored # None,
         m.state = "Trial" => held'.trial # None,
         m.state = "Online" => sta' = held'.stored,
         machine.apUp /\ ~m.apUp => m.state = "Online"
  PROVE  Agreement'
<1>1. /\ machine' = m /\ phase' = "Idle" /\ pendingJoin' = Wanted(m)
      /\ reassociate' = (machine.apUp /\ ~m.apUp)
  BY DEF CarryOut, TypeOK
<1>2. Coherent(machine)'
  BY <1>1 DEF Whole, Coherent
<1>3. HeldAgrees'
  BY <1>1, WantedFacts, Pairs DEF HeldAgrees, Whole, Coherent, StopsJoin
<1>4. JoinInFlight'
  BY <1>1, WantedFacts DEF JoinInFlight, StopsJoin
<1>5. DriverOK'
  BY <1>1, WantedFacts DEF DriverOK
<1> QED BY <1>2, <1>3, <1>4, <1>5 DEF Agreement

LEMMA CarriedType ==
  ASSUME NEW m, Whole(m), TypeOK, CarryOut(m, Wanted(m))
  PROVE  /\ machine' \in Machine /\ phase' \in {"Idle", "Connecting", "Addressing"}
         /\ pendingJoin' \in {None, "Stored", "Trial"} /\ reassociate' \in BOOLEAN
         /\ people' \in 0..MaxPeople
<1>1. MaxPeople \in Nat
  BY ProvisionAssumption
<1> QED BY <1>1, WantedFacts DEF CarryOut, TypeOK, Whole, Machine

(***************************************************************************)
(* Each step.                                                              *)
(***************************************************************************)

LEMMA RunJoinStep == ASSUME IInv, RunJoin PROVE IInv'
<1>1. TypeOK'
  <2>1. /\ sta' \in Creds \cup {None} /\ station' \in Creds \cup {None} /\ addressed' \in BOOLEAN
        /\ pendingJoin' = None /\ phase' = "Connecting"
    BY DEF IInv, RunJoin, TypeOK, Dissociate
  <2>2. UNCHANGED <<machine, held, reassociate, linkWasUp, writes, newWifi, wipe, flash, net, people,
                    left, proven, kept>>
    BY DEF RunJoin, worldVars, historyVars
  <2> QED BY <2>1, <2>2 DEF IInv, TypeOK
<1>2. Agreement'
  <2>1. /\ machine' = machine /\ held' = held /\ pendingJoin' = None /\ phase' = "Connecting"
        /\ reassociate' = reassociate /\ writes' = writes /\ writes = <<>> /\ pendingJoin # None
        /\ sta' = Pair(pendingJoin)
    BY DEF RunJoin, AtTop, Pair
  <2>2. Coherent(machine)' /\ HeldAgrees'
    BY <2>1, Pairs DEF IInv, Agreement, Coherent, HeldAgrees
  <2>3. JoinInFlight'
    BY <2>1, Pairs DEF IInv, Agreement, JoinInFlight, StopsJoin
  <2>4. DriverOK'
    BY <2>1, Pairs DEF IInv, Agreement, JoinInFlight, StopsJoin, DriverOK, Pair
  <2> QED BY <2>2, <2>3, <2>4 DEF Agreement
<1>3. FlashOK'
  BY FlashUnchanged DEF IInv, RunJoin, historyVars
<1> QED BY <1>1, <1>2, <1>3 DEF IInv

LEMMA AssociatedStep == ASSUME IInv, Associated PROVE IInv'
<1>1. TypeOK'
  <2>1. station' \in Creds \cup {None} /\ addressed' \in BOOLEAN
    BY DEF IInv, Associated, TypeOK
  <2>2. UNCHANGED <<machine, held, pendingJoin, sta, reassociate, linkWasUp, writes, newWifi, wipe, flash,
                    net, people, left, proven, kept>> /\ phase' = "Addressing"
    BY DEF Associated, worldVars, historyVars
  <2> QED BY <2>1, <2>2 DEF IInv, TypeOK
<1>2. Agreement'
  BY Pairs DEF IInv, Associated, Agreement, Coherent, HeldAgrees, JoinInFlight, StopsJoin, DriverOK, Pair
<1>3. FlashOK'
  BY FlashUnchanged DEF IInv, Associated, historyVars
<1> QED BY <1>1, <1>2, <1>3 DEF IInv

\* Under way, the machine is waiting for the join and the driver does nothing else.
LEMMA UnderWay ==
  ASSUME IInv, phase # "Idle"
  PROVE  /\ StopsJoin(machine) /\ ~reassociate /\ pendingJoin = None /\ writes = <<>>
         /\ Whole(machine) /\ sta = Pair(machine.target)
BY DEF IInv, TypeOK, Agreement, JoinInFlight, StopsJoin, DriverOK, Whole

LEMMA FailedStep ==
  ASSUME IInv, phase # "Idle", NEW reason, Failed(reason),
         left' = left \/ Spend("flukes")
  PROVE  IInv'
<1> DEFINE m == AttemptFailed(machine, reason)
<1>1. /\ Whole(m) /\ m.hasStored = machine.hasStored /\ (machine.apUp => m.apUp)
      /\ m.state \in {"Joining", "Trial", "Portal"}
      /\ m.state = "Trial" => machine.state = "Trial"
  BY UnderWay, FailedWhole
<1>2. CarryOut(m, Wanted(m)) /\ DissociateIf(Restarts(m))
      /\ UNCHANGED <<held, sta, linkWasUp, writes, newWifi, wipe, flash, net, historyVars>>
  BY DEF Failed
<1> HIDE DEF m
<1>3. TypeOK'
  <2>1. left' \in Budget
    BY SpendType DEF IInv, TypeOK
  <2>2. station' \in Creds \cup {None} /\ addressed' \in BOOLEAN
    BY <1>2 DEF IInv, TypeOK, DissociateIf, Dissociate, radioVars
  <2> QED BY <1>1, <1>2, <2>1, <2>2, CarriedType DEF IInv, TypeOK, historyVars
<1>4. Agreement'
  BY <1>1, <1>2, UnderWay, CarriedOut DEF IInv, TypeOK, Agreement, HeldAgrees
<1>5. FlashOK'
  BY <1>2, FlashUnchanged DEF IInv, historyVars
<1> QED BY <1>3, <1>4, <1>5 DEF IInv

LEMMA PostedStep == ASSUME IInv, Posted PROVE IInv'
<1> DEFINE m == CredentialsPosted(machine)
<1>1. Whole(machine)
  BY DEF IInv, TypeOK, Agreement, Whole
<1>2. Whole(m) /\ m.state = "Trial" /\ m.hasStored = machine.hasStored /\ m.apUp = machine.apUp
  BY <1>1, PostedWhole
<1>3. /\ CarryOut(m, Wanted(m)) /\ DissociateIf(StopsJoin(machine)) /\ newWifi # None
      /\ held' = [held EXCEPT !.trial = newWifi.cred, !.persist = newWifi.persist]
      /\ newWifi' = None /\ Listening
      /\ UNCHANGED <<sta, linkWasUp, writes, wipe, flash, net, left, historyVars>>
  BY DEF Posted
<1> HIDE DEF m
<1>4. newWifi.cred \in Creds /\ newWifi.persist \in BOOLEAN
  BY <1>3 DEF IInv, TypeOK
<1>5. /\ held' \in [stored : Creds \cup {None}, trial : Creds \cup {None}, persist : BOOLEAN]
      /\ held'.stored = held.stored /\ held'.trial # None
  BY <1>3, <1>4, Pairs DEF IInv, TypeOK
<1>6. ~reassociate
  BY <1>3, UnderWay DEF Listening, Idle
<1>7. TypeOK'
  <2>1. station' \in Creds \cup {None} /\ addressed' \in BOOLEAN
    BY <1>3 DEF IInv, TypeOK, DissociateIf, Dissociate, radioVars
  <2> QED BY <1>2, <1>3, <1>5, <2>1, CarriedType DEF IInv, TypeOK, historyVars
<1>8. Agreement'
  BY <1>2, <1>3, <1>5, <1>6, CarriedOut DEF IInv, TypeOK, Agreement, HeldAgrees
<1>9. FlashOK'
  BY <1>3, FlashUnchanged DEF IInv, historyVars
<1> QED BY <1>7, <1>8, <1>9 DEF IInv

LEMMA TickStep == ASSUME IInv, Tick PROVE IInv'
<1> DEFINE m == Ticked(LinkEdge(Aged(machine), LinkUp, linkWasUp))
<1>1. /\ Idle /\ CarryOut(m, Wanted(m)) /\ linkWasUp' = LinkUp /\ DissociateIf(Restarts(m))
      /\ UNCHANGED <<held, sta, writes, newWifi, wipe, flash, net, left, historyVars>>
  BY DEF Tick
<1>2. /\ Whole(machine) /\ ~StopsJoin(machine) /\ ~reassociate
      /\ LinkUp \in BOOLEAN /\ linkWasUp \in BOOLEAN
  BY <1>1 DEF Idle, AtTop, IInv, TypeOK, Agreement, JoinInFlight, Whole, LinkUp
<1>3. /\ Whole(m) /\ m.hasStored = machine.hasStored
      /\ m.state \in {"Online", "Portal", "Joining"}
      /\ m.state = "Online" => machine.state = "Online"
      /\ machine.apUp /\ ~m.apUp => m.state = "Online"
  <2>1. CASE machine.state = "Online"
    BY <1>2, <2>1, OnlineTick DEF Whole, Coherent, Machine
  <2>2. CASE machine.state = "Portal"
    BY <1>2, <2>2, PortalTick
  <2> QED BY <1>2, <2>1, <2>2 DEF StopsJoin, Whole, Machine
<1> HIDE DEF m
<1>4. TypeOK'
  <2>1. station' \in Creds \cup {None} /\ addressed' \in BOOLEAN
    BY <1>1 DEF IInv, TypeOK, DissociateIf, Dissociate, radioVars
  <2> QED BY <1>1, <1>2, <1>3, <2>1, CarriedType DEF IInv, TypeOK, historyVars
<1>5. Agreement'
  BY <1>1, <1>2, <1>3, CarriedOut DEF IInv, TypeOK, Agreement, HeldAgrees, DriverOK
<1>6. FlashOK'
  BY <1>1, FlashUnchanged DEF IInv, historyVars
<1> QED BY <1>4, <1>5, <1>6 DEF IInv

\* The pair that has just produced an address is the one that is saved.
LEMMA AddressStep == ASSUME IInv, AddressComes PROVE IInv'
<1> DEFINE m == GoOnline(machine)
<1>1. /\ Whole(machine) /\ StopsJoin(machine) /\ ~reassociate /\ writes = <<>>
      /\ station = sta /\ sta = Pair(machine.target) /\ station \in Creds
  BY UnderWay DEF AddressComes, IInv, Agreement, DriverOK, TypeOK
<1>2. Whole(m) /\ m.state = "Online" /\ m.hasStored /\ m.apUp = machine.apUp
  BY <1>1, OnlineWhole
<1>3. /\ addressed' = TRUE /\ linkWasUp' = TRUE /\ proven' = proven \cup {station}
      /\ CarryOut(m, Wanted(m))
      /\ UNCHANGED <<sta, newWifi, wipe, flash, station, net, left, kept>>
  BY <1>2, WantedFacts DEF AddressComes
<1>4. IF machine.target = "Trial"
      THEN /\ held' = [held EXCEPT !.stored = held.trial]
           /\ writes' = IF held.persist THEN SaveWrites(held.trial) ELSE <<>>
      ELSE UNCHANGED <<held, writes>>
  BY DEF AddressComes
<1> HIDE DEF m
<1>5. /\ held' \in [stored : Creds \cup {None}, trial : Creds \cup {None}, persist : BOOLEAN]
      /\ held'.stored = sta
  <2>1. CASE machine.target = "Trial"
    BY <1>1, <1>4, <2>1 DEF Pair, IInv, TypeOK
  <2>2. CASE machine.target # "Trial"
    BY <1>1, <1>4, <2>2 DEF Pair, IInv, TypeOK, Whole, Machine
  <2> QED BY <2>1, <2>2
<1>6. \/ writes' = <<>>
      \/ flash.ssid # None /\ writes' = <<Put("ssid", None), Put("psk", sta.psk), Put("ssid", sta.ssid)>>
      \/ flash.ssid = None /\ writes' = <<Put("psk", sta.psk), Put("ssid", sta.ssid)>>
  <2>1. CASE machine.target # "Trial" \/ ~held.persist
    BY <1>1, <1>4, <2>1
  <2>2. CASE machine.target = "Trial" /\ held.persist
    <3>1. writes' = SaveWrites(sta)
      BY <1>1, <1>4, <2>2 DEF Pair
    <3> QED BY <3>1 DEF SaveWrites
  <2> QED BY <2>1, <2>2
<1>7. TypeOK'
  <2>1. writes' \in Seq(Puts)
    <3>1. sta.ssid \in Ssids /\ sta.psk \in Psks
      BY <1>1, Pairs
    <3>2. Put("ssid", None) \in Puts /\ Put("psk", sta.psk) \in Puts /\ Put("ssid", sta.ssid) \in Puts
      BY <3>1, PutType
    <3> QED BY <1>6, <3>2, ShortType
  <2>2. proven' \subseteq Creds
    BY <1>1, <1>3 DEF IInv, TypeOK
  <2> QED BY <1>2, <1>3, <1>5, <2>1, <2>2, CarriedType DEF IInv, TypeOK, Puts
<1>8. Agreement'
  <2>1. held'.stored # None /\ sta' = held'.stored
    BY <1>1, <1>3, <1>5, Pairs
  <2> QED BY <1>1, <1>2, <1>3, <1>5, <2>1, CarriedOut DEF IInv
<1>9. FlashOK'
  <2>1. FlashIsProven' /\ NeverForgets'
    BY <1>1, <1>3 DEF IInv, FlashOK, FlashIsProven, NeverForgets
  <2>2. writes' # <<>> => \E c \in proven' : SavesRest(c)'
    BY <1>1, <1>3, <1>6 DEF SavesRest
  <2> QED BY <2>1, <2>2 DEF FlashOK
<1> QED BY <1>7, <1>8, <1>9 DEF IInv

LEMMA WipedStep == ASSUME IInv, Wiped PROVE IInv'
<1> DEFINE m == ButtonWipe(machine)
<1>1. Whole(m) /\ m.state = "Portal" /\ ~m.hasStored /\ m.apUp
  BY WipeWhole DEF IInv, TypeOK
<1>2. /\ CarryOut(m, Wanted(m)) /\ DissociateIf(StopsJoin(machine) \/ Restarts(m))
      /\ wipe' = FALSE /\ kept' = FALSE /\ Listening
      /\ held' = Forget(held) /\ writes' = ClearWrites
      /\ UNCHANGED <<sta, linkWasUp, newWifi, flash, net, left, proven>>
  BY DEF Wiped
<1> HIDE DEF m
<1>3. ~reassociate
  BY <1>2, UnderWay DEF Listening, Idle
<1>4. /\ held' \in [stored : Creds \cup {None}, trial : Creds \cup {None}, persist : BOOLEAN]
      /\ held'.stored = None
  BY <1>2 DEF Forget, IInv, TypeOK
<1>5. \/ writes' = <<>> /\ flash.ssid = None
      \/ writes' = <<Put("ssid", None), Put("psk", None)>>
      \/ writes' = <<Put("ssid", None)>>
      \/ flash.ssid = None /\ writes' = <<Put("psk", None)>>
  BY <1>2 DEF ClearWrites
<1>6. TypeOK'
  <2>1. station' \in Creds \cup {None} /\ addressed' \in BOOLEAN
    BY <1>2 DEF IInv, TypeOK, DissociateIf, Dissociate, radioVars
  <2>2. writes' \in Seq(Puts)
    BY <1>5, PutType, ShortType
  <2> QED BY <1>1, <1>2, <1>4, <2>1, <2>2, CarriedType DEF IInv, TypeOK, Puts
<1>7. Agreement'
  BY <1>1, <1>2, <1>3, <1>4, CarriedOut DEF IInv
<1>8. FlashOK'
  BY <1>2, <1>5 DEF IInv, FlashOK, FlashIsProven, NeverForgets, ClearsRest
<1> QED BY <1>6, <1>7, <1>8 DEF IInv

LEMMA ReassociateStep == ASSUME IInv, Reassociate PROVE IInv'
<1>1. /\ reassociate' = FALSE /\ addressed' = FALSE /\ station' \in {sta, None} /\ phase = "Idle"
      /\ left' = left \/ Spend("flukes")
      /\ UNCHANGED <<machine, held, pendingJoin, phase, sta, linkWasUp, writes, newWifi, wipe, flash,
                     worldVars, historyVars>>
  BY DEF Reassociate, AtTop
<1>2. TypeOK'
  <2>1. left' \in Budget
    BY <1>1, SpendType DEF IInv, TypeOK
  <2>2. station' \in Creds \cup {None} /\ addressed' \in BOOLEAN /\ reassociate' \in BOOLEAN
    BY <1>1 DEF IInv, TypeOK
  <2>3. UNCHANGED <<machine, held, pendingJoin, phase, sta, linkWasUp, writes, newWifi, wipe, flash,
                    net, people, proven, kept>>
    BY <1>1 DEF worldVars, historyVars
  <2> QED BY <2>1, <2>2, <2>3 DEF IInv, TypeOK
<1>3. Agreement'
  BY <1>1 DEF IInv, Agreement, Coherent, HeldAgrees, JoinInFlight, StopsJoin, DriverOK, Pair
<1>4. FlashOK'
  BY <1>1, FlashUnchanged DEF IInv, historyVars
<1> QED BY <1>2, <1>3, <1>4 DEF IInv

LEMMA WriteStep == ASSUME IInv, Write PROVE IInv'
<1>1. /\ writes # <<>> /\ flash' = [flash EXCEPT ![Head(writes).key] = Head(writes).to]
      /\ writes' = Tail(writes) /\ kept' = (kept \/ (writes' = <<>> /\ flash'.ssid # None))
      /\ UNCHANGED <<machine, held, driverVars, newWifi, wipe, radioVars, worldVars, left, proven>>
  BY DEF Write
<1>2. flash' \in [ssid : Ssids \cup {None}, psk : Psks \cup {None}] /\ writes' \in Seq(Puts)
  <2>1. writes \in Seq(Puts)
    BY DEF IInv, TypeOK, Puts
  <2>2. Head(writes) \in Puts /\ writes' \in Seq(Puts)
    BY <1>1, <2>1
  <2>3. flash' \in [ssid : Ssids \cup {None}, psk : Psks \cup {None}]
    BY <1>1, <2>2 DEF IInv, TypeOK, Puts
  <2> QED BY <2>2, <2>3
<1>3. TypeOK'
  BY <1>1, <1>2 DEF IInv, TypeOK, Puts, driverVars, radioVars, worldVars
<1>4. Agreement'
  BY <1>1, AgreementUnchanged DEF IInv, radioVars
<1>5. FlashOK'
  <2>1. CASE \E c \in proven : SavesRest(c)
    <3>1. PICK c \in proven : SavesRest(c)
      BY <2>1
    <3>2. c \in Creds /\ c = [ssid |-> c.ssid, psk |-> c.psk] /\ c.ssid # None
      BY Pairs DEF IInv, TypeOK
    <3>3. CASE flash.ssid # None
               /\ writes = <<Put("ssid", None), Put("psk", c.psk), Put("ssid", c.ssid)>>
      <4>1. writes' = <<Put("psk", c.psk), Put("ssid", c.ssid)>> /\ flash'.ssid = None
        BY <1>1, <3>3, ShortParts, PutParts DEF IInv, TypeOK
      <4>2. SavesRest(c)' /\ writes' # <<>>
        BY <4>1, ShortParts DEF SavesRest
      <4> QED BY <1>1, <4>1, <4>2 DEF FlashOK, FlashIsProven, NeverForgets
    <3>4. CASE flash.ssid = None /\ writes = <<Put("psk", c.psk), Put("ssid", c.ssid)>>
      <4>1. writes' = <<Put("ssid", c.ssid)>> /\ flash'.ssid = None /\ flash'.psk = c.psk
        BY <1>1, <3>4, ShortParts, PutParts DEF IInv, TypeOK
      <4>2. SavesRest(c)' /\ writes' # <<>>
        BY <4>1, ShortParts DEF SavesRest
      <4> QED BY <1>1, <4>1, <4>2 DEF FlashOK, FlashIsProven, NeverForgets
    <3>5. CASE flash.ssid = None /\ flash.psk = c.psk /\ writes = <<Put("ssid", c.ssid)>>
      <4>1. writes' = <<>> /\ flash' = [ssid |-> c.ssid, psk |-> c.psk]
        <5>1. Head(writes).key = "ssid" /\ Head(writes).to = c.ssid /\ Tail(writes) = <<>>
          BY <3>5, ShortParts, PutParts
        <5> QED BY <1>1, <3>5, <5>1 DEF IInv, TypeOK
      <4> QED BY <1>1, <3>2, <4>1 DEF FlashOK, FlashIsProven, NeverForgets
    <3> QED BY <3>1, <3>3, <3>4, <3>5 DEF SavesRest
  <2>2. CASE ~kept /\ ClearsRest
    <3>1. flash'.ssid = None /\ (writes' # <<>> => writes' = <<Put("psk", None)>>)
      <4>1. CASE writes = <<Put("ssid", None), Put("psk", None)>>
        <5>1. Head(writes).key = "ssid" /\ Head(writes).to = None /\ Tail(writes) = <<Put("psk", None)>>
          BY <4>1, ShortParts, PutParts
        <5> QED BY <1>1, <5>1 DEF IInv, TypeOK
      <4>2. CASE writes = <<Put("ssid", None)>>
        <5>1. Head(writes).key = "ssid" /\ Head(writes).to = None /\ Tail(writes) = <<>>
          BY <4>2, ShortParts, PutParts
        <5> QED BY <1>1, <5>1 DEF IInv, TypeOK
      <4>3. CASE flash.ssid = None /\ writes = <<Put("psk", None)>>
        <5>1. Head(writes).key = "psk" /\ Head(writes).to = None /\ Tail(writes) = <<>>
          BY <4>3, ShortParts, PutParts
        <5> QED BY <1>1, <4>3, <5>1 DEF IInv, TypeOK
      <4> QED BY <2>2, <4>1, <4>2, <4>3 DEF ClearsRest
    <3> QED BY <1>1, <2>2, <3>1 DEF FlashOK, FlashIsProven, NeverForgets, ClearsRest
  <2> QED BY <1>1, <2>1, <2>2 DEF IInv, FlashOK
<1> QED BY <1>3, <1>4, <1>5 DEF IInv

LEMMA WriteFailsStep == ASSUME IInv, WriteFails PROVE IInv'
<1>1. /\ writes' = <<>> /\ kept' = FALSE /\ Spend("faults")
      /\ UNCHANGED <<machine, held, driverVars, newWifi, wipe, flash, radioVars, worldVars, proven>>
  BY DEF WriteFails
<1>2. TypeOK'
  <2>1. left' \in Budget
    BY <1>1, SpendType DEF IInv, TypeOK
  <2>2. <<>> \in Seq(Puts)
    OBVIOUS
  <2>3. writes' \in Seq(Puts) /\ kept' \in BOOLEAN
    BY <1>1, <2>2
  <2> QED BY <1>1, <2>1, <2>3 DEF IInv, TypeOK, Puts, driverVars, radioVars, worldVars
<1>3. Agreement'
  BY <1>1, AgreementUnchanged DEF IInv, radioVars
<1>4. FlashOK'
  BY <1>1 DEF IInv, FlashOK, FlashIsProven, NeverForgets
<1> QED BY <1>2, <1>3, <1>4 DEF IInv

LEMMA PhoneStep == ASSUME IInv, NEW change \in {-1, 1}, PhoneMoves(change) PROVE IInv'
<1>1. /\ machine' = IF Idle THEN Counted(machine, change) ELSE machine
      /\ people' \in 0..MaxPeople
      /\ UNCHANGED <<held, driverVars, writes, newWifi, wipe, flash, radioVars, net, left, historyVars>>
  BY DEF PhoneMoves
<1>2. Whole(machine)
  BY DEF IInv, TypeOK, Agreement, Whole
<1>3. /\ Whole(machine') /\ machine'.hasStored = machine.hasStored
      /\ machine'.state = machine.state /\ machine'.target = machine.target
  BY <1>1, <1>2, CountedWhole
<1>4. TypeOK'
  BY <1>1, <1>3 DEF IInv, TypeOK, Whole, driverVars, radioVars, historyVars
<1>5. Agreement'
  <2>1. UNCHANGED <<held, pendingJoin, phase, sta, reassociate, writes, station>>
    BY <1>1 DEF driverVars, radioVars
  <2> QED BY <1>3, <2>1
       DEF IInv, Agreement, Whole, Coherent, HeldAgrees, JoinInFlight, StopsJoin, DriverOK, Pair
<1>6. FlashOK'
  BY <1>1, FlashUnchanged DEF IInv, historyVars
<1> QED BY <1>4, <1>5, <1>6 DEF IInv

\* Steps of the world that the driver has not noticed yet.
LEMMA UnnoticedStep ==
  ASSUME IInv, Post \/ Hold \/ NetworkGoes \/ NetworkReturns \/ LateAddress
  PROVE  IInv'
<1>1. /\ UNCHANGED <<machine, held, driverVars, writes, flash, people, historyVars>>
      /\ station' \in {None, station} /\ addressed' \in {TRUE, FALSE, addressed}
      /\ net' \in SUBSET Ssids
      /\ newWifi' \in {None} \cup [cred : Creds, persist : BOOLEAN] /\ wipe' \in BOOLEAN
      /\ left' \in Budget
  <2>1. CASE Post
    <3>1. newWifi' \in [cred : Creds, persist : BOOLEAN]
      BY <2>1, ProvisionAssumption DEF Post
    <3> QED BY <2>1, <3>1, SpendType DEF Post, IInv, TypeOK, radioVars, worldVars
  <2>2. CASE Hold
    BY <2>2, SpendType DEF Hold, IInv, TypeOK, radioVars, worldVars
  <2>3. CASE NetworkGoes
    BY <2>3, SpendType DEF NetworkGoes, DissociateIf, Dissociate, IInv, TypeOK, radioVars
  <2>4. CASE NetworkReturns
    BY <2>4 DEF NetworkReturns, IInv, TypeOK, radioVars
  <2>5. CASE LateAddress
    BY <2>5 DEF LateAddress, IInv, TypeOK, worldVars
  <2> QED BY <2>1, <2>2, <2>3, <2>4, <2>5
<1>2. TypeOK'
  <2>1. UNCHANGED <<machine, held, pendingJoin, phase, sta, reassociate, linkWasUp, writes, flash,
                    people, proven, kept>>
    BY <1>1 DEF driverVars, historyVars
  <2>2. station' \in Creds \cup {None} /\ addressed' \in BOOLEAN
    BY <1>1 DEF IInv, TypeOK
  <2> QED BY <1>1, <2>1, <2>2 DEF IInv, TypeOK
<1>3. Agreement'
  BY <1>1, AgreementUnchanged DEF IInv
<1>4. FlashOK'
  BY <1>1, FlashUnchanged DEF IInv, historyVars
<1> QED BY <1>2, <1>3, <1>4 DEF IInv

\* What a boot makes of flash that names only a proven network, or none.
LEMMA BootFacts ==
  ASSUME flash \in [ssid : Ssids \cup {None}, psk : Psks \cup {None}],
         proven \subseteq Creds, FlashIsProven
  PROVE  /\ StoredPair \in Creds \cup {None}
         /\ flash.ssid # None <=> StoredPair # None
BY Pairs DEF StoredPair, FlashIsProven

LEMMA RestartStep == ASSUME IInv, Restart PROVE IInv'
<1> DEFINE m == Booted(flash.ssid # None)
<1>1. /\ machine' = m /\ held' = [stored |-> StoredPair, trial |-> None, persist |-> TRUE]
      /\ pendingJoin' = Wanted(m) /\ phase' = "Idle" /\ sta' = None
      /\ reassociate' = FALSE /\ linkWasUp' = FALSE
      /\ writes' = <<>> /\ newWifi' = None /\ wipe' = FALSE /\ Dissociate /\ people' = 0
      /\ kept' = (kept /\ writes = <<>>) /\ Spend("cuts")
      /\ UNCHANGED <<flash, net, proven>>
  BY DEF Restart
<1>2. /\ Whole(m) /\ m.hasStored = (flash.ssid # None)
      /\ m.state = IF flash.ssid # None THEN "Joining" ELSE "Portal"
  BY BootedWhole
<1>3. StoredPair \in Creds \cup {None} /\ (flash.ssid # None <=> StoredPair # None)
  BY BootFacts DEF IInv, TypeOK, FlashOK
<1> HIDE DEF m
<1>4. TypeOK'
  <2>1. left' \in Budget
    BY <1>1, SpendType DEF IInv, TypeOK
  <2>2. people' \in 0..MaxPeople
    BY <1>1, ProvisionAssumption
  <2>3. writes' \in Seq(Puts)
    BY <1>1
  <2> QED BY <1>1, <1>2, <1>3, <2>1, <2>2, <2>3, WantedFacts DEF IInv, TypeOK, Puts, Whole, Dissociate
<1>5. Agreement'
  <2>1. Coherent(machine)'
    BY <1>1, <1>2 DEF Whole, Coherent
  <2>2. HeldAgrees' /\ JoinInFlight' /\ DriverOK'
    BY <1>1, <1>2, <1>3, WantedFacts, Pairs DEF HeldAgrees, JoinInFlight, StopsJoin, DriverOK
  <2> QED BY <2>1, <2>2 DEF Agreement
<1>6. FlashOK'
  BY <1>1 DEF IInv, FlashOK, FlashIsProven, NeverForgets
<1> QED BY <1>4, <1>5, <1>6 DEF IInv

LEMMA InitInv == Init => IInv
<1> SUFFICES ASSUME Init PROVE IInv
  OBVIOUS
<1> DEFINE m == Booted(flash.ssid # None)
<1>1. /\ Whole(m) /\ m.hasStored = (flash.ssid # None)
      /\ m.state = IF flash.ssid # None THEN "Joining" ELSE "Portal"
  BY BootedWhole
<1>2. /\ flash \in [ssid : Ssids \cup {None}, psk : Psks \cup {None}]
      /\ proven \subseteq Creds /\ FlashIsProven
  <2>1. CASE flash = [ssid |-> None, psk |-> None]
    BY <2>1 DEF Init, FlashIsProven
  <2>2. CASE flash \in Works
    <3>1. flash \in Creds
      BY <2>2, ProvisionAssumption
    <3> QED BY <3>1, Pairs DEF Init, FlashIsProven
  <2> QED BY <2>1, <2>2 DEF Init
<1>3. StoredPair \in Creds \cup {None} /\ (flash.ssid # None <=> StoredPair # None)
  BY <1>2, BootFacts
<1>4. /\ machine = m /\ pendingJoin = Wanted(m)
      /\ held = [stored |-> StoredPair, trial |-> None, persist |-> TRUE]
  BY DEF Init
<1> HIDE DEF m
<1>5. TypeOK
  <2>1. left \in Budget /\ people \in 0..MaxPeople
    BY ProvisionAssumption DEF Init, Full, Budget
  <2>2. writes \in Seq(Puts)
    BY DEF Init
  <2>3. /\ phase = "Idle" /\ sta = None /\ reassociate = FALSE /\ linkWasUp = FALSE
        /\ newWifi = None /\ wipe = FALSE /\ station = None /\ addressed = FALSE
        /\ net = Ssids /\ kept \in BOOLEAN
    BY DEF Init
  <2> QED BY <1>1, <1>2, <1>3, <1>4, <2>1, <2>2, <2>3, WantedFacts DEF TypeOK, Puts, Whole
<1>6. Agreement
  <2>1. phase = "Idle" /\ reassociate = FALSE
    BY DEF Init
  <2>2. Coherent(machine)
    BY <1>1, <1>4 DEF Whole
  <2>3. HeldAgrees /\ JoinInFlight /\ DriverOK
    BY <1>1, <1>3, <1>4, <2>1, WantedFacts, Pairs DEF HeldAgrees, JoinInFlight, StopsJoin, DriverOK
  <2> QED BY <2>2, <2>3 DEF Agreement
<1>7. FlashOK
  BY <1>2 DEF Init, FlashOK, NeverForgets
<1> QED BY <1>5, <1>6, <1>7 DEF IInv

LEMMA StepInv == IInv /\ [Next]_vars => IInv'
<1> SUFFICES ASSUME IInv, [Next]_vars PROVE IInv'
  OBVIOUS
<1>1. CASE Driver
  <2>1. ASSUME ConnectFails \/ ConnectFluke \/ NoAddress PROVE IInv'
    <3>1. /\ phase # "Idle" /\ (left' = left \/ Spend("flukes"))
          /\ \E reason : Failed(reason)
      BY <2>1 DEF ConnectFails, ConnectFluke, NoAddress
    <3> QED BY <3>1, FailedStep
  <2> QED BY <1>1, <2>1, RunJoinStep, AssociatedStep, AddressStep, PostedStep, WipedStep, TickStep,
           ReassociateStep, WriteStep, WriteFailsStep DEF Driver
<1>2. CASE World
  BY <1>2, PhoneStep, UnnoticedStep, RestartStep DEF World
<1>3. CASE UNCHANGED vars
  <2>1. TypeOK' /\ FlashOK'
    BY <1>3, FlashUnchanged DEF IInv, TypeOK, vars, driverVars, radioVars, worldVars, historyVars
  <2>2. Agreement'
    BY <1>3, AgreementUnchanged DEF IInv, vars, radioVars
  <2> QED BY <2>1, <2>2 DEF IInv
<1> QED BY <1>1, <1>2, <1>3 DEF Next

(***************************************************************************)
(* The theorems.                                                           *)
(***************************************************************************)

LEMMA Inductive == Spec => []IInv
BY InitInv, StepInv, PTL DEF Spec

\* Every variable keeps its type, for any bounds and timers: attempts stay in
\* their counts, ages under the timers that read them, and what is held in
\* RAM after a boot is a pair or nothing.
THEOREM TypeCorrect == Spec => []TypeOK
<1>1. IInv => TypeOK
  BY DEF IInv
<1> QED BY <1>1, Inductive, PTL

\* save_wifi and clear_wifi, cut or failing between any two writes, leave flash
\* that names no network, or one that this device has been on with that key.
THEOREM FlashAlwaysProven == Spec => []FlashIsProven
<1>1. IInv => FlashIsProven
  BY DEF IInv, FlashOK
<1> QED BY <1>1, Inductive, PTL

\* A network once saved is forgotten only by a wipe or by a save cut short.
THEOREM NetworkNeverForgotten == Spec => []NeverForgets
<1>1. IInv => NeverForgets
  BY DEF IInv, FlashOK
<1> QED BY <1>1, Inductive, PTL

\* The machine and its driver agree on which credentials there are, and the
\* machine waits for a join exactly while there is one.
THEOREM DriverAgrees == Spec => [](HeldAgrees /\ JoinInFlight)
<1>1. IInv => HeldAgrees /\ JoinInFlight
  BY DEF IInv, Agreement
<1> QED BY <1>1, Inductive, PTL

\* The radio joins nothing but a pair that the driver holds at that moment,
\* the reconnection after the soft-AP comes down included.
THEOREM OnlyHeldJoined == Spec => JoinsOnlyHeld
<1> DEFINE Held == station' # station /\ station' # None => station' \in {held.stored, held.trial}
<1>1. IInv /\ [Next]_vars => [Held]_vars
  <2> SUFFICES ASSUME IInv, Next, station' # station, station' # None
               PROVE  station' \in {held.stored, held.trial}
    OBVIOUS
  <2>1. CASE Associated
    BY <2>1, UnderWay DEF Associated, Pair
  <2>2. CASE Reassociate
    <3>1. station' = sta /\ reassociate
      BY <2>2 DEF Reassociate
    <3> QED BY <3>1 DEF IInv, Agreement, DriverOK
  <2>3. CASE RunJoin \/ ConnectFails \/ ConnectFluke \/ AddressComes \/ NoAddress
             \/ Posted \/ Wiped \/ Tick \/ Write \/ WriteFails
    BY <2>3 DEF RunJoin, ConnectFails, ConnectFluke, AddressComes, NoAddress, Posted, Wiped, Tick,
                Write, WriteFails, Failed, DissociateIf, Dissociate, radioVars
  <2>4. CASE World
    BY <2>4 DEF World, Post, Hold, PhoneMoves, NetworkGoes, NetworkReturns, LateAddress, Restart,
                DissociateIf, Dissociate, radioVars
  <2> QED BY <2>1, <2>2, <2>3, <2>4 DEF Next, Driver
<1> QED BY <1>1, Inductive, PTL DEF Spec, JoinsOnlyHeld

(***************************************************************************)
(* What the setup page is told.                                            *)
(***************************************************************************)

\* What the machine says of the last trial.
Said(m) == IF m.trial = None THEN "Nothing" ELSE m.trial.outcome

Truthful(m) ==
  /\ Said(m) = "Trying" <=> m.state = "Trial"
  /\ m.sticky <=> FailedFromTheLan(m)

AnswerOK ==
  /\ Truthful(machine)
  /\ Said(machine) = "Connected" => held.trial \in proven /\ held.stored = held.trial
  /\ held.stored # None => held.stored \in proven

LEMMA JoinOrPortalSays ==
  ASSUME NEW m \in Machine, NEW which
  PROVE  /\ LET n == StartJoin(m, which)
            IN  n.trial = m.trial /\ n.sticky = m.sticky /\ n.state = "Joining"
         /\ LET n == EnterPortal(m)
            IN  n.trial = m.trial /\ n.sticky = m.sticky /\ n.state = "Portal"
  BY DEF StartJoin, EnterPortal, Machine

\* A trial that is over, told of as it was, wherever the machine goes on from it.
LEMMA ToldAsItWas ==
  ASSUME NEW m, NEW n, n.trial = m.trial, n.sticky = m.sticky,
         m.sticky <=> FailedFromTheLan(m),
         n.state = "Trial" <=> Said(m) = "Trying"
  PROVE  Truthful(n) /\ Said(n) = Said(m)
  BY DEF Truthful, Said, FailedFromTheLan

\* A trial that is given up is said to have failed; a retry says nothing new.
LEMMA FailedSays ==
  ASSUME NEW m, Whole(m), StopsJoin(m), Truthful(m), NEW reason
  PROVE  LET n == AttemptFailed(m, reason)
         IN  Truthful(n) /\ Said(n) \in {Said(m), "Failed"}
<1>1. CASE Retries(m, reason)
  <2>1. /\ AttemptFailed(m, reason).trial = m.trial
        /\ AttemptFailed(m, reason).sticky = m.sticky
        /\ AttemptFailed(m, reason).state = m.state
    BY <1>1 DEF AttemptFailed, Whole, Machine
  <2> QED BY <2>1, ToldAsItWas DEF Truthful
<1>2. CASE ~Retries(m, reason) /\ m.state = "Trial"
  <2> DEFINE failed == [m EXCEPT !.trial.outcome = "Failed"]
             stuck == [failed EXCEPT !.sticky = TRUE]
  <2>1. /\ failed \in Machine /\ stuck \in Machine
        /\ failed.trial \in Trials /\ failed.trial.outcome = "Failed"
        /\ failed.trial.origin = m.trial.origin /\ failed.sticky = m.sticky
        /\ stuck.trial = failed.trial /\ stuck.sticky = TRUE
    BY <1>2 DEF Whole, Coherent, Machine, Trials
  <2>2. ~m.sticky
    BY <1>2 DEF Truthful, FailedFromTheLan, Said
  <2>3. \/ m.trial.origin = "Portal" /\ AttemptFailed(m, reason) = EnterPortal(failed)
        \/ m.trial.origin = "Online" /\ AttemptFailed(m, reason) = StartJoin(stuck, "Stored")
        \/ m.trial.origin = "Online" /\ AttemptFailed(m, reason) = EnterPortal(stuck)
    BY <1>2, <2>1 DEF AttemptFailed, FailTrial, Whole, Coherent, Trials
  <2> HIDE DEF failed, stuck
  <2>4. /\ AttemptFailed(m, reason).trial = failed.trial
        /\ AttemptFailed(m, reason).sticky <=> m.trial.origin = "Online"
        /\ AttemptFailed(m, reason).state # "Trial"
    BY <2>1, <2>2, <2>3, JoinOrPortalSays
  <2> QED BY <2>1, <2>4, NoneIsNoTrial DEF Said, Truthful, FailedFromTheLan
<1>3. CASE ~Retries(m, reason) /\ m.state # "Trial"
  <2>1. AttemptFailed(m, reason) = EnterPortal(m)
    BY <1>3 DEF AttemptFailed
  <2> QED BY <1>3, <2>1, JoinOrPortalSays, ToldAsItWas DEF Truthful, Whole
<1> QED BY <1>1, <1>2, <1>3

LEMMA OnlineSays ==
  ASSUME NEW m, Whole(m), StopsJoin(m), Truthful(m)
  PROVE  LET n == GoOnline(m)
         IN  /\ Truthful(n)
             /\ Said(n) = IF m.state = "Trial" THEN "Connected" ELSE Said(m)
<1>1. CASE m.state = "Trial"
  <2>1. m.trial \in Trials
    BY <1>1 DEF Whole, Coherent
  <2>2. [m.trial EXCEPT !.outcome = "Connected"] \in Trials
    BY <2>1 DEF Trials
  <2>3. /\ GoOnline(m).trial = [m.trial EXCEPT !.outcome = "Connected"]
        /\ GoOnline(m).sticky = m.sticky /\ GoOnline(m).state = "Online"
    BY <1>1 DEF GoOnline, Whole, Machine
  <2>4. GoOnline(m).trial.outcome = "Connected" /\ GoOnline(m).trial # None
    BY <2>1, <2>2, <2>3, NoneIsNoTrial DEF Trials
  <2> QED BY <1>1, <2>3, <2>4 DEF Said, Truthful, FailedFromTheLan
<1>2. CASE m.state # "Trial"
  <2>1. /\ GoOnline(m).trial = m.trial /\ GoOnline(m).sticky = m.sticky
        /\ GoOnline(m).state = "Online"
    BY <1>2 DEF GoOnline, Whole, Machine
  <2> QED BY <1>2, <2>1, ToldAsItWas DEF Truthful
<1> QED BY <1>1, <1>2

LEMMA PostedSays ==
  ASSUME NEW m, Whole(m)
  PROVE  LET n == CredentialsPosted(m) IN Truthful(n) /\ Said(n) = "Trying"
<1>1. PostedFrom(m) \in {"Portal", "Online"}
  BY DEF PostedFrom, Whole, Coherent, Trials
<1> DEFINE trial == [origin |-> PostedFrom(m), outcome |-> "Trying"]
<1>2. trial \in Trials /\ trial.outcome = "Trying"
  BY <1>1 DEF Trials
<1>3. /\ CredentialsPosted(m).trial = trial /\ CredentialsPosted(m).sticky = FALSE
      /\ CredentialsPosted(m).state = "Trial"
  BY DEF CredentialsPosted, BeginTrial, Whole, Machine
<1> HIDE DEF trial
<1> QED BY <1>2, <1>3, NoneIsNoTrial DEF Said, Truthful, FailedFromTheLan

LEMMA WipedSays ==
  ASSUME NEW m \in Machine
  PROVE  LET n == ButtonWipe(m) IN Truthful(n) /\ Said(n) = "Nothing"
<1> DEFINE bare == [m EXCEPT !.hasStored = FALSE, !.trial = None, !.sticky = FALSE, !.downAge = Off]
<1>1. bare \in Machine /\ bare.trial = None /\ bare.sticky = FALSE
  BY DEF Machine, Ages
<1>2. ButtonWipe(m) = EnterPortal(bare)
  BY DEF ButtonWipe
<1> HIDE DEF bare
<1> QED BY <1>1, <1>2, JoinOrPortalSays DEF Said, Truthful, FailedFromTheLan

LEMMA BootedSays ==
  ASSUME NEW stored \in BOOLEAN
  PROVE  LET n == Booted(stored) IN Truthful(n) /\ Said(n) = "Nothing"
<1> DEFINE new == [state |-> "Portal", hasStored |-> stored, target |-> "Stored", attempt |-> 0,
              apUp |-> FALSE, apClients |-> 0, graceAge |-> Off, portalAge |-> 0,
              downAge |-> Off, trial |-> None, sticky |-> FALSE]
<1>1. new \in Machine /\ new.trial = None /\ new.sticky = FALSE
  BY Constants DEF Machine, Ages
<1>2. Booted(stored) = IF stored THEN StartJoin(new, "Stored") ELSE EnterPortal(new)
  BY DEF Booted
<1> HIDE DEF new
<1> QED BY <1>1, <1>2, JoinOrPortalSays DEF Said, Truthful, FailedFromTheLan

\* A tick tells nothing new.
LEMMA TickedSays ==
  ASSUME NEW m, Whole(m), m.state \in {"Online", "Portal"}, Truthful(m),
         NEW up \in BOOLEAN, NEW was \in BOOLEAN
  PROVE  LET n == Ticked(LinkEdge(Aged(m), up, was)) IN Truthful(n) /\ Said(n) = Said(m)
<1> DEFINE a == Aged(m)
           e == LinkEdge(a, up, was)
           g == GraceEnds(e)
<1>1. a.trial = m.trial /\ a.sticky = m.sticky /\ a.state = m.state /\ a \in Machine
  <2>1. /\ Older(m.graceAge, AP_GRACE) \in Ages(AP_GRACE)
        /\ Older(m.downAge, LINK_DOWN) \in Ages(LINK_DOWN)
        /\ (IF m.state = "Portal" /\ m.portalAge < PORTAL_RETRY
            THEN m.portalAge + 1 ELSE m.portalAge) \in 0..PORTAL_RETRY
    BY Constants DEF Older, Ages, Whole, Machine
  <2> QED BY <2>1 DEF Aged, Whole, Machine
<1> HIDE DEF a
<1>2. e.trial = m.trial /\ e.sticky = m.sticky /\ e.state = m.state /\ e \in Machine
  BY <1>1, Constants DEF LinkEdge, Machine, Ages
<1> HIDE DEF e
<1>3. g.trial = m.trial /\ g.sticky = m.sticky /\ g.state = m.state /\ g \in Machine
  BY <1>2, Constants DEF GraceEnds, Machine, Ages
<1> HIDE DEF g
<1>4. CASE m.state = "Online"
  <2>1. Ticked(e) = LinkLost(g)
    BY <1>2, <1>4 DEF Ticked, g
  <2>2. CASE g.downAge = LINK_DOWN
    <3> DEFINE h == [g EXCEPT !.downAge = Off]
    <3>1. h \in Machine /\ h.trial = m.trial /\ h.sticky = m.sticky
      BY <1>3 DEF Machine, Ages
    <3>2. LinkLost(g) = StartJoin(h, "Stored")
      BY <2>2 DEF LinkLost
    <3> HIDE DEF h
    <3> QED BY <1>4, <2>1, <3>1, <3>2, JoinOrPortalSays, ToldAsItWas DEF Truthful, a, e
  <2>3. CASE g.downAge # LINK_DOWN
    BY <1>3, <1>4, <2>1, <2>3, ToldAsItWas DEF LinkLost, Truthful, a, e
  <2> QED BY <2>2, <2>3
<1>5. CASE m.state = "Portal"
  <2>1. Ticked(e) = PortalRetry(e)
    BY <1>2, <1>5 DEF Ticked
  <2>2. Ticked(e) = StartJoin(e, "Stored") \/ Ticked(e) = e
    BY <2>1 DEF PortalRetry
  <2> QED BY <1>2, <1>5, <2>2, JoinOrPortalSays, ToldAsItWas DEF Truthful, a, e
<1> QED BY <1>4, <1>5

LEMMA AnswerInit == Init => AnswerOK
<1> SUFFICES ASSUME Init PROVE AnswerOK
  OBVIOUS
<1>1. Truthful(machine) /\ Said(machine) = "Nothing"
  BY BootedSays DEF Init
<1>2. held.stored # None => held.stored \in proven
  BY DEF Init, StoredPair
<1> QED BY <1>1, <1>2 DEF AnswerOK

LEMMA AnswerStep == ASSUME IInv, AnswerOK, [Next]_vars PROVE AnswerOK'
<1>1. Whole(machine) /\ Truthful(machine)
  BY DEF IInv, TypeOK, Agreement, Whole, AnswerOK
<1>2. CASE UNCHANGED <<machine, held, proven>>
  BY <1>2 DEF AnswerOK, Truthful, Said, FailedFromTheLan
<1>3. ASSUME NEW reason, phase # "Idle", Failed(reason) PROVE AnswerOK'
  <2>1. machine' = AttemptFailed(machine, reason) /\ UNCHANGED <<held, proven>>
    BY <1>3 DEF Failed, CarryOut, historyVars
  <2>2. Truthful(machine') /\ Said(machine') \in {Said(machine), "Failed"}
    BY <1>1, <1>3, <2>1, UnderWay, FailedSays
  <2> QED BY <2>1, <2>2 DEF AnswerOK
<1>4. CASE AddressComes
  <2>1. /\ machine' = GoOnline(machine) /\ proven' = proven \cup {station} /\ station # None
        /\ held' = IF machine.target = "Trial" THEN [held EXCEPT !.stored = held.trial] ELSE held
        /\ phase = "Addressing"
    BY <1>4 DEF AddressComes, CarryOut
  <2>2. /\ StopsJoin(machine) /\ station = Pair(machine.target)
    BY <2>1, UnderWay DEF IInv, Agreement, DriverOK
  <2>3. Truthful(machine') /\ Said(machine') = IF machine.state = "Trial" THEN "Connected" ELSE Said(machine)
    BY <1>1, <2>1, <2>2, OnlineSays
  <2>4. CASE machine.state = "Trial"
    <3>1. machine.target = "Trial" /\ held.trial = station
      BY <1>1, <2>2, <2>4 DEF Whole, Coherent, Pair
    <3>2. held'.stored = held.trial /\ held'.trial = held.trial
      BY <2>1, <3>1 DEF IInv, TypeOK
    <3> QED BY <2>1, <2>3, <3>1, <3>2 DEF AnswerOK
  <2>5. CASE machine.state # "Trial"
    <3>1. held' = held
      BY <1>1, <2>1, <2>2, <2>5 DEF Whole, Coherent, StopsJoin
    <3> QED BY <2>1, <2>3, <2>5, <3>1 DEF AnswerOK
  <2> QED BY <2>4, <2>5
<1>5. CASE Posted
  <2>1. /\ machine' = CredentialsPosted(machine) /\ UNCHANGED proven
        /\ held' = [held EXCEPT !.trial = newWifi.cred, !.persist = newWifi.persist]
    BY <1>5 DEF Posted, CarryOut, historyVars
  <2>2. Truthful(machine') /\ Said(machine') = "Trying"
    BY <1>1, <2>1, PostedSays
  <2>3. held'.stored = held.stored
    BY <2>1 DEF IInv, TypeOK
  <2> QED BY <2>1, <2>2, <2>3 DEF AnswerOK
<1>6. CASE Wiped
  <2>1. machine' = ButtonWipe(machine) /\ held' = Forget(held)
    BY <1>6 DEF Wiped, CarryOut
  <2>2. held'.stored = None
    BY <2>1 DEF Forget, IInv, TypeOK
  <2> QED BY <1>1, <2>1, <2>2, WipedSays DEF AnswerOK, Whole
<1>7. CASE Tick
  <2>1. /\ machine' = Ticked(LinkEdge(Aged(machine), LinkUp, linkWasUp)) /\ Idle
        /\ UNCHANGED <<held, proven>>
    BY <1>7 DEF Tick, CarryOut, historyVars
  <2>2. machine.state \in {"Online", "Portal"} /\ LinkUp \in BOOLEAN /\ linkWasUp \in BOOLEAN
    BY <2>1 DEF Idle, AtTop, IInv, TypeOK, Machine, Agreement, JoinInFlight, StopsJoin, LinkUp
  <2> QED BY <1>1, <2>1, <2>2, TickedSays DEF AnswerOK
<1>8. ASSUME NEW change \in {-1, 1}, PhoneMoves(change) PROVE AnswerOK'
  <2>1. machine' = machine \/ machine' = Counted(machine, change)
    BY <1>8 DEF PhoneMoves
  <2>2. /\ machine'.trial = machine.trial /\ machine'.sticky = machine.sticky
        /\ machine'.state = machine.state
    BY <1>1, <2>1 DEF Counted, Whole, Machine
  <2>3. UNCHANGED <<held, proven>>
    BY <1>8 DEF PhoneMoves, historyVars
  <2> QED BY <1>1, <2>2, <2>3 DEF AnswerOK, Truthful, Said, FailedFromTheLan
<1>9. CASE Restart
  <2>1. /\ machine' = Booted(flash.ssid # None) /\ UNCHANGED proven
        /\ held' = [stored |-> StoredPair, trial |-> None, persist |-> TRUE]
    BY <1>9 DEF Restart
  <2>2. Truthful(machine') /\ Said(machine') = "Nothing"
    BY <2>1, BootedSays
  <2>3. StoredPair # None => StoredPair \in proven
    BY DEF StoredPair, IInv, FlashOK, FlashIsProven
  <2> QED BY <2>1, <2>2, <2>3 DEF AnswerOK
<1>10. CASE RunJoin \/ Associated \/ Reassociate \/ Write \/ WriteFails \/ UNCHANGED vars
            \/ Post \/ Hold \/ NetworkGoes \/ NetworkReturns \/ LateAddress
  BY <1>2, <1>10 DEF RunJoin, Associated, Reassociate, Write, WriteFails, vars, Post, Hold,
                     NetworkGoes, NetworkReturns, LateAddress, historyVars
<1>11. CASE ConnectFails \/ ConnectFluke \/ NoAddress
  <2>1. phase # "Idle" /\ \E reason : Failed(reason)
    BY <1>11 DEF ConnectFails, ConnectFluke, NoAddress
  <2> QED BY <1>3, <2>1
<1> QED BY <1>4, <1>5, <1>6, <1>7, <1>8, <1>9, <1>10, <1>11 DEF Next, Driver, World

\* What the setup page hears of the last post, however posts, wipes and restarts
\* cross the attempts: "trying" exactly while a pair is being tried; "connected"
\* only of the pair posted last, proven and the one to go back to, and only while
\* the device is online or (a stale answer) back in its portal; a post from the
\* LAN that failed is told so until the next one.  And online is on what it holds.
THEOREM AnswersHonest == Spec => []AnswerIsHonest
<1>1. IInv /\ AnswerOK => AnswerIsHonest
  <2> SUFFICES ASSUME IInv, AnswerOK PROVE AnswerIsHonest
    OBVIOUS
  <2>1. PageSays = "Trying" <=> machine.state = "Trial"
    BY DEF AnswerOK, Truthful, Said, PageSays, TrialIsCurrent
  <2>2. ASSUME PageSays = "Connected"
        PROVE  /\ held.trial \in proven /\ held.stored = held.trial
               /\ machine.state \in {"Online", "Portal"}
    <3>1. TrialIsCurrent(machine) /\ Said(machine) = "Connected"
      BY <2>2 DEF PageSays, TrialIsCurrent, Said
    <3>2. ~machine.sticky
      BY <3>1 DEF AnswerOK, Truthful, Said, FailedFromTheLan
    <3> QED BY <3>1, <3>2 DEF AnswerOK, Truthful, TrialIsCurrent
  <2>3. FailedFromTheLan(machine) => PageSays = "Failed"
    BY DEF AnswerOK, Truthful, FailedFromTheLan, PageSays, TrialIsCurrent
  <2>4. machine.state = "Online" => held.stored \in proven /\ sta = held.stored
    BY DEF AnswerOK, IInv, Agreement, Coherent, HeldAgrees, DriverOK
  <2> QED BY <2>1, <2>2, <2>3, <2>4 DEF AnswerIsHonest
<1>2. IInv /\ AnswerOK /\ [Next]_vars => AnswerOK'
  BY AnswerStep
<1> QED BY <1>1, <1>2, AnswerInit, Inductive, PTL DEF Spec
=============================================================================
