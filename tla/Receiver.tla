------------------------------ MODULE Receiver ------------------------------
(***************************************************************************)
(* Who has the panel: the receive state machine of crates/receiver, driven *)
(* as frames_task of firmware/src/net.rs drives it - wake, drain the       *)
(* socket, decode the newest frame, answer, tick - with the control task's *)
(* requests between two iterations, because both hold CORE.                *)
(*                                                                         *)
(* A datagram is what the state machine reads of it.  Time is kept as ages *)
(* that stop growing where nothing reads them any further.  The counters   *)
(* that are written and never read back (frames_rejected, stale, seq_gaps, *)
(* the EWMAs) are left out; those that must add up are kept, modulo        *)
(* COUNTER.                                                                *)
(***************************************************************************)
EXTENDS Limiter, Sequences, SequencesExt

CONSTANTS
  Source,            \* source endpoints
  Ip, IpOf,          \* Host::ip_of
  None,
  Frames,            \* the well-formed frame datagrams that may arrive
  LOCK, STREAM_TIMEOUT, HOLD, BUSY_MIN, TELEMETRY_MIN,  \* Timing, in ticks
  IDENTIFY,          \* longest IDENTIFY, in ticks
  STATS_REQ_SLOTS, OUTBOX, SEQ, COUNTER,
  IdleModes,         \* the modes that SET_IDLE may ask for
  LinkFlaps,         \* bound: may the link go down?
  MaxDrain,          \* bound: frames in one drain
  DrainTime          \* bound: ticks that pass inside one drain

ASSUME ReceiverAssumption ==
  /\ IpOf \in [Source -> Ip]
  /\ None \notin Source /\ None \notin Int /\ None \notin Frames /\ Free # None
  /\ Frames \subseteq [from : Source, seq : 0..(SEQ - 1), final : BOOLEAN,
                       stats : BOOLEAN, decodes : BOOLEAN]
  /\ LOCK \in Nat \ {0} /\ STREAM_TIMEOUT \in Nat \ {0} /\ HOLD \in Nat \ {0}
  /\ LOCK <= STREAM_TIMEOUT
  /\ BUSY_MIN \in Nat /\ TELEMETRY_MIN \in Nat /\ IDENTIFY \in Nat
  /\ STATS_REQ_SLOTS \in Nat /\ OUTBOX \in Nat /\ SEQ \in Nat \ {0} /\ COUNTER \in Nat \ {0}
  /\ IdleModes # {} /\ IdleModes \subseteq {"Status", "HoldForever"} /\ LinkFlaps \in BOOLEAN
  /\ MaxDrain \in Nat /\ DrainTime \in Nat

VARIABLES
  task,        \* frames_task: "waiting", "draining", "answering"
  offered, elapsed,        \* in this drain: frames offered, ticks passed
  linkUp, linkWasUp,       \* the radio's link, and what the last iteration saw
  published,   \* what flush_frames returned: there is a frame to publish
  \* the stream
  state,       \* "Idle", "Live", "Hold"
  holder,      \* active_source
  quiet,       \* since last_frame_at, while there is a holder
  held,        \* since hold_since, in Hold
  lastSeq,     \* last_seq, or None without have_last_seq
  shown,       \* who sent the frame on the panel and its sequence number
  \* overlays and settings
  identify,    \* time left of IDENTIFY, or None
  idleMode,    \* HoldForever, or one of the modes that end HOLD
  \* the drain
  pending,     \* the survivor so far
  statsReq,    \* the sources that asked for telemetry
  outbox,      \* unsolicited datagrams this iteration sends
  \* limiters and counters
  busySent, telemetrySent,
  count,       \* frames_rx, shown, superseded, dropped_decode
  \* history
  sinceFrame,  \* per source: since its last accepted frame
  gaveUp,      \* per source: it released the panel, or lost it to silence
  owed,        \* per source: the wait a BUSY promised, None if void
  sinceBusy    \* per source: since the last BUSY to it

streamVars == <<state, holder, quiet, held, lastSeq>>
drainVars == <<pending, statsReq, offered, elapsed, published>>
limitVars == <<busySent, telemetrySent>>
overlayVars == <<identify, idleMode>>
linkVars == <<linkUp, linkWasUp>>
historyVars == <<sinceFrame, gaveUp, owed, sinceBusy>>
vars == <<task, streamVars, drainVars, limitVars, overlayVars, linkVars, historyVars,
          shown, outbox, count>>

Meta == [from : Source, seq : 0..(SEQ - 1)]
Packet == [to : Source, kind : {"Busy", "Telemetry"}, remaining : 0..LOCK]

TypeOK ==
  /\ task \in {"waiting", "draining", "answering"}
  /\ offered \in 0..MaxDrain /\ elapsed \in 0..DrainTime
  /\ linkUp \in BOOLEAN /\ linkWasUp \in BOOLEAN /\ published \in BOOLEAN
  /\ state \in {"Idle", "Live", "Hold"}
  /\ holder \in Source \cup {None}
  /\ quiet \in 0..STREAM_TIMEOUT /\ held \in 0..HOLD
  /\ lastSeq \in 0..(SEQ - 1) \cup {None}
  /\ shown \in Meta \cup {None}
  /\ identify \in 0..IDENTIFY \cup {None}
  /\ idleMode \in IdleModes
  /\ pending \in Frames \cup {None}
  /\ statsReq \in Seq(Source) /\ Len(statsReq) <= STATS_REQ_SLOTS
  /\ outbox \in Seq(Packet) /\ Len(outbox) <= OUTBOX
  /\ busySent \in [Source -> 0..BUSY_MIN \cup {Free}]
  /\ telemetrySent \in [Source -> 0..TELEMETRY_MIN \cup {Free}]
  /\ count \in [{"rx", "shown", "superseded", "decode"} -> 0..(COUNTER - 1)]
  /\ sinceFrame \in [Source -> 0..LOCK]
  /\ gaveUp \in [Source -> BOOLEAN]
  /\ owed \in [Source -> 0..LOCK \cup {None}]
  /\ sinceBusy \in [Source -> 0..BUSY_MIN]

\* Receiver::new, and frames_task before its first iteration.
Init ==
  /\ task = "waiting" /\ offered = 0 /\ elapsed = 0
  /\ linkUp = TRUE /\ linkWasUp = TRUE /\ published = FALSE
  /\ state = "Idle" /\ holder = None /\ quiet = 0 /\ held = 0 /\ lastSeq = None
  /\ shown = None
  /\ identify = None /\ idleMode \in IdleModes
  /\ pending = None /\ statsReq = <<>> /\ outbox = <<>>
  /\ busySent = EmptyTable(Source) /\ telemetrySent = EmptyTable(Source)
  /\ count = [c \in {"rx", "shown", "superseded", "decode"} |-> 0]
  /\ sinceFrame = [s \in Source |-> LOCK]
  /\ gaveUp = [s \in Source |-> TRUE]
  /\ owed = [s \in Source |-> None]
  /\ sinceBusy = [s \in Source |-> BUSY_MIN]

Least(a, b) == IF a < b THEN a ELSE b
Bump(c, n) == (count[c] + n) % COUNTER

-----------------------------------------------------------------------------
(* offer_frame: one datagram of the drain. *)

\* newer, of crates/proto/src/packet.rs: RFC 1982 arithmetic on the wire's width.
Newer(a, b) == LET d == (a - b) % SEQ IN d # 0 /\ 2 * d < SEQ

\* The mutants of an operator stand before it: what a plausible slip in that
\* code would make of it.
AdmitsEarly(from) == holder = None \/ holder = from \/ quiet + 1 >= LOCK

\* The admission rule: the panel is free, or this is its holder, or the
\* holder has been silent for LOCK.
Admits(from) == holder = None \/ holder = from \/ quiet >= LOCK

\* What a BUSY says of the holder: lock_holder_ms_remaining.
Remaining == LOCK - quiet

AskedFirst(f) ==
  IF f.stats /\ statsReq = <<>> THEN Append(statsReq, f.from) ELSE statsReq

\* wants_stats: remembered once per source, as long as there is room.
Asked(f) ==
  IF f.stats /\ f.from \notin ToSet(statsReq) /\ Len(statsReq) < STATS_REQ_SLOTS
  THEN Append(statsReq, f.from) ELSE statsReq

\* send_from_frame_sock, into the firmware's Outbox: a full one drops it.
Push(packet) == IF Len(outbox) < OUTBOX THEN Append(outbox, packet) ELSE outbox

Offering(f) ==
  /\ task = "draining" /\ offered < MaxDrain
  /\ offered' = offered + 1
  /\ UNCHANGED <<task, elapsed, published, shown, telemetrySent, overlayVars, linkVars>>

\* Another source holds the panel: frames_rejected, and BUSY with the wait.
OfferRefused(f) ==
  /\ Offering(f)
  /\ ~Admits(f.from)
  /\ IF Allowed(busySent, f.from, BUSY_MIN)
     THEN /\ busySent' \in Record(busySent, f.from)
          /\ outbox' = Push([to |-> f.from, kind |-> "Busy", remaining |-> Remaining])
          /\ IF outbox' # outbox
             THEN /\ owed' = [owed EXCEPT ![f.from] = Remaining]
                  /\ sinceBusy' = [sinceBusy EXCEPT ![f.from] = 0]
             ELSE UNCHANGED <<owed, sinceBusy>>
     ELSE UNCHANGED <<busySent, outbox, owed, sinceBusy>>
  /\ UNCHANGED <<streamVars, pending, statsReq, count, sinceFrame, gaveUp>>

OfferStaleRenews(f) ==
  /\ Offering(f)
  /\ f.from = holder /\ ~Newer(f.seq, lastSeq)
  /\ statsReq' = Asked(f)
  /\ quiet' = 0
  /\ UNCHANGED <<state, holder, held, lastSeq, pending, outbox, busySent, count, historyVars>>

\* A duplicate or a reordered frame of the holder's: its STATS_REQ still
\* counts, its silence does not end.
OfferStale(f) ==
  /\ Offering(f)
  /\ f.from = holder /\ ~Newer(f.seq, lastSeq)
  /\ statsReq' = Asked(f)
  /\ UNCHANGED <<streamVars, pending, outbox, busySent, count, historyVars>>

\* An earlier survivor is thrown away: the newest frame wins.
SurvivorFirst(f) == IF pending = None THEN f ELSE pending
Survivor(f) == f

\* Adopted if it is a new source, and accepted: the survivor so far.
OfferAccepted(f) ==
  /\ Offering(f)
  /\ Admits(f.from)
  /\ f.from = holder => Newer(f.seq, lastSeq)
  /\ holder' = f.from /\ state' = "Live"
  /\ lastSeq' = f.seq /\ quiet' = 0 /\ held' = 0
  /\ statsReq' = Asked(f)
  /\ count' = [count EXCEPT !["rx"] = Bump("rx", 1),
                 !["superseded"] = Bump("superseded", IF pending = None THEN 0 ELSE 1)]
  /\ pending' = Survivor(f)
  /\ sinceFrame' = [sinceFrame EXCEPT ![f.from] = 0]
  /\ gaveUp' = [gaveUp EXCEPT ![f.from] = FALSE]
  /\ owed' = [s \in Source |-> None]
  /\ UNCHANGED <<outbox, busySent, sinceBusy>>

Offer == \E f \in Frames : OfferRefused(f) \/ OfferStale(f) \/ OfferAccepted(f)

-----------------------------------------------------------------------------
(* One iteration of frames_task. *)

\* A datagram, or the 20 ms timer: CORE is taken and the drain begins.
Wake ==
  /\ task = "waiting"
  /\ task' = "draining"
  /\ UNCHANGED <<streamVars, drainVars, limitVars, overlayVars, linkVars, historyVars,
                 shown, outbox, count>>

\* Mutant: a stream that was live is over at once.
ReleasedToIdle ==
  /\ holder' = None /\ lastSeq' = None /\ quiet' = 0
  /\ state' = "Idle" /\ held' = 0
  /\ gaveUp' = [s \in Source |-> gaveUp[s] \/ s = holder]

\* release: the panel is free; a stream that was live is held.
Released ==
  /\ holder' = None /\ lastSeq' = None /\ quiet' = 0
  /\ state' = IF state = "Idle" THEN "Idle" ELSE "Hold"
  /\ held' = IF state = "Live" THEN 0 ELSE held
  /\ gaveUp' = [s \in Source |-> gaveUp[s] \/ s = holder]

\* A survivor that does not decode stays pending.
AfterFlushKept == IF pending # None /\ ~pending.decodes THEN pending ELSE None
AfterFlush == None

\* flush_frames, its first half: the survivor is decoded and shown, and a
\* FINAL that was shown releases the panel.
Flush ==
  /\ task = "draining"
  /\ task' = "answering"
  /\ pending' = AfterFlush /\ published' = (pending # None /\ pending.decodes)
  /\ \/ /\ pending = None
        /\ UNCHANGED <<streamVars, shown, count, gaveUp>>
     \/ /\ pending # None /\ ~pending.decodes
        /\ count' = [count EXCEPT !["decode"] = Bump("decode", 1)]
        /\ UNCHANGED <<streamVars, shown, gaveUp>>
     \/ /\ pending # None /\ pending.decodes
        /\ count' = [count EXCEPT !["shown"] = Bump("shown", 1)]
        /\ shown' = [from |-> pending.from, seq |-> pending.seq]
        /\ IF pending.final THEN Released ELSE UNCHANGED <<streamVars, gaveUp>>
  /\ UNCHANGED <<statsReq, offered, elapsed, outbox, limitVars, overlayVars, linkVars,
                 sinceFrame, owed, sinceBusy>>

\* flush_frames, its second half: one TELEMETRY per source that asked,
\* unless one went to it less than TELEMETRY_MIN ago.
Answer ==
  /\ task = "answering" /\ statsReq # <<>>
  /\ LET to == Head(statsReq) IN
       IF Allowed(telemetrySent, to, TELEMETRY_MIN)
       THEN /\ telemetrySent' \in Record(telemetrySent, to)
            /\ outbox' = Push([to |-> to, kind |-> "Telemetry", remaining |-> 0])
       ELSE UNCHANGED <<telemetrySent, outbox>>
  /\ statsReq' = Tail(statsReq)
  /\ UNCHANGED <<task, streamVars, pending, published, offered, elapsed, busySent, overlayVars,
                 linkVars, historyVars, shown, count>>

\* link_down and tick; then CORE is given back and the outbox is sent.
LinkDropped == linkWasUp /\ ~linkUp
StreamStopped == state = "Live" /\ (LinkDropped \/ quiet >= STREAM_TIMEOUT)
HoldOverOnline ==
  state = "Hold" /\ idleMode # "HoldForever" /\ held >= HOLD /\ linkUp
HoldOver == state = "Hold" /\ idleMode # "HoldForever" /\ held >= HOLD

Tick ==
  /\ task = "answering" /\ statsReq = <<>>
  /\ task' = "waiting"
  /\ offered' = 0 /\ elapsed' = 0 /\ published' = FALSE /\ outbox' = <<>>
  /\ linkWasUp' = linkUp
  /\ identify' = IF identify = 0 THEN None ELSE identify
  /\ \/ /\ StreamStopped
        /\ Released
     \/ /\ HoldOver
        /\ state' = "Idle" /\ held' = 0
        /\ UNCHANGED <<holder, quiet, lastSeq, gaveUp>>
     \/ /\ ~StreamStopped /\ ~HoldOver
        /\ UNCHANGED <<streamVars, gaveUp>>
  /\ UNCHANGED <<pending, statsReq, limitVars, idleMode, linkUp, sinceFrame, owed,
                 sinceBusy, shown, count>>

-----------------------------------------------------------------------------
(* control, apply: the requests that the state machine reads.  CORE is free, *)
(* so no drain is under way.                                               *)

Identify(duration) ==
  /\ task = "waiting"
  /\ identify' = IF duration = 0 THEN None ELSE duration
  /\ UNCHANGED <<task, streamVars, drainVars, limitVars, idleMode, linkVars, historyVars,
                 shown, outbox, count>>

SetIdle(mode) ==
  /\ task = "waiting"
  /\ idleMode' = mode
  /\ UNCHANGED <<task, streamVars, drainVars, limitVars, identify, linkVars, historyVars,
                 shown, outbox, count>>

ResetStats ==
  /\ task = "waiting"
  /\ count' = [c \in DOMAIN count |-> 0]
  /\ UNCHANGED <<task, streamVars, drainVars, limitVars, overlayVars, linkVars, historyVars,
                 shown, outbox>>

\* RELEASE arrives on another port, so it is matched on the address alone;
\* from any other address it is acknowledged and changes nothing.
Release(ip) ==
  /\ task = "waiting"
  /\ holder # None /\ IpOf[holder] = ip
  /\ Released
  /\ UNCHANGED <<task, drainVars, limitVars, overlayVars, linkVars, sinceFrame, owed,
                 sinceBusy, shown, outbox, count>>

Control ==
  \/ \E duration \in 0..IDENTIFY : Identify(duration)
  \/ \E mode \in IdleModes : SetIdle(mode)
  \/ ResetStats
  \/ \E ip \in Ip : Release(ip)

-----------------------------------------------------------------------------
(* The environment. *)

LinkChanges ==
  /\ LinkFlaps
  /\ task = "waiting"
  /\ linkUp' = ~linkUp
  /\ UNCHANGED <<task, streamVars, drainVars, limitVars, overlayVars, linkWasUp,
                 historyVars, shown, outbox, count>>

\* A tick of the clock, between iterations or (at most DrainTime) inside a drain.
Advance ==
  /\ \/ task = "waiting" /\ UNCHANGED elapsed
     \/ task = "draining" /\ elapsed < DrainTime /\ elapsed' = elapsed + 1
  /\ quiet' = IF holder = None THEN 0 ELSE Least(quiet + 1, STREAM_TIMEOUT)
  /\ held' = IF state = "Hold" THEN Least(held + 1, HOLD) ELSE held
  /\ identify' = IF identify \in {None, 0} THEN identify ELSE identify - 1
  /\ busySent' = Aged(busySent, BUSY_MIN)
  /\ telemetrySent' = Aged(telemetrySent, TELEMETRY_MIN)
  /\ sinceFrame' = [s \in Source |-> Least(sinceFrame[s] + 1, LOCK)]
  /\ owed' = [s \in Source |-> IF owed[s] \in {None, 0} THEN owed[s] ELSE owed[s] - 1]
  /\ sinceBusy' = [s \in Source |-> Least(sinceBusy[s] + 1, BUSY_MIN)]
  /\ UNCHANGED <<task, state, holder, lastSeq, pending, published, statsReq, offered, idleMode,
                 linkVars, gaveUp, shown, outbox, count>>

FramesTask == Wake \/ Flush \/ Answer \/ Tick

Next == Offer \/ FramesTask \/ Control \/ LinkChanges \/ Advance

Spec == Init /\ [][Next]_vars

\* The task is woken every 20 ms and a drain ends when the socket is empty;
\* time passes however busy it is.  Nobody is obliged to send anything.
FairSpec == Spec /\ WF_vars(FramesTask) /\ SF_vars(Advance)

-----------------------------------------------------------------------------
(* Correctness. *)

\* The parts of the lock agree: it is held exactly while the stream is live,
\* and exactly then there is a sequence number to compare with.
LockAgrees ==
  /\ holder # None <=> state = "Live"
  /\ holder # None <=> lastSeq # None

\* The survivor of a drain is the holder's newest frame, whatever takeovers
\* the drain went through, so what is decoded is never a frame of somebody
\* who has just lost the panel.
SurvivorIsTheHolders ==
  pending # None => pending.from = holder /\ pending.seq = lastSeq

\* protocol-v1.md 3.3: every accepted frame is shown, superseded or fails to
\* decode, exactly once - on wrapping counters, RESET_STATS included.
LedgerBalances ==
  count["rx"] = (count["shown"] + count["superseded"] + count["decode"]
                 + (IF pending = None THEN 0 ELSE 1)) % COUNTER

\* The picture changes hands only when everybody else's last accepted frame
\* is LOCK old or they gave the panel up.
NeverStolen ==
  [][shown' # shown => \A s \in Source \ {shown'.from} : sinceFrame[s] >= LOCK \/ gaveUp[s]]_vars

\* protocol-v1.md 6.2: a sender that waits as long as its BUSY said, with no
\* frame of the holder's accepted meanwhile, is admitted.
BusyIsHonest == \A s \in Source : owed[s] = 0 => Admits(s)

\* protocol-v1.md 3.1: whoever the panel admits and asks is remembered until
\* it is answered; the two slots are enough for any drain.
AskersAreKept ==
  [][\A f \in Frames : f.stats /\ (OfferStale(f) \/ OfferAccepted(f))
       => f.from \in ToSet(statsReq')]_vars

\* protocol-v1.md 6.2: BUSY at most once per BUSY_MIN to one source.
BusyPaced == [][\A s \in Source : sinceBusy'[s] < sinceBusy[s] => sinceBusy[s] >= BUSY_MIN]_vars

\* What frames_task relies on when it composes the panel: whatever frames,
\* timers, releases and link drops one turn of it goes through, the receiver
\* goes through a turn of Stream - no frame is published but while the stream
\* is live, and none from which the same turn begins to fade away.
Seen == INSTANCE Stream WITH identify <- identify # None
KeepsStream == Seen!Spec

\* A stream without accepted frames does not keep the panel for good, however
\* many stale frames its sender goes on sending.
StreamsEnd ==
  (<>[][\A f \in Frames : ~OfferAccepted(f)]_vars) => []<>(state # "Live")

\* The last picture is not held for good, unless that is the idle mode.
HoldEnds == []<>(state # "Hold" \/ idleMode = "HoldForever")
=============================================================================
