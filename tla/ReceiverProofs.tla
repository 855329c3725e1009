--------------------------- MODULE ReceiverProofs ---------------------------
(***************************************************************************)
(* Theorems about the receive state machine of module Receiver, for any    *)
(* set of senders, any frames, any drain and any choice of the timers.     *)
(***************************************************************************)
EXTENDS Receiver, FiniteSetTheorems, SequenceTheorems, TLAPS

\* A survivor exists only inside a drain, so no request comes between it and
\* its flush.
PendingInDrain == pending # None => task = "draining"

\* The holder's silence and the age of its last accepted frame are one.
AgesAgree == holder # None => sinceFrame[holder] = Least(quiet, LOCK)

\* Whoever does not hold the panel has given it up or been silent for LOCK.
OthersGone == \A s \in Source : s # holder => sinceFrame[s] >= LOCK \/ gaveUp[s]

\* When a promised wait is over, the holder's silence has lasted LOCK.
OwedCovers ==
  holder # None => \A s \in Source : owed[s] # None => owed[s] + quiet >= LOCK

IInv ==
  /\ TypeOK /\ LockAgrees /\ SurvivorIsTheHolders
  /\ PendingInDrain /\ AgesAgree /\ OthersGone /\ OwedCovers

(***************************************************************************)
(* Type correctness, in groups small enough for the provers.               *)
(***************************************************************************)

TaskOK ==
  /\ task \in {"waiting", "draining", "answering"}
  /\ offered \in 0..MaxDrain /\ elapsed \in 0..DrainTime
  /\ linkUp \in BOOLEAN /\ linkWasUp \in BOOLEAN /\ published \in BOOLEAN

StreamOK ==
  /\ state \in {"Idle", "Live", "Hold"}
  /\ holder \in Source \cup {None}
  /\ quiet \in 0..STREAM_TIMEOUT /\ held \in 0..HOLD
  /\ lastSeq \in 0..(SEQ - 1) \cup {None}

PictureOK ==
  /\ shown \in Meta \cup {None}
  /\ identify \in 0..IDENTIFY \cup {None} /\ idleMode \in IdleModes
  /\ pending \in Frames \cup {None}
  /\ count \in [{"rx", "shown", "superseded", "decode"} -> 0..(COUNTER - 1)]

AnswersOK ==
  /\ statsReq \in Seq(Source) /\ Len(statsReq) <= STATS_REQ_SLOTS
  /\ outbox \in Seq(Packet) /\ Len(outbox) <= OUTBOX
  /\ busySent \in [Source -> 0..BUSY_MIN \cup {Free}]
  /\ telemetrySent \in [Source -> 0..TELEMETRY_MIN \cup {Free}]

HistoryOK ==
  /\ sinceFrame \in [Source -> 0..LOCK]
  /\ gaveUp \in [Source -> BOOLEAN]
  /\ owed \in [Source -> 0..LOCK \cup {None}]
  /\ sinceBusy \in [Source -> 0..BUSY_MIN]

LEMMA Timers ==
  /\ LOCK \in Nat \ {0} /\ STREAM_TIMEOUT \in Nat \ {0} /\ HOLD \in Nat \ {0}
  /\ LOCK <= STREAM_TIMEOUT
  /\ BUSY_MIN \in Nat /\ TELEMETRY_MIN \in Nat /\ IDENTIFY \in Nat /\ DrainTime \in Nat
  /\ OUTBOX \in Nat
BY ReceiverAssumption

LEMMA TypeParts == TypeOK <=> TaskOK /\ StreamOK /\ PictureOK /\ AnswersOK /\ HistoryOK
BY DEF TypeOK, TaskOK, StreamOK, PictureOK, AnswersOK, HistoryOK

LEMMA TypePartsNext ==
  TaskOK' /\ StreamOK' /\ PictureOK' /\ AnswersOK' /\ HistoryOK' => TypeOK'
BY DEF TypeOK, TaskOK, StreamOK, PictureOK, AnswersOK, HistoryOK

\* Bump keeps a counter on its width.
LEMMA BumpType ==
  ASSUME TypeOK, NEW c \in {"rx", "shown", "superseded", "decode"}, NEW n \in Nat
  PROVE  Bump(c, n) \in 0..(COUNTER - 1)
<1>1. count[c] \in Int
  BY DEF TypeOK
<1>2. \A k \in Int : k % COUNTER \in 0..(COUNTER - 1)
  BY ReceiverAssumption
<1> QED BY <1>1, <1>2 DEF Bump

\* Limiter::allow records within the table.
LEMMA RecordType ==
  ASSUME NEW interval \in Nat, NEW table \in [Source -> 0..interval \cup {Free}],
         NEW key \in Source, NEW next \in Record(table, key)
  PROVE  next \in [Source -> 0..interval \cup {Free}]
BY DEF Record, Oldest, Tracked

\* An asker is added only while there is room.
LEMMA AskedType ==
  ASSUME TypeOK, NEW f \in Frames
  PROVE  Asked(f) \in Seq(Source) /\ Len(Asked(f)) <= STATS_REQ_SLOTS
<1>1. f.from \in Source
  BY ReceiverAssumption
<1> QED BY <1>1, ReceiverAssumption DEF Asked, TypeOK

\* A full outbox stays as it is.
LEMMA PushType ==
  ASSUME TypeOK, NEW p \in Packet
  PROVE  Push(p) \in Seq(Packet) /\ Len(Push(p)) <= OUTBOX
BY ReceiverAssumption DEF Push, TypeOK

LEMMA ReleasedType ==
  ASSUME TypeOK, Released
  PROVE  StreamOK' /\ gaveUp' \in [Source -> BOOLEAN]
<1>1. StreamOK'
  BY ReceiverAssumption DEF Released, TypeOK, StreamOK
<1>2. gaveUp' \in [Source -> BOOLEAN]
  BY Zenon DEF Released, TypeOK
<1> QED BY <1>1, <1>2

LEMMA OfferingType ==
  ASSUME TypeOK, NEW f \in Frames, Offering(f)
  PROVE  /\ TaskOK' /\ shown' = shown
         /\ UNCHANGED overlayVars /\ telemetrySent' = telemetrySent
<1>1. offered' \in 0..MaxDrain /\ elapsed' \in 0..DrainTime
  BY ReceiverAssumption DEF Offering, TypeOK
<1>2. linkUp' \in BOOLEAN /\ linkWasUp' \in BOOLEAN
  BY DEF Offering, TypeOK, linkVars
<1>3. task' = task /\ published' = published /\ shown' = shown /\ UNCHANGED overlayVars /\ telemetrySent' = telemetrySent
  BY DEF Offering
<1> QED BY <1>1, <1>2, <1>3 DEF TypeOK, TaskOK

LEMMA OfferRefusedType == ASSUME TypeOK, NEW f \in Frames, OfferRefused(f) PROVE TypeOK'
<1>1. f.from \in Source /\ holder \in Source /\ quiet \in 0..LOCK /\ Remaining \in 0..LOCK
  BY ReceiverAssumption DEF OfferRefused, Admits, TypeOK, Remaining
<1>2. TaskOK' /\ StreamOK' /\ PictureOK'
  BY OfferingType DEF OfferRefused, TypeOK, StreamOK, PictureOK, streamVars, overlayVars
<1>3. busySent' \in [Source -> 0..BUSY_MIN \cup {Free}]
  BY <1>1, RecordType, ReceiverAssumption DEF OfferRefused, TypeOK
<1>4. outbox' \in Seq(Packet) /\ Len(outbox') <= OUTBOX
  <2>1. [to |-> f.from, kind |-> "Busy", remaining |-> Remaining] \in Packet
    BY <1>1 DEF Packet
  <2> QED BY <2>1, PushType DEF OfferRefused, TypeOK
<1>5. HistoryOK'
  <2>1. sinceFrame' = sinceFrame /\ gaveUp' = gaveUp
    BY DEF OfferRefused
  <2>2. /\ owed' \in {owed, [owed EXCEPT ![f.from] = Remaining]}
        /\ sinceBusy' \in {sinceBusy, [sinceBusy EXCEPT ![f.from] = 0]}
    BY DEF OfferRefused
  <2>3. /\ owed \in [Source -> 0..LOCK \cup {None}]
        /\ sinceBusy \in [Source -> 0..BUSY_MIN] /\ 0 \in 0..BUSY_MIN
    BY Timers DEF TypeOK
  <2>4. owed' \in [Source -> 0..LOCK \cup {None}]
    BY <1>1, <2>2, <2>3, Zenon
  <2>5. sinceBusy' \in [Source -> 0..BUSY_MIN]
    BY <1>1, <2>2, <2>3, Zenon
  <2> QED BY <2>1, <2>4, <2>5 DEF TypeOK, HistoryOK
<1>6. AnswersOK'
  BY <1>3, <1>4 DEF OfferRefused, Offering, TypeOK, AnswersOK
<1> QED BY <1>2, <1>5, <1>6, TypePartsNext

LEMMA OfferStaleType == ASSUME TypeOK, NEW f \in Frames, OfferStale(f) PROVE TypeOK'
<1>1. statsReq' \in Seq(Source) /\ Len(statsReq') <= STATS_REQ_SLOTS
  BY AskedType DEF OfferStale
<1>2. AnswersOK'
  BY <1>1 DEF OfferStale, Offering, TypeOK, AnswersOK
<1>3. TaskOK' /\ StreamOK' /\ PictureOK'
  BY OfferingType DEF OfferStale, TypeOK, StreamOK, PictureOK, streamVars, overlayVars
<1>4. HistoryOK'
  BY DEF OfferStale, TypeOK, HistoryOK, historyVars
<1> QED BY <1>2, <1>3, <1>4, TypePartsNext

LEMMA OfferAcceptedType == ASSUME TypeOK, NEW f \in Frames, OfferAccepted(f) PROVE TypeOK'
<1>1. f.from \in Source /\ f.seq \in 0..(SEQ - 1)
  BY ReceiverAssumption
<1>2. AnswersOK'
  <2>1. statsReq' \in Seq(Source) /\ Len(statsReq') <= STATS_REQ_SLOTS
    BY AskedType DEF OfferAccepted
  <2> QED BY <2>1 DEF OfferAccepted, Offering, TypeOK, AnswersOK
<1>3. TaskOK'
  BY OfferingType DEF OfferAccepted
<1>4. StreamOK'
  BY <1>1, ReceiverAssumption DEF OfferAccepted, TypeOK, StreamOK
<1>5. count' \in [{"rx", "shown", "superseded", "decode"} -> 0..(COUNTER - 1)]
  <2>1. Bump("rx", 1) \in 0..(COUNTER - 1)
    BY BumpType
  <2>2. Bump("superseded", IF pending = None THEN 0 ELSE 1) \in 0..(COUNTER - 1)
    BY BumpType
  <2> QED BY <2>1, <2>2 DEF OfferAccepted, TypeOK
<1>6. PictureOK'
  BY <1>5 DEF OfferAccepted, Offering, Survivor, TypeOK, PictureOK, overlayVars
<1>7. HistoryOK'
  <2>1. gaveUp' \in [Source -> BOOLEAN]
    BY <1>1, Zenon DEF OfferAccepted, TypeOK
  <2> QED BY <1>1, <2>1, ReceiverAssumption DEF OfferAccepted, TypeOK, HistoryOK
<1> QED BY <1>2, <1>3, <1>4, <1>6, <1>7, TypePartsNext

LEMMA FlushType == ASSUME TypeOK, Flush PROVE TypeOK'
<1>1. TaskOK' /\ AnswersOK'
  BY DEF Flush, TypeOK, TaskOK, AnswersOK, limitVars, linkVars
<1>2. StreamOK' /\ gaveUp' \in [Source -> BOOLEAN]
  <2>1. CASE Released
    BY <2>1, ReleasedType
  <2>2. CASE UNCHANGED <<streamVars, gaveUp>>
    BY <2>2 DEF TypeOK, StreamOK, streamVars
  <2> QED BY <2>1, <2>2 DEF Flush
<1>3. HistoryOK'
  BY <1>2 DEF Flush, TypeOK, HistoryOK
<1>4. count' \in [{"rx", "shown", "superseded", "decode"} -> 0..(COUNTER - 1)]
  <2>1. Bump("shown", 1) \in 0..(COUNTER - 1) /\ Bump("decode", 1) \in 0..(COUNTER - 1)
    BY BumpType
  <2> QED BY <2>1 DEF Flush, TypeOK
<1>5. shown' \in Meta \cup {None}
  BY ReceiverAssumption DEF Flush, TypeOK, Meta
<1>6. PictureOK'
  BY <1>4, <1>5 DEF Flush, AfterFlush, TypeOK, PictureOK, overlayVars
<1> QED BY <1>1, <1>2, <1>3, <1>6, TypePartsNext

LEMMA AnswerType == ASSUME TypeOK, Answer PROVE TypeOK'
<1>1. Head(statsReq) \in Source /\ Tail(statsReq) \in Seq(Source)
      /\ Len(Tail(statsReq)) <= STATS_REQ_SLOTS
  BY ReceiverAssumption DEF Answer, TypeOK
<1>2. telemetrySent' \in [Source -> 0..TELEMETRY_MIN \cup {Free}]
  BY <1>1, RecordType, ReceiverAssumption DEF Answer, TypeOK
<1>3. outbox' \in Seq(Packet) /\ Len(outbox') <= OUTBOX
  <2>1. [to |-> Head(statsReq), kind |-> "Telemetry", remaining |-> 0] \in Packet
    BY <1>1, ReceiverAssumption DEF Packet
  <2> QED BY <2>1, PushType DEF Answer, TypeOK
<1>4. AnswersOK'
  BY <1>1, <1>2, <1>3 DEF Answer, TypeOK, AnswersOK
<1>5. TaskOK' /\ StreamOK' /\ PictureOK' /\ HistoryOK'
  BY DEF Answer, TypeOK, TaskOK, StreamOK, PictureOK, HistoryOK, streamVars, overlayVars,
     linkVars, historyVars
<1> QED BY <1>4, <1>5, TypePartsNext

LEMMA TickType == ASSUME TypeOK, Tick PROVE TypeOK'
<1>1. TaskOK'
  <2>1. 0 \in 0..MaxDrain /\ 0 \in 0..DrainTime
    BY ReceiverAssumption
  <2> QED BY <2>1 DEF Tick, TypeOK, TaskOK
<1>2. StreamOK' /\ gaveUp' \in [Source -> BOOLEAN]
  <2>1. CASE Released
    BY <2>1, ReleasedType
  <2>2. CASE ~Released
    <3>1. StreamOK'
      <4>1. CASE UNCHANGED streamVars
        BY <4>1 DEF TypeOK, StreamOK, streamVars
      <4>2. CASE state' = "Idle" /\ held' = 0 /\ UNCHANGED <<holder, quiet, lastSeq>>
        BY <4>2, ReceiverAssumption DEF TypeOK, StreamOK
      <4> QED BY <2>2, <4>1, <4>2 DEF Tick
    <3>2. UNCHANGED gaveUp
      BY <2>2 DEF Tick
    <3> QED BY <3>1, <3>2 DEF TypeOK
  <2> QED BY <2>1, <2>2
<1>3. AnswersOK'
  <2>1. outbox' \in Seq(Packet) /\ Len(outbox') <= OUTBOX
    BY Timers DEF Tick
  <2> QED BY <2>1 DEF Tick, TypeOK, AnswersOK, limitVars
<1>4. PictureOK'
  BY DEF Tick, TypeOK, PictureOK
<1>5. HistoryOK'
  BY <1>2 DEF Tick, TypeOK, HistoryOK
<1> QED BY <1>1, <1>2, <1>3, <1>4, <1>5, TypePartsNext

LEMMA ControlType == ASSUME TypeOK, Control PROVE TypeOK'
<1>1. ASSUME NEW d \in 0..IDENTIFY, Identify(d) PROVE TypeOK'
  BY <1>1, ReceiverAssumption DEF Identify, TypeOK, streamVars, drainVars, limitVars,
     linkVars, historyVars
<1>2. ASSUME NEW m \in IdleModes, SetIdle(m) PROVE TypeOK'
  BY <1>2 DEF SetIdle, TypeOK, streamVars, drainVars, limitVars, linkVars, historyVars
<1>3. CASE ResetStats
  <2>1. PictureOK'
    BY <1>3, ReceiverAssumption DEF ResetStats, TypeOK, PictureOK, drainVars, overlayVars
  <2>2. TaskOK' /\ StreamOK' /\ AnswersOK' /\ HistoryOK'
    BY <1>3 DEF ResetStats, TypeOK, TaskOK, StreamOK, AnswersOK, HistoryOK, streamVars,
       drainVars, limitVars, linkVars, historyVars
  <2> QED BY <2>1, <2>2, TypePartsNext
<1>4. ASSUME NEW ip \in Ip, Release(ip) PROVE TypeOK'
  <2>1. StreamOK' /\ gaveUp' \in [Source -> BOOLEAN]
    BY <1>4, ReleasedType DEF Release
  <2>2. TaskOK' /\ PictureOK' /\ AnswersOK'
    BY <1>4 DEF Release, TypeOK, TaskOK, PictureOK, AnswersOK, drainVars, limitVars,
       overlayVars, linkVars
  <2>3. HistoryOK'
    BY <1>4, <2>1 DEF Release, TypeOK, HistoryOK
  <2> QED BY <2>1, <2>2, <2>3, TypePartsNext
<1> QED BY <1>1, <1>2, <1>3, <1>4 DEF Control

LEMMA AdvanceType == ASSUME TypeOK, Advance PROVE TypeOK'
<1>1. TaskOK'
  <2>1. elapsed \in 0..DrainTime
    BY DEF TypeOK
  <2>2. elapsed' \in 0..DrainTime
    <3>1. CASE elapsed' = elapsed
      BY <2>1, <3>1
    <3>2. CASE elapsed < DrainTime /\ elapsed' = elapsed + 1
      BY <2>1, <3>2, Timers
    <3> QED BY <3>1, <3>2 DEF Advance
  <2> QED BY <2>2 DEF Advance, TypeOK, TaskOK, linkVars
<1>6. StreamOK'
  <2>1. quiet' \in 0..STREAM_TIMEOUT /\ held' \in 0..HOLD
    BY Timers DEF Advance, Least, TypeOK
  <2> QED BY <2>1 DEF Advance, TypeOK, StreamOK
<1>2. PictureOK'
  BY ReceiverAssumption DEF Advance, TypeOK, PictureOK
<1>3. \A interval \in Nat : \A table \in [Source -> 0..interval \cup {Free}] :
        Aged(table, interval) \in [Source -> 0..interval \cup {Free}]
  BY LimitAssumption DEF Aged
<1>4. AnswersOK'
  BY <1>3, ReceiverAssumption DEF Advance, TypeOK, AnswersOK
<1>5. HistoryOK'
  <2>1. /\ sinceFrame' = [s \in Source |-> Least(sinceFrame[s] + 1, LOCK)]
        /\ sinceBusy' = [s \in Source |-> Least(sinceBusy[s] + 1, BUSY_MIN)]
        /\ owed' = [s \in Source |-> IF owed[s] \in {None, 0} THEN owed[s] ELSE owed[s] - 1]
    BY DEF Advance
  <2>2. ASSUME NEW s \in Source
        PROVE  /\ Least(sinceFrame[s] + 1, LOCK) \in 0..LOCK
               /\ Least(sinceBusy[s] + 1, BUSY_MIN) \in 0..BUSY_MIN
    <3>1. sinceFrame[s] \in 0..LOCK /\ sinceBusy[s] \in 0..BUSY_MIN
      BY DEF TypeOK
    <3> QED BY <3>1, Timers DEF Least
  <2>3. ASSUME NEW s \in Source
        PROVE  (IF owed[s] \in {None, 0} THEN owed[s] ELSE owed[s] - 1) \in 0..LOCK \cup {None}
    <3>1. owed[s] \in 0..LOCK \cup {None}
      BY DEF TypeOK
    <3> QED BY <3>1, Timers
  <2> QED BY <2>1, <2>2, <2>3 DEF Advance, TypeOK, HistoryOK
<1> QED BY <1>1, <1>2, <1>4, <1>5, <1>6, TypePartsNext

LEMMA StepType == TypeOK /\ [Next]_vars => TypeOK'
<1> SUFFICES ASSUME TypeOK, [Next]_vars PROVE TypeOK'
  OBVIOUS
<1>1. CASE Wake \/ LinkChanges \/ UNCHANGED vars
  BY <1>1 DEF Wake, LinkChanges, vars, TypeOK, streamVars, drainVars, limitVars,
     overlayVars, linkVars, historyVars
<1> QED BY <1>1, OfferRefusedType, OfferStaleType, OfferAcceptedType, FlushType, AnswerType,
     TickType, ControlType, AdvanceType DEF Next, Offer, FramesTask

LEMMA InitType == Init => TypeOK
<1> SUFFICES ASSUME Init PROVE TypeOK
  OBVIOUS
<1>1. TaskOK
  <2>1. 0 \in 0..MaxDrain /\ 0 \in 0..DrainTime
    BY ReceiverAssumption
  <2> QED BY <2>1 DEF Init, TaskOK
<1>4. StreamOK /\ PictureOK
  BY ReceiverAssumption DEF Init, StreamOK, PictureOK
<1>2. AnswersOK
  BY ReceiverAssumption, LimitAssumption DEF Init, AnswersOK, EmptyTable
<1>3. HistoryOK
  BY ReceiverAssumption DEF Init, HistoryOK
<1> QED BY <1>1, <1>2, <1>3, <1>4, TypeParts

\* Every variable of the receiver keeps its type: the ages stay under the
\* timers that read them, the askers and the outbox in their slots.
THEOREM TypeCorrect == Spec => []TypeOK
BY InitType, StepType, PTL DEF Spec

(***************************************************************************)
(* The lock.                                                               *)
(***************************************************************************)

\* What the invariant says beyond the types.
LockInv ==
  /\ LockAgrees /\ SurvivorIsTheHolders
  /\ PendingInDrain /\ AgesAgree /\ OthersGone /\ OwedCovers

LEMMA FrameType ==
  ASSUME NEW f \in Frames
  PROVE  f.from \in Source /\ f.seq \in 0..(SEQ - 1) /\ f.from # None /\ f.seq # None
BY ReceiverAssumption

\* Steps that touch neither the lock nor the ages it is compared with.
LEMMA ElsewhereSafe ==
  ASSUME LockInv, UNCHANGED <<streamVars, pending, sinceFrame, gaveUp, owed>>,
         pending = None \/ task' = task
  PROVE  LockInv'
BY DEF LockInv, LockAgrees, SurvivorIsTheHolders, PendingInDrain, AgesAgree, OthersGone,
   OwedCovers, streamVars, Least

\* The panel is given up: by a FINAL, by silence, by the link, by RELEASE.
LEMMA ReleasedSafe ==
  ASSUME IInv, Released, pending' = None, UNCHANGED <<sinceFrame, owed>>
  PROVE  LockInv'
<1>1. LockAgrees'
  BY ReceiverAssumption DEF Released, LockAgrees
<1>2. OthersGone'
  BY DEF Released, IInv, TypeOK, OthersGone
<1>3. (SurvivorIsTheHolders /\ PendingInDrain /\ AgesAgree /\ OwedCovers)'
  BY DEF Released, SurvivorIsTheHolders, PendingInDrain, AgesAgree, OwedCovers
<1> QED BY <1>1, <1>2, <1>3 DEF LockInv

\* A refusal promises what is left of the holder's LOCK.
LEMMA OfferRefusedSafe == ASSUME IInv, NEW f \in Frames, OfferRefused(f) PROVE LockInv'
<1>1. /\ UNCHANGED <<streamVars, pending, sinceFrame, gaveUp, task>>
      /\ owed' \in {owed, [owed EXCEPT ![f.from] = Remaining]}
  BY DEF OfferRefused, Offering
<1>2. (LockAgrees /\ SurvivorIsTheHolders /\ PendingInDrain /\ AgesAgree /\ OthersGone)'
  BY <1>1 DEF IInv, LockAgrees, SurvivorIsTheHolders, PendingInDrain, AgesAgree, OthersGone,
     streamVars, Least
<1>3. OwedCovers'
  <2>1. f.from \in Source
    BY FrameType
  <2>2. quiet \in Int /\ LOCK \in Int /\ quiet' = quiet /\ holder' = holder
    BY <1>1, Timers DEF IInv, TypeOK, streamVars
  <2>3. ASSUME NEW s \in Source, holder # None, owed'[s] # None
        PROVE  owed'[s] + quiet >= LOCK
    <3>1. CASE owed'[s] = owed[s]
      BY <2>3, <3>1 DEF IInv, OwedCovers
    <3>2. CASE owed'[s] # owed[s]
      <4>1. owed'[s] = Remaining
        BY <1>1, <2>1, <3>2 DEF IInv, TypeOK
      <4> QED BY <2>2, <4>1 DEF Remaining
    <3> QED BY <3>1, <3>2
  <2> QED BY <2>2, <2>3 DEF OwedCovers
<1> QED BY <1>2, <1>3 DEF LockInv

\* Admission: the newcomer holds the panel, and whoever held it before has
\* been silent for LOCK.
LEMMA OfferAcceptedSafe == ASSUME IInv, NEW f \in Frames, OfferAccepted(f) PROVE LockInv'
<1>1. f.from \in Source /\ f.from # None /\ f.seq # None
  BY FrameType
<1>2. /\ holder' = f.from /\ state' = "Live" /\ lastSeq' = f.seq /\ quiet' = 0
      /\ pending' = f /\ task' = task /\ task = "draining"
      /\ sinceFrame' = [sinceFrame EXCEPT ![f.from] = 0]
      /\ gaveUp' = [gaveUp EXCEPT ![f.from] = FALSE]
      /\ owed' = [s \in Source |-> None]
  BY DEF OfferAccepted, Offering, Survivor
<1>3. (LockAgrees /\ SurvivorIsTheHolders /\ PendingInDrain)'
  BY <1>1, <1>2 DEF LockAgrees, SurvivorIsTheHolders, PendingInDrain
<1>4. AgesAgree'
  BY <1>1, <1>2, Timers DEF IInv, TypeOK, AgesAgree, Least
<1>5. OthersGone'
  <2>1. ASSUME NEW s \in Source, s # f.from PROVE sinceFrame'[s] >= LOCK \/ gaveUp'[s]
    <3>1. sinceFrame'[s] = sinceFrame[s] /\ gaveUp'[s] = gaveUp[s]
      BY <1>2, <2>1 DEF IInv, TypeOK
    <3>2. CASE s # holder
      BY <3>1, <3>2 DEF IInv, OthersGone
    <3>3. CASE s = holder
      <4>1. quiet >= LOCK
        BY <2>1, <3>3, ReceiverAssumption DEF OfferAccepted, Admits
      <4>2. sinceFrame[s] = Least(quiet, LOCK)
        BY <3>3, ReceiverAssumption DEF IInv, AgesAgree
      <4>3. quiet \in Int /\ LOCK \in Int
        BY Timers DEF IInv, TypeOK
      <4> QED BY <3>1, <4>1, <4>2, <4>3 DEF Least
    <3> QED BY <3>2, <3>3
  <2> QED BY <1>2, <2>1 DEF OthersGone
<1>6. OwedCovers'
  BY <1>2 DEF OwedCovers
<1> QED BY <1>3, <1>4, <1>5, <1>6 DEF LockInv

\* The flush ends the survivor, whatever becomes of it.
LEMMA FlushSafe == ASSUME IInv, Flush PROVE LockInv'
<1>1. pending' = None /\ UNCHANGED <<sinceFrame, owed>>
  BY DEF Flush, AfterFlush
<1>2. CASE Released
  BY <1>1, <1>2, ReleasedSafe
<1>3. CASE UNCHANGED <<streamVars, gaveUp>>
  BY <1>1, <1>3 DEF IInv, LockInv, LockAgrees, SurvivorIsTheHolders, PendingInDrain,
     AgesAgree, OthersGone, OwedCovers, streamVars, Least
<1> QED BY <1>2, <1>3 DEF Flush

\* The timers: a stream that stopped is released, a HOLD that is over frees
\* nothing that was held.
LEMMA TickSafe == ASSUME IInv, Tick PROVE LockInv'
<1>1. pending = None /\ pending' = None /\ UNCHANGED <<sinceFrame, owed>>
  BY DEF Tick, IInv, PendingInDrain
<1>2. CASE Released
  BY <1>1, <1>2, ReleasedSafe
<1>3. CASE HoldOver /\ state' = "Idle" /\ UNCHANGED <<holder, quiet, lastSeq, gaveUp>>
  <2>1. state # "Live" /\ state' # "Live"
    BY <1>3 DEF HoldOver
  <2> QED BY <1>1, <1>3, <2>1 DEF IInv, LockInv, LockAgrees, SurvivorIsTheHolders,
          PendingInDrain, AgesAgree, OthersGone, OwedCovers, Least
<1>4. CASE UNCHANGED <<streamVars, gaveUp>>
  BY <1>1, <1>4, ElsewhereSafe DEF IInv, LockInv
<1> QED BY <1>2, <1>3, <1>4 DEF Tick

\* A request never meets a survivor.
LEMMA ControlSafe == ASSUME IInv, Control PROVE LockInv'
<1>1. pending = None
  BY DEF Control, Identify, SetIdle, ResetStats, Release, IInv, PendingInDrain
<1>2. LockInv
  BY DEF IInv, LockInv
<1>3. ASSUME NEW ip \in Ip, Release(ip) PROVE LockInv'
  BY <1>1, <1>3, ReleasedSafe DEF Release, drainVars
<1>4. CASE \/ \E duration \in 0..IDENTIFY : Identify(duration)
           \/ \E mode \in IdleModes : SetIdle(mode)
           \/ ResetStats
  BY <1>1, <1>2, <1>4, ElsewhereSafe DEF Identify, SetIdle, ResetStats, drainVars, historyVars
<1> QED BY <1>3, <1>4 DEF Control

\* All ages grow together.
LEMMA AdvanceSafe == ASSUME IInv, Advance PROVE LockInv'
<1>1. /\ UNCHANGED <<task, state, holder, lastSeq, pending, gaveUp>>
      /\ quiet' = IF holder = None THEN 0 ELSE Least(quiet + 1, STREAM_TIMEOUT)
      /\ sinceFrame' = [s \in Source |-> Least(sinceFrame[s] + 1, LOCK)]
      /\ owed' = [s \in Source |-> IF owed[s] \in {None, 0} THEN owed[s] ELSE owed[s] - 1]
  BY DEF Advance
<1>2. (LockAgrees /\ SurvivorIsTheHolders /\ PendingInDrain)'
  BY <1>1 DEF IInv, LockAgrees, SurvivorIsTheHolders, PendingInDrain
<1>3. quiet \in Nat /\ \A s \in Source : sinceFrame[s] \in 0..LOCK /\ owed[s] \in 0..LOCK \cup {None}
  BY Timers DEF IInv, TypeOK
<1>4. AgesAgree'
  <2> SUFFICES ASSUME holder # None PROVE sinceFrame'[holder] = Least(quiet', LOCK)
    BY <1>1 DEF AgesAgree
  <2>1. holder \in Source /\ sinceFrame[holder] = Least(quiet, LOCK)
    BY DEF IInv, TypeOK, AgesAgree
  <2> QED BY <1>1, <1>3, <2>1, Timers DEF Least
<1>5. OthersGone'
  <2>1. ASSUME NEW s \in Source, s # holder PROVE sinceFrame'[s] >= LOCK \/ gaveUp'[s]
    BY <1>1, <1>3, <2>1, Timers DEF IInv, OthersGone, Least
  <2> QED BY <1>1, <2>1 DEF OthersGone
<1>6. OwedCovers'
  <2>1. ASSUME NEW s \in Source, holder # None, owed'[s] # None PROVE owed'[s] + quiet' >= LOCK
    <3>1. owed[s] # None /\ owed[s] + quiet >= LOCK
      BY <1>1, <2>1 DEF IInv, OwedCovers
    <3>2. owed[s] \in 0..LOCK
      BY <1>3, <3>1
    <3>3. owed'[s] = IF owed[s] = 0 THEN owed[s] ELSE owed[s] - 1
      BY <1>1, <3>1
    <3> QED BY <1>1, <1>3, <2>1, <3>1, <3>2, <3>3, Timers DEF Least
  <2> QED BY <1>1, <2>1 DEF OwedCovers
<1> QED BY <1>2, <1>4, <1>5, <1>6 DEF LockInv

LEMMA StepInv == IInv /\ [Next]_vars => IInv'
<1> SUFFICES ASSUME IInv, [Next]_vars PROVE IInv'
  OBVIOUS
<1>1. TypeOK'
  BY StepType DEF IInv
<1>2. LockInv
  BY DEF IInv, LockInv
<1>3. LockInv'
  <2>1. ASSUME NEW f \in Frames, OfferStale(f) PROVE LockInv'
    BY <1>2, <2>1, ElsewhereSafe DEF OfferStale, Offering, historyVars
  <2>2. CASE Wake \/ Answer \/ LinkChanges \/ UNCHANGED vars
    <3>1. UNCHANGED <<streamVars, pending, sinceFrame, gaveUp, owed>>
      BY <2>2 DEF Wake, Answer, LinkChanges, vars, drainVars, historyVars
    <3>2. pending = None \/ task' = task
      BY <2>2 DEF Wake, Answer, LinkChanges, vars, IInv, PendingInDrain
    <3> QED BY <1>2, <3>1, <3>2, ElsewhereSafe
  <2>3. CASE Offer
    BY <2>1, <2>3, OfferRefusedSafe, OfferAcceptedSafe DEF Offer
  <2>4. CASE Flush \/ Tick \/ Control \/ Advance
    BY <2>4, FlushSafe, TickSafe, ControlSafe, AdvanceSafe
  <2> QED BY <2>2, <2>3, <2>4 DEF Next, FramesTask
<1> QED BY <1>1, <1>3 DEF LockInv, IInv

LEMMA InitInv == Init => IInv
<1> SUFFICES ASSUME Init PROVE IInv
  OBVIOUS
<1>1. TypeOK
  BY InitType
<1>2. LockInv
  BY Timers DEF Init, LockInv, LockAgrees, SurvivorIsTheHolders, PendingInDrain, AgesAgree,
     OthersGone, OwedCovers
<1> QED BY <1>1, <1>2 DEF LockInv, IInv

LEMMA Inductive == Spec => []IInv
BY InitInv, StepInv, PTL DEF Spec

\* The lock is held exactly while the stream is live, and the survivor of a
\* drain is always the holder's newest frame, for any number of senders.
THEOREM LockSound == Spec => [](LockAgrees /\ SurvivorIsTheHolders)
<1>1. IInv => LockAgrees /\ SurvivorIsTheHolders
  BY DEF IInv
<1> QED BY <1>1, Inductive, PTL

\* A sender that waits as long as its BUSY said is admitted.
THEOREM BusyTellsTheTruth == Spec => []BusyIsHonest
<1>1. IInv => BusyIsHonest
  <2> SUFFICES ASSUME IInv, NEW s \in Source, owed[s] = 0, holder # None PROVE quiet >= LOCK
    BY DEF BusyIsHonest, Admits
  <2>1. owed[s] # None /\ quiet \in Int
    BY ReceiverAssumption DEF IInv, TypeOK
  <2>2. owed[s] + quiet >= LOCK
    BY <2>1 DEF IInv, OwedCovers
  <2> QED BY <2>1, <2>2
<1> QED BY <1>1, Inductive, PTL

\* The picture changes hands only when everybody else has given the panel up
\* or been silent for LOCK.
THEOREM PanelNeverStolen == Spec => NeverStolen
<1>1. IInv /\ [Next]_vars =>
        [shown' # shown => \A s \in Source \ {shown'.from} : sinceFrame[s] >= LOCK \/ gaveUp[s]]_vars
  <2> SUFFICES ASSUME IInv, Next, shown' # shown, NEW s \in Source \ {shown'.from}
               PROVE  sinceFrame[s] >= LOCK \/ gaveUp[s]
    OBVIOUS
  <2>1. Flush
    BY DEF Next, Offer, OfferRefused, OfferStale, OfferAccepted, Offering, FramesTask, Wake,
       Answer, Tick, Control, Identify, SetIdle, ResetStats, Release, LinkChanges, Advance
  <2>2. pending # None /\ shown' = [from |-> pending.from, seq |-> pending.seq]
    BY <2>1 DEF Flush
  <2>3. s # holder
    BY <2>2 DEF IInv, SurvivorIsTheHolders
  <2> QED BY <2>3 DEF IInv, OthersGone
<1> QED BY <1>1, Inductive, PTL DEF Spec, NeverStolen

(***************************************************************************)
(* The ledger, on counters that wrap.                                      *)
(***************************************************************************)

LEMMA DivMod ==
  ASSUME NEW c \in Nat \ {0}, NEW a \in Int
  PROVE  a = c * (a \div c) + (a % c) /\ a % c \in 0..(c - 1) /\ a \div c \in Int
OBVIOUS

LEMMA UniqueRemainder ==
  ASSUME NEW c \in Nat \ {0}, NEW q \in Int, NEW p \in Int,
         NEW r \in 0..(c - 1), NEW s \in 0..(c - 1), c * q + r = c * p + s
  PROVE  r = s
<1>1. c * (q - p) = s - r
  BY SMTT(20)
<1>2. CASE q - p >= 1
  <2>1. c * (q - p) >= c
    BY <1>2, SMTT(20)
  <2> QED BY <1>1, <2>1
<1>3. CASE q - p <= -1
  <2>1. c * (q - p) <= -c
    BY <1>3, SMTT(20)
  <2> QED BY <1>1, <2>1
<1>4. CASE q = p
  BY <1>1, <1>4, SMTT(20)
<1> QED BY <1>2, <1>3, <1>4

\* A sum is the same whether or not a part of it has wrapped before.
LEMMA WrapSum ==
  ASSUME NEW c \in Nat \ {0}, NEW a \in Int, NEW b \in Int
  PROVE  ((a % c) + b) % c = (a + b) % c
<1> DEFINE qa == a \div c
           m == (a % c) + b
<1>1. a = c * qa + (a % c) /\ a % c \in Int /\ qa \in Int
  BY DivMod
<1>2. m \in Int
  BY <1>1
<1>3. m = (a % c) + b
  OBVIOUS
<1> HIDE DEF qa, m
<1>4. m = c * (m \div c) + (m % c) /\ m % c \in 0..(c - 1) /\ m \div c \in Int
  BY <1>2, DivMod
<1>5. /\ a + b \in Int /\ (a + b) \div c \in Int /\ (a + b) % c \in 0..(c - 1)
      /\ a + b = c * ((a + b) \div c) + ((a + b) % c)
  <2>1. a + b \in Int
    OBVIOUS
  <2> QED BY <2>1, DivMod
<1>6. c * (qa + (m \div c)) = c * qa + c * (m \div c)
  BY <1>1, <1>4, SMTT(20)
<1>7. c * (qa + (m \div c)) + (m % c) = c * ((a + b) \div c) + ((a + b) % c)
  <2>1. c * qa + (m % c) + c * (m \div c) = a + b
    <3>1. c * qa \in Int /\ c * (m \div c) \in Int
      BY <1>1, <1>4
    <3>2. \A x, y, z \in Int :
            a = x + (a % c) /\ m = (a % c) + b /\ m = y + z => x + z + y = a + b
      BY <1>1
    <3> QED BY <1>1, <1>2, <1>3, <1>4, <3>1, <3>2
  <2> QED BY <1>1, <1>4, <1>5, <1>6, <2>1
<1>8. qa + (m \div c) \in Int
  BY <1>1, <1>4
<1>9. m % c = (a + b) % c
  BY <1>4, <1>5, <1>7, <1>8, UniqueRemainder
<1> QED BY <1>3, <1>9

\* One more in all is one more in a part, whether or not the part wraps.
LEMMA WrapPart ==
  ASSUME NEW c \in Nat \ {0}, NEW rest \in Int, NEW part \in Int
  PROVE  (rest + (part % c)) % c = (rest + part) % c
<1>1. ((part % c) + rest) % c = (part + rest) % c
  BY WrapSum
<1>2. part % c \in Int
  BY DivMod
<1>3. (part % c) + rest = rest + (part % c) /\ part + rest = rest + part
  BY <1>2
<1> QED BY <1>1, <1>3

\* The ledger's sum over the four places a frame can be: one more accepted,
LEMMA LedgerSumAccepted ==
  ASSUME NEW c \in Nat \ {0}, NEW x \in Int, NEW y \in Int, NEW z \in Int, NEW n \in Int
  PROVE  (x + ((y + n) % c) + z + 1) % c = (((x + y + z + n) % c) + 1) % c
<1>1. ((y + n) % c) \in Int
  BY DivMod
<1>2. (x + z + 1 + ((y + n) % c)) % c = (x + z + 1 + (y + n)) % c
  <2>1. x + z + 1 \in Int /\ y + n \in Int
    OBVIOUS
  <2> QED BY <2>1, WrapPart
<1>3. (((x + y + z + n) % c) + 1) % c = (x + y + z + n + 1) % c
  <2>1. x + y + z + n \in Int /\ 1 \in Int
    OBVIOUS
  <2> QED BY <2>1, WrapSum, Zenon
<1>4. \A w \in Int : x + w + z + 1 = x + z + 1 + w
  OBVIOUS
<1>5. x + z + 1 + (y + n) = x + y + z + n + 1
  OBVIOUS
<1> QED BY <1>1, <1>2, <1>3, <1>4, <1>5

\* and one more shown or failed to decode.
LEMMA LedgerSum ==
  ASSUME NEW c \in Nat \ {0}, NEW x \in Int, NEW y \in Int, NEW z \in Int
  PROVE  /\ (x + y + ((z + 1) % c) + 0) % c = (x + y + z + 1) % c
         /\ (((x + 1) % c) + y + z + 0) % c = (x + y + z + 1) % c
<1>1. ((z + 1) % c) \in Int /\ ((x + 1) % c) \in Int
  <2>1. z + 1 \in Int /\ x + 1 \in Int
    OBVIOUS
  <2> QED BY <2>1, DivMod
<1>2. (x + y + ((z + 1) % c) + 0) % c = (x + y + z + 1) % c
  <2>1. (x + y + ((z + 1) % c)) % c = (x + y + (z + 1)) % c
    <3>1. x + y \in Int /\ z + 1 \in Int
      OBVIOUS
    <3> QED BY <3>1, WrapPart
  <2>2. \A w \in Int : x + y + w + 0 = x + y + w
    OBVIOUS
  <2>3. x + y + (z + 1) = x + y + z + 1
    OBVIOUS
  <2> QED BY <1>1, <2>1, <2>2, <2>3
<1>3. (((x + 1) % c) + y + z + 0) % c = (x + y + z + 1) % c
  <2>1. (y + z + ((x + 1) % c)) % c = (y + z + (x + 1)) % c
    <3>1. y + z \in Int /\ x + 1 \in Int
      OBVIOUS
    <3> QED BY <3>1, WrapPart
  <2>2. \A w \in Int : w + y + z + 0 = y + z + w
    OBVIOUS
  <2>3. y + z + (x + 1) = x + y + z + 1
    OBVIOUS
  <2> QED BY <1>1, <2>1, <2>2, <2>3
<1> QED BY <1>2, <1>3

LEMMA CountType ==
  ASSUME TypeOK
  PROVE  /\ count["rx"] \in Int /\ count["shown"] \in Int
         /\ count["superseded"] \in Int /\ count["decode"] \in Int
         /\ count["rx"] \in 0..(COUNTER - 1) /\ COUNTER \in Nat \ {0}
BY ReceiverAssumption DEF TypeOK

\* Accepting a frame adds one on both sides: to frames_rx, and to what is
\* pending - or, if it was pending already, to what is superseded.
LEMMA AcceptedBalances ==
  ASSUME TypeOK, LedgerBalances, NEW f \in Frames, OfferAccepted(f) PROVE LedgerBalances'
<1> DEFINE n == IF pending = None THEN 0 ELSE 1
<1>1. /\ count'["rx"] = (count["rx"] + 1) % COUNTER
      /\ count'["superseded"] = (count["superseded"] + n) % COUNTER
      /\ count'["shown"] = count["shown"] /\ count'["decode"] = count["decode"]
  BY DEF OfferAccepted, Bump, TypeOK
<1>2. pending' # None
  BY ReceiverAssumption DEF OfferAccepted, Survivor
<1>3. count["rx"] = (count["shown"] + count["superseded"] + count["decode"] + n) % COUNTER
  BY DEF LedgerBalances
<1>4. n \in Int
  OBVIOUS
<1> HIDE DEF n
<1>5. (count["shown"] + ((count["superseded"] + n) % COUNTER) + count["decode"] + 1) % COUNTER
        = (((count["shown"] + count["superseded"] + count["decode"] + n) % COUNTER) + 1) % COUNTER
  <2>1. COUNTER \in Nat \ {0}
    BY CountType
  <2>2. count["shown"] \in Int /\ count["superseded"] \in Int /\ count["decode"] \in Int
    BY CountType
  <2> QED BY <1>4, <2>1, <2>2, LedgerSumAccepted
<1> QED BY <1>1, <1>2, <1>3, <1>5 DEF LedgerBalances

\* The flush moves the survivor to where it ended.
LEMMA FlushBalances ==
  ASSUME TypeOK, LedgerBalances, Flush PROVE LedgerBalances'
<1>1. pending' = None
  BY DEF Flush, AfterFlush
<1>2. CASE pending = None
  <2>1. count' = count
    BY <1>2 DEF Flush
  <2> QED BY <1>1, <1>2, <2>1 DEF LedgerBalances
<1>3. CASE pending # None
  <2>1. count["rx"] = (count["shown"] + count["superseded"] + count["decode"] + 1) % COUNTER
    BY <1>3 DEF LedgerBalances
  <2>2. CASE ~pending.decodes
    <3>1. /\ count'["rx"] = count["rx"] /\ count'["shown"] = count["shown"]
          /\ count'["superseded"] = count["superseded"]
          /\ count'["decode"] = (count["decode"] + 1) % COUNTER
      BY <1>3, <2>2 DEF Flush, Bump, TypeOK
    <3>2. (count["shown"] + count["superseded"] + ((count["decode"] + 1) % COUNTER) + 0) % COUNTER
            = (count["shown"] + count["superseded"] + count["decode"] + 1) % COUNTER
      BY CountType, LedgerSum
    <3> QED BY <1>1, <2>1, <3>1, <3>2 DEF LedgerBalances
  <2>3. CASE pending.decodes
    <3>1. /\ count'["rx"] = count["rx"] /\ count'["shown"] = (count["shown"] + 1) % COUNTER
          /\ count'["superseded"] = count["superseded"] /\ count'["decode"] = count["decode"]
      BY <1>3, <2>3 DEF Flush, Bump, TypeOK
    <3>2. (((count["shown"] + 1) % COUNTER) + count["superseded"] + count["decode"] + 0) % COUNTER
            = (count["shown"] + count["superseded"] + count["decode"] + 1) % COUNTER
      BY CountType, LedgerSum
    <3> QED BY <1>1, <2>1, <3>1, <3>2 DEF LedgerBalances
  <2> QED BY <2>2, <2>3
<1> QED BY <1>2, <1>3

\* Zeroed counters balance: RESET_STATS never meets a survivor.
LEMMA ZeroBalances ==
  ASSUME \A c \in {"rx", "shown", "superseded", "decode"} : count[c] = 0, pending = None
  PROVE  LedgerBalances
<1>1. 0 % COUNTER = 0
  BY ReceiverAssumption
<1> QED BY <1>1 DEF LedgerBalances

\* Every frame the panel accepts is shown, superseded or fails to decode,
\* exactly once, however the counters wrap and whenever they are reset.
THEOREM LedgerAlwaysBalances == Spec => []LedgerBalances
<1>1. Init => LedgerBalances
  BY ZeroBalances DEF Init
<1>2. IInv /\ LedgerBalances /\ [Next]_vars => LedgerBalances'
  <2> SUFFICES ASSUME IInv, LedgerBalances, [Next]_vars PROVE LedgerBalances'
    OBVIOUS
  <2>1. TypeOK
    BY DEF IInv
  <2>2. CASE ResetStats
    <3>1. pending' = None
      BY <2>2 DEF ResetStats, drainVars, IInv, PendingInDrain
    <3>2. \A c \in {"rx", "shown", "superseded", "decode"} : count'[c] = 0
      BY <2>1, <2>2 DEF ResetStats, TypeOK
    <3>3. 0 % COUNTER = 0
      BY ReceiverAssumption
    <3> QED BY <3>1, <3>2, <3>3 DEF LedgerBalances
  <2>3. CASE UNCHANGED <<count, pending>>
    BY <2>3 DEF LedgerBalances
  <2>4. ASSUME NEW f \in Frames, OfferRefused(f) \/ OfferStale(f)
        PROVE  UNCHANGED <<count, pending>>
    BY <2>4 DEF OfferRefused, OfferStale
  <2>5. Wake \/ Answer \/ Tick \/ LinkChanges \/ Advance \/ UNCHANGED vars
          => UNCHANGED <<count, pending>>
    BY DEF Wake, Answer, Tick, LinkChanges, Advance, vars, drainVars
  <2>6. ASSUME NEW ip, NEW duration, NEW mode, Identify(duration) \/ SetIdle(mode) \/ Release(ip)
        PROVE  UNCHANGED <<count, pending>>
    BY <2>6 DEF Identify, SetIdle, Release, drainVars
  <2> QED BY <2>1, <2>2, <2>3, <2>4, <2>5, <2>6, AcceptedBalances, FlushBalances
          DEF Next, Offer, FramesTask, Control
<1> QED BY <1>1, <1>2, Inductive, PTL DEF Spec

(***************************************************************************)
(* Who is answered.  Inside a drain the panel changes hands once at most,  *)
(* because what was accepted in this drain is younger than LOCK: so there  *)
(* are two askers at most, the one who had the panel and the one who has   *)
(* it.                                                                     *)
(***************************************************************************)

AskersAreHolders ==
  /\ task = "waiting" => statsReq = <<>>
  /\ task = "draining" /\ pending = None => statsReq \in {<<>>, <<holder>>}
  /\ pending # None =>
       /\ quiet <= elapsed
       /\ \/ statsReq \in {<<>>, <<holder>>}
          \/ \E p \in Source : statsReq \in {<<p>>, <<p, holder>>}

LEMMA AppendToOne == ASSUME NEW x, NEW y PROVE Append(<<x>>, y) = <<x, y>>
<1> DEFINE S == {x, y}
<1>1. <<x>> \in Seq(S) /\ <<x, y>> \in Seq(S)
  OBVIOUS
<1>2. /\ Append(<<x>>, y) \in Seq(S) /\ Len(Append(<<x>>, y)) = 2
      /\ Append(<<x>>, y)[1] = x /\ Append(<<x>>, y)[2] = y
  BY <1>1
<1>3. \A i \in 1..2 : Append(<<x>>, y)[i] = <<x, y>>[i]
  BY <1>2
<1> HIDE DEF S
<1> QED BY <1>1, <1>2, <1>3, SeqEqual

LEMMA ToSetOfTwo ==
  ASSUME NEW x, NEW y
  PROVE  /\ ToSet(<<>>) = {} /\ Len(<<>>) = 0 /\ Append(<<>>, x) = <<x>>
         /\ ToSet(<<x>>) = {x} /\ Len(<<x>>) = 1 /\ Append(<<x>>, y) = <<x, y>>
         /\ ToSet(<<x, y>>) = {x, y} /\ Len(<<x, y>>) = 2
<1>1. /\ Len(<<>>) = 0 /\ Len(<<x>>) = 1 /\ Len(<<x, y>>) = 2
      /\ Append(<<>>, x) = <<x>> /\ Append(<<x>>, y) = <<x, y>>
  BY AppendToOne
<1>2. ToSet(<<>>) = {}
  BY DEF ToSet
<1>3. ToSet(<<x>>) = {x}
  <2>1. DOMAIN <<x>> = {1} /\ <<x>>[1] = x
    OBVIOUS
  <2> QED BY <2>1 DEF ToSet
<1>4. ToSet(<<x, y>>) = {x, y}
  <2>1. DOMAIN <<x, y>> = {1, 2} /\ <<x, y>>[1] = x /\ <<x, y>>[2] = y
    OBVIOUS
  <2> QED BY <2>1 DEF ToSet
<1> QED BY <1>1, <1>2, <1>3, <1>4

LEMMA AskedFrom ==
  ASSUME NEW f, NEW present, NEW n, NEW grown,
         ToSet(statsReq) = present, Len(statsReq) = n, Append(statsReq, f.from) = grown
  PROVE  Asked(f) = IF f.stats /\ f.from \notin present /\ n < STATS_REQ_SLOTS
                    THEN grown ELSE statsReq
BY DEF Asked

\* What the holder's question makes of the askers there are.
LEMMA AskedByHolder ==
  ASSUME NEW f \in Frames, NEW h, STATS_REQ_SLOTS >= 2,
         \/ statsReq \in {<<>>, <<h>>}
         \/ h = f.from /\ \E p \in Source : statsReq \in {<<p>>, <<p, h>>}
  PROVE  /\ f.stats => f.from \in ToSet(Asked(f))
         /\ \/ Asked(f) \in {<<>>, <<h>>, <<f.from>>}
            \/ Asked(f) = <<h, f.from>>
            \/ \E p \in Source : Asked(f) \in {<<p>>, <<p, f.from>>}
<1>1. STATS_REQ_SLOTS \in Nat
  BY ReceiverAssumption
<1>2. CASE statsReq = <<>>
  <2>1. Asked(f) = IF f.stats THEN <<f.from>> ELSE <<>>
    <3>1. ToSet(statsReq) = {} /\ Len(statsReq) = 0 /\ Append(statsReq, f.from) = <<f.from>>
      BY <1>2, ToSetOfTwo
    <3>2. f.from \notin ToSet(statsReq) /\ Len(statsReq) < STATS_REQ_SLOTS
      BY <1>1, <3>1
    <3>3. Asked(f) = IF f.stats THEN Append(statsReq, f.from) ELSE statsReq
      BY <3>2 DEF Asked
    <3> QED BY <1>2, <3>1, <3>3
  <2> QED BY <2>1, ToSetOfTwo
<1>3. CASE statsReq = <<h>>
  <2>1. Asked(f) = IF f.stats /\ f.from # h THEN <<h, f.from>> ELSE <<h>>
    <3>1. /\ ToSet(statsReq) = {h} /\ Len(statsReq) = 1
          /\ Append(statsReq, f.from) = <<h, f.from>>
      BY <1>3, ToSetOfTwo
    <3>2. Asked(f) = IF f.stats /\ f.from \notin {h} /\ 1 < STATS_REQ_SLOTS
                     THEN <<h, f.from>> ELSE statsReq
      BY <3>1, AskedFrom
    <3> QED BY <1>1, <1>3, <3>2
  <2> QED BY <2>1, ToSetOfTwo
<1>4. ASSUME h = f.from, NEW p \in Source, statsReq = <<p>>
      PROVE  /\ f.stats => f.from \in ToSet(Asked(f))
             /\ Asked(f) \in {<<p>>, <<p, f.from>>}
  <2>1. Asked(f) = IF f.stats /\ f.from # p THEN <<p, f.from>> ELSE <<p>>
    <3>1. /\ ToSet(statsReq) = {p} /\ Len(statsReq) = 1
          /\ Append(statsReq, f.from) = <<p, f.from>>
      BY <1>4, ToSetOfTwo
    <3>2. Asked(f) = IF f.stats /\ f.from \notin {p} /\ 1 < STATS_REQ_SLOTS
                     THEN <<p, f.from>> ELSE statsReq
      BY <3>1, AskedFrom
    <3> QED BY <1>1, <1>4, <3>2
  <2> QED BY <2>1, ToSetOfTwo
<1>5. ASSUME h = f.from, NEW p \in Source, statsReq = <<p, h>>
      PROVE  f.from \in ToSet(Asked(f)) /\ Asked(f) = <<p, f.from>>
  BY <1>1, <1>5, ToSetOfTwo DEF Asked
<1> QED BY <1>2, <1>3, <1>4, <1>5

LEMMA HolderPending == ASSUME IInv, pending # None PROVE holder # None
<1>1. pending \in Frames /\ pending.from = holder
  BY DEF IInv, TypeOK, SurvivorIsTheHolders
<1> QED BY <1>1, FrameType

\* A frame that is adopted is the holder's own, or the drain's first.
LEMMA FirstOrHolders ==
  ASSUME IInv, AskersAreHolders, DrainTime < LOCK, NEW f \in Frames, OfferAccepted(f)
  PROVE  pending = None \/ holder = f.from
<1>1. pending # None => holder # None /\ quiet <= elapsed
  BY HolderPending DEF AskersAreHolders
<1>2. elapsed \in 0..DrainTime /\ quiet \in 0..STREAM_TIMEOUT
  BY DEF IInv, TypeOK
<1>3. pending # None => ~(quiet >= LOCK)
  BY <1>1, <1>2, Timers
<1> QED BY <1>1, <1>3 DEF OfferAccepted, Admits

LEMMA AskersBefore ==
  ASSUME IInv, AskersAreHolders, DrainTime < LOCK, NEW f \in Frames,
         OfferStale(f) \/ OfferAccepted(f)
  PROVE  \/ pending = None /\ statsReq \in {<<>>, <<holder>>}
         \/ /\ pending # None /\ holder = f.from
            /\ \/ statsReq \in {<<>>, <<holder>>}
               \/ \E p \in Source : statsReq \in {<<p>>, <<p, holder>>}
<1>1. task = "draining" /\ (holder = f.from \/ OfferAccepted(f))
  BY DEF OfferStale, OfferAccepted, Offering
<1> QED BY <1>1, FirstOrHolders DEF AskersAreHolders

LEMMA AskerIsKept ==
  ASSUME IInv, AskersAreHolders, DrainTime < LOCK, STATS_REQ_SLOTS >= 2, NEW f \in Frames,
         f.stats, OfferStale(f) \/ OfferAccepted(f)
  PROVE  f.from \in ToSet(statsReq')
<1>1. f.from \in ToSet(Asked(f))
  BY AskersBefore, AskedByHolder
<1> QED BY <1>1 DEF OfferStale, OfferAccepted

LEMMA AskersSafe ==
  ASSUME IInv, AskersAreHolders, DrainTime < LOCK, STATS_REQ_SLOTS >= 2, [Next]_vars
  PROVE  AskersAreHolders'
<1> DEFINE Kept == AskersAreHolders'
<1>1. ASSUME NEW f \in Frames, OfferRefused(f) PROVE Kept
  BY <1>1 DEF OfferRefused, Offering, streamVars, AskersAreHolders
<1>2. ASSUME NEW f \in Frames, OfferStale(f) PROVE Kept
  <2>1. /\ UNCHANGED <<task, holder, quiet, pending, elapsed>> /\ holder = f.from
        /\ task = "draining" /\ statsReq' = Asked(f)
    BY <1>2 DEF OfferStale, Offering, streamVars
  <2>2. CASE pending = None
    <3>1. statsReq \in {<<>>, <<holder>>}
      BY <2>1, <2>2 DEF AskersAreHolders
    <3>2. Asked(f) \in {<<>>, <<holder>>}
      BY <2>1, <3>1, ToSetOfTwo DEF Asked
    <3> QED BY <2>1, <2>2, <3>2 DEF AskersAreHolders
  <2>3. CASE pending # None
    <3>1. f.from \in Source
      BY FrameType
    <3>2. \/ Asked(f) \in {<<>>, <<holder>>}
          \/ \E p \in Source : Asked(f) \in {<<p>>, <<p, holder>>}
      BY <1>2, <2>1, <3>1, AskersBefore, AskedByHolder
    <3>3. quiet <= elapsed
      BY <2>3 DEF AskersAreHolders
    <3> QED BY <2>1, <2>3, <3>2, <3>3 DEF AskersAreHolders
  <2> QED BY <2>2, <2>3
<1>3. ASSUME NEW f \in Frames, OfferAccepted(f) PROVE Kept
  <2>1. /\ holder' = f.from /\ quiet' = 0 /\ pending' # None /\ elapsed' = elapsed
        /\ task' = "draining" /\ statsReq' = Asked(f)
    BY <1>3, ReceiverAssumption DEF OfferAccepted, Offering, Survivor
  <2>2. f.from \in Source /\ elapsed \in Nat
    BY FrameType, Timers DEF IInv, TypeOK
  <2>3. statsReq = <<holder>> => holder \in Source
    <3>1. ASSUME statsReq = <<holder>> PROVE statsReq[1] = holder /\ 1 \in 1..Len(statsReq)
      BY <3>1
    <3> QED BY <3>1 DEF IInv, TypeOK
  <2>4. \/ Asked(f) \in {<<>>, <<f.from>>}
        \/ \E p \in Source : Asked(f) \in {<<p>>, <<p, f.from>>}
    <3>1. CASE statsReq = <<>>
      BY <3>1, ToSetOfTwo DEF Asked
    <3>2. CASE statsReq = <<holder>>
      BY <2>3, <3>2, ToSetOfTwo DEF Asked
    <3>3. CASE holder = f.from /\ \E p \in Source : statsReq \in {<<p>>, <<p, holder>>}
      BY <3>3, <2>2, AskedByHolder
    <3> QED BY <1>3, <3>1, <3>2, <3>3, AskersBefore
  <2> QED BY <2>1, <2>2, <2>4 DEF AskersAreHolders
<1>4. CASE Wake \/ Control \/ LinkChanges
  <2>1. pending = None /\ statsReq = <<>> /\ task = "waiting"
    BY <1>4 DEF Wake, Control, Identify, SetIdle, ResetStats, Release, LinkChanges,
       AskersAreHolders, IInv, PendingInDrain
  <2>2. UNCHANGED <<pending, statsReq>> /\ task' \in {"waiting", "draining"}
    BY <1>4, <2>1 DEF Wake, Control, Identify, SetIdle, ResetStats, Release, LinkChanges, drainVars
  <2> QED BY <2>1, <2>2 DEF AskersAreHolders
<1>5. CASE Flush \/ Answer \/ Tick
  <2>1. pending' = None /\ task' # "draining"
    BY <1>5 DEF Flush, AfterFlush, Answer, Tick, IInv, PendingInDrain
  <2>2. task' = "waiting" => statsReq' = <<>>
    BY <1>5 DEF Flush, Answer, Tick
  <2> QED BY <2>1, <2>2 DEF AskersAreHolders
<1>6. CASE Advance
  <2>1. UNCHANGED <<task, holder, pending, statsReq>>
    BY <1>6 DEF Advance
  <2>2. pending # None => holder # None /\ quiet <= elapsed /\ task = "draining"
    BY HolderPending DEF IInv, PendingInDrain, AskersAreHolders
  <2>3. quiet \in Nat /\ elapsed \in Nat
    BY Timers DEF IInv, TypeOK
  <2>4. pending # None => quiet' <= elapsed'
    BY <1>6, <2>2, <2>3, Timers DEF Advance, Least
  <2> QED BY <2>1, <2>4 DEF AskersAreHolders
<1>7. CASE UNCHANGED vars
  BY <1>7 DEF vars, streamVars, drainVars, AskersAreHolders
<1> QED BY <1>1, <1>2, <1>3, <1>4, <1>5, <1>6, <1>7 DEF Next, Offer, FramesTask

\* Two slots are enough for everyone who is admitted and asks, in any drain
\* that is shorter than the lock.
THEOREM AskersAlwaysKept ==
  ASSUME DrainTime < LOCK, STATS_REQ_SLOTS >= 2 PROVE Spec => AskersAreKept
<1>1. Init => AskersAreHolders
  BY DEF Init, AskersAreHolders
<1>2. IInv /\ AskersAreHolders /\ [Next]_vars => AskersAreHolders'
  BY AskersSafe
<1>3. IInv /\ AskersAreHolders /\ [Next]_vars =>
        [\A f \in Frames : f.stats /\ (OfferStale(f) \/ OfferAccepted(f))
           => f.from \in ToSet(statsReq')]_vars
  BY AskerIsKept
<1> QED BY <1>1, <1>2, <1>3, Inductive, PTL DEF Spec, AskersAreKept

(***************************************************************************)
(* BUSY is paced as long as the limiter has a slot for every sender: a     *)
(* sender's entry is then as old as the last BUSY to it, or younger.       *)
(***************************************************************************)

EntriesCover ==
  \A s \in Source : \/ sinceBusy[s] >= BUSY_MIN
                    \/ busySent[s] # Free /\ busySent[s] <= sinceBusy[s]

LEMMA RoomForAll ==
  ASSUME IsFiniteSet(Source), Cardinality(Source) <= LIMIT_SLOTS,
         NEW table, DOMAIN table = Source, NEW key \in Source, NEW next \in Record(table, key)
  PROVE  next = [table EXCEPT ![key] = 0]
<1>1. Tracked(table) \in SUBSET Source
  BY DEF Tracked
<1>2. table[key] = Free => Tracked(table) # Source
  BY DEF Tracked
<1>3. Cardinality(Source) \in Nat /\ Cardinality(Tracked(table)) \in Nat /\ LIMIT_SLOTS \in Nat
  BY <1>1, FS_Subset, FS_CardinalityType, LimitAssumption
<1>4. table[key] # Free \/ Cardinality(Tracked(table)) < LIMIT_SLOTS
  BY <1>1, <1>2, <1>3, FS_Subset
<1> QED BY <1>4 DEF Record

LEMMA BusyTypes ==
  ASSUME TypeOK, NEW s \in Source
  PROVE  /\ busySent[s] \in 0..BUSY_MIN \cup {Free} /\ sinceBusy[s] \in 0..BUSY_MIN
         /\ BUSY_MIN \in Nat /\ Free \notin Int /\ DOMAIN busySent = Source
BY ReceiverAssumption, LimitAssumption DEF TypeOK

LEMMA RefusedPaced ==
  ASSUME IsFiniteSet(Source), Cardinality(Source) <= LIMIT_SLOTS, TypeOK, EntriesCover,
         NEW f \in Frames, OfferRefused(f)
  PROVE  /\ EntriesCover'
         /\ \A s \in Source : sinceBusy'[s] < sinceBusy[s] => sinceBusy[s] >= BUSY_MIN
<1>1. f.from \in Source
  BY FrameType
<1>2. CASE ~Allowed(busySent, f.from, BUSY_MIN)
  <2>1. UNCHANGED <<busySent, sinceBusy>>
    BY <1>2 DEF OfferRefused
  <2> QED BY <2>1, BusyTypes DEF EntriesCover
<1>3. CASE Allowed(busySent, f.from, BUSY_MIN)
  <2>1. busySent' = [busySent EXCEPT ![f.from] = 0]
    BY <1>1, <1>3, BusyTypes, RoomForAll DEF OfferRefused
  <2>2. sinceBusy' = sinceBusy \/ sinceBusy' = [sinceBusy EXCEPT ![f.from] = 0]
    BY <1>3 DEF OfferRefused
  <2>3. sinceBusy[f.from] >= BUSY_MIN
    BY <1>1, <1>3, BusyTypes DEF Allowed, EntriesCover
  <2>4. \A s \in Source : /\ busySent'[s] = IF s = f.from THEN 0 ELSE busySent[s]
                          /\ \/ sinceBusy'[s] = sinceBusy[s]
                             \/ s = f.from /\ sinceBusy'[s] = 0
    BY <2>1, <2>2, BusyTypes DEF TypeOK
  <2>5. \A s \in Source : sinceBusy'[s] < sinceBusy[s] => sinceBusy[s] >= BUSY_MIN
    BY <2>3, <2>4, BusyTypes
  <2>6. ASSUME NEW s \in Source
        PROVE  sinceBusy'[s] >= BUSY_MIN \/ (busySent'[s] # Free /\ busySent'[s] <= sinceBusy'[s])
    BY <2>4, BusyTypes DEF EntriesCover
  <2> QED BY <2>5, <2>6 DEF EntriesCover
<1> QED BY <1>2, <1>3

LEMMA AdvancePaced ==
  ASSUME TypeOK, EntriesCover, Advance
  PROVE  /\ EntriesCover'
         /\ \A s \in Source : ~(sinceBusy'[s] < sinceBusy[s])
<1> SUFFICES ASSUME NEW s \in Source
             PROVE  /\ ~(sinceBusy'[s] < sinceBusy[s])
                    /\ \/ sinceBusy'[s] >= BUSY_MIN
                       \/ busySent'[s] # Free /\ busySent'[s] <= sinceBusy'[s]
  BY DEF EntriesCover
<1>1. /\ busySent'[s] = IF busySent[s] = Free \/ busySent[s] >= BUSY_MIN
                        THEN busySent[s] ELSE busySent[s] + 1
      /\ sinceBusy'[s] = IF sinceBusy[s] + 1 < BUSY_MIN THEN sinceBusy[s] + 1 ELSE BUSY_MIN
  BY BusyTypes DEF Advance, Aged, Least
<1>2. sinceBusy[s] >= BUSY_MIN \/ (busySent[s] # Free /\ busySent[s] <= sinceBusy[s])
  BY DEF EntriesCover
<1> QED BY <1>1, <1>2, BusyTypes

\* One BUSY per interval to each sender, if there are no more senders than the
\* limiter has slots: with more, the entry of the longest silent is given up.
THEOREM BusyAlwaysPaced ==
  ASSUME IsFiniteSet(Source), Cardinality(Source) <= LIMIT_SLOTS PROVE Spec => BusyPaced
<1> DEFINE Paced == \A s \in Source : sinceBusy'[s] < sinceBusy[s] => sinceBusy[s] >= BUSY_MIN
<1>1. Init => EntriesCover
  BY ReceiverAssumption DEF Init, EntriesCover
<1>2. TypeOK /\ EntriesCover /\ [Next]_vars => EntriesCover' /\ Paced
  <2> SUFFICES ASSUME TypeOK, EntriesCover, [Next]_vars PROVE EntriesCover' /\ Paced
    OBVIOUS
  <2>1. CASE UNCHANGED <<busySent, sinceBusy>>
    BY <2>1, BusyTypes DEF EntriesCover
  <2>2. ASSUME NEW f \in Frames, OfferStale(f) \/ OfferAccepted(f)
        PROVE  UNCHANGED <<busySent, sinceBusy>>
    BY <2>2 DEF OfferStale, OfferAccepted, historyVars
  <2>3. ASSUME NEW f \in Frames, OfferRefused(f) PROVE EntriesCover' /\ Paced
    BY <2>3, RefusedPaced
  <2>4. FramesTask \/ Control \/ LinkChanges \/ UNCHANGED vars => UNCHANGED <<busySent, sinceBusy>>
    BY DEF FramesTask, Wake, Flush, Answer, Tick, Control, Identify, SetIdle, ResetStats,
       Release, LinkChanges, vars, limitVars, historyVars
  <2>5. CASE Advance
    BY <2>5, AdvancePaced, BusyTypes
  <2> QED BY <2>1, <2>2, <2>3, <2>4, <2>5 DEF Next, Offer
<1>3. TypeOK /\ EntriesCover /\ [Next]_vars => EntriesCover' /\ [Paced]_vars
  BY <1>2
<1>4. Spec => []TypeOK
  BY TypeCorrect
<1> QED BY <1>1, <1>3, <1>4, PTL DEF Spec, BusyPaced

(***************************************************************************)
(* Receiver implements Stream.                                             *)
(***************************************************************************)

\* A frame to publish is of a stream that is live, or of one that its FINAL
\* has just put on hold: no time has passed since.
FrameIsCurrent ==
  published => task = "answering" /\ (state = "Live" \/ (state = "Hold" /\ held = 0))

\* What flush_frames publishes is the holder's, so the stream is live.
LEMMA SurvivorIsLive == ASSUME IInv, pending # None PROVE state = "Live"
BY HolderPending DEF IInv, LockAgrees

LEMMA CurrentSafe == ASSUME IInv, FrameIsCurrent, [Next]_vars PROVE FrameIsCurrent'
<1>1. ASSUME NEW f \in Frames, OfferRefused(f) \/ OfferStale(f) \/ OfferAccepted(f)
      PROVE  FrameIsCurrent'
  BY <1>1 DEF OfferRefused, OfferStale, OfferAccepted, Offering, FrameIsCurrent
<1>2. CASE Flush
  <2>1. CASE published' = FALSE
    BY <2>1 DEF FrameIsCurrent
  <2>2. CASE pending # None /\ pending.decodes
    <3>1. state = "Live" /\ task' = "answering"
      BY <1>2, <2>2, SurvivorIsLive DEF Flush
    <3>2. Released \/ UNCHANGED streamVars
      BY <1>2, <2>2 DEF Flush
    <3>3. state' = "Live" \/ (state' = "Hold" /\ held' = 0)
      BY <3>1, <3>2 DEF Released, streamVars
    <3> QED BY <3>1, <3>3 DEF FrameIsCurrent
  <2> QED BY <1>2, <2>1, <2>2 DEF Flush
<1>3. CASE Answer
  BY <1>3 DEF Answer, FrameIsCurrent, streamVars
<1>4. CASE Tick
  BY <1>4 DEF Tick, FrameIsCurrent
<1>5. CASE Wake \/ Control \/ LinkChanges
  <2>1. task = "waiting" /\ published' = published
    BY <1>5 DEF Wake, Control, Identify, SetIdle, ResetStats, Release, LinkChanges, drainVars
  <2> QED BY <2>1 DEF FrameIsCurrent
<1>6. CASE Advance
  BY <1>6 DEF Advance, FrameIsCurrent
<1>7. CASE UNCHANGED vars
  BY <1>7 DEF vars, FrameIsCurrent, streamVars, drainVars
<1> QED BY <1>1, <1>2, <1>3, <1>4, <1>5, <1>6, <1>7 DEF Next, Offer, FramesTask

\* Nothing that Stream speaks of changes.
SeenUnchanged == UNCHANGED <<task, state, identify # None, published>>

LEMMA OfferSeen ==
  ASSUME NEW f \in Frames, OfferRefused(f) \/ OfferStale(f) \/ OfferAccepted(f)
  PROVE  Seen!Accept \/ SeenUnchanged
<1>1. UNCHANGED <<task, published>> /\ UNCHANGED identify /\ task = "draining"
  BY DEF OfferRefused, OfferStale, OfferAccepted, Offering, overlayVars
<1>2. CASE OfferRefused(f) \/ OfferStale(f)
  BY <1>1, <1>2 DEF OfferRefused, OfferStale, streamVars, SeenUnchanged
<1>3. CASE OfferAccepted(f)
  BY <1>1, <1>3 DEF OfferAccepted, Seen!Accept
<1> QED BY <1>2, <1>3

LEMMA FlushSeen == ASSUME IInv, Flush PROVE Seen!Flush
<1>1. task = "draining" /\ task' = "answering" /\ UNCHANGED identify
  BY DEF Flush, overlayVars
<1>2. CASE pending # None /\ pending.decodes
  <2>1. state = "Live" /\ published' = TRUE
    BY <1>2, SurvivorIsLive DEF Flush
  <2>2. state' \in {"Live", "Hold"}
    BY <1>2, <2>1 DEF Flush, Released, streamVars
  <2> QED BY <1>1, <2>1, <2>2 DEF Seen!Flush
<1>3. CASE ~(pending # None /\ pending.decodes)
  <2>1. published' = FALSE /\ UNCHANGED streamVars
    BY <1>3 DEF Flush
  <2> QED BY <1>1, <2>1 DEF Seen!Flush, streamVars
<1> QED BY <1>2, <1>3

\* A hold that is over has lasted, so its last frame is of an earlier turn.
LEMMA TickSeen == ASSUME IInv, FrameIsCurrent, Tick PROVE Seen!Tick
<1>1. task = "answering" /\ task' = "waiting" /\ published' = FALSE
  BY DEF Tick
<1>2. (identify' # None) \in {identify # None, FALSE}
  BY DEF Tick
<1>3. CASE StreamStopped /\ Released
  <2>1. state = "Live" /\ state' = "Hold"
    BY <1>3 DEF StreamStopped, Released
  <2> QED BY <1>1, <1>2, <2>1 DEF Seen!Tick
<1>4. CASE HoldOver /\ state' = "Idle"
  <2>1. state = "Hold" /\ held # 0
    BY <1>4, Timers DEF HoldOver, IInv, TypeOK
  <2>2. ~published
    BY <2>1 DEF FrameIsCurrent
  <2> QED BY <1>1, <1>2, <1>4, <2>1, <2>2 DEF Seen!Tick
<1>5. CASE UNCHANGED streamVars
  BY <1>1, <1>2, <1>5 DEF Seen!Tick, streamVars
<1> QED BY <1>3, <1>4, <1>5 DEF Tick

LEMMA ControlSeen ==
  ASSUME IInv, Control PROVE Seen!Identify \/ Seen!Release \/ SeenUnchanged
<1>1. ASSUME NEW d \in 0..IDENTIFY, Identify(d) PROVE Seen!Identify
  BY <1>1 DEF Identify, Seen!Identify, streamVars, drainVars
<1>2. ASSUME NEW m \in IdleModes, SetIdle(m) PROVE SeenUnchanged
  BY <1>2 DEF SetIdle, SeenUnchanged, streamVars, drainVars
<1>3. CASE ResetStats
  BY <1>3 DEF ResetStats, SeenUnchanged, streamVars, drainVars, overlayVars
<1>4. ASSUME NEW ip \in Ip, Release(ip) PROVE Seen!Release
  <2>1. state = "Live"
    BY <1>4 DEF Release, IInv, LockAgrees
  <2>2. state' = "Hold"
    BY <1>4, <2>1 DEF Release, Released
  <2> QED BY <1>4, <2>1, <2>2 DEF Release, Seen!Release, drainVars, overlayVars
<1> QED BY <1>1, <1>2, <1>3, <1>4 DEF Control

\* The overlay's last tick does not end it: only Tick does.
LEMMA AdvanceSeen == ASSUME IInv, Advance PROVE SeenUnchanged
<1>1. (identify' # None) = (identify # None)
  <2>1. identify \in Nat \cup {None} /\ None \notin Int
    BY ReceiverAssumption DEF IInv, TypeOK
  <2>2. identify' = IF identify \in {None, 0} THEN identify ELSE identify - 1
    BY DEF Advance
  <2> QED BY <2>1, <2>2
<1> QED BY <1>1 DEF Advance, SeenUnchanged

\* Receiver implements Stream, for any senders, frames and timers: no frame is
\* published but while its stream is live, and the turn that publishes one
\* neither frees the panel for the idle screen nor skips the hold.
THEOREM StreamKept == Spec => KeepsStream
<1>1. Init => FrameIsCurrent /\ Seen!Init
  BY DEF Init, FrameIsCurrent, Seen!Init
<1>2. IInv /\ FrameIsCurrent /\ [Next]_vars => FrameIsCurrent'
  BY CurrentSafe
<1>3. IInv /\ FrameIsCurrent /\ [Next]_vars
        => [Seen!Next]_<<task, state, identify # None, published>>
  <2> SUFFICES ASSUME IInv, FrameIsCurrent, [Next]_vars PROVE Seen!Next \/ SeenUnchanged
    BY DEF SeenUnchanged
  <2>1. CASE Offer
    BY <2>1, OfferSeen DEF Offer, Seen!Next
  <2>2. CASE Wake
    BY <2>2 DEF Wake, Seen!Wake, Seen!Next, streamVars, drainVars, overlayVars
  <2>3. CASE Flush \/ Tick
    BY <2>3, FlushSeen, TickSeen DEF Seen!Next
  <2>4. CASE Answer
    BY <2>4 DEF Answer, SeenUnchanged, streamVars, overlayVars
  <2>5. CASE Control
    BY <2>5, ControlSeen DEF Seen!Next
  <2>6. CASE LinkChanges \/ UNCHANGED vars
    BY <2>6 DEF LinkChanges, vars, SeenUnchanged, streamVars, drainVars, overlayVars
  <2>7. CASE Advance
    BY <2>7, AdvanceSeen
  <2> QED BY <2>1, <2>2, <2>3, <2>4, <2>5, <2>6, <2>7 DEF Next, FramesTask
<1> QED BY <1>1, <1>2, <1>3, Inductive, PTL DEF Spec, KeepsStream, Seen!Spec
=============================================================================
