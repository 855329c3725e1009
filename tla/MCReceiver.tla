----------------------------- MODULE MCReceiver -----------------------------
(***************************************************************************)
(* An instance of Receiver for TLC, in ticks of half a second: LOCK 500 ms *)
(* and the stream timeout and BUSY 1 s, as in the code, and HOLD 1 s,      *)
(* shortened from 10.                                                      *)
(***************************************************************************)
EXTENDS Receiver

CONSTANTS a, b

\* Each source alone on its address.
OwnIp == [s \in Source |-> s]

Frame(from, seq, final, stats, decodes) ==
  [from : from, seq : seq, final : final, stats : stats, decodes : decodes]

\* One sender whose numbers wrap, with a plain frame, a FINAL one and one that
\* does not decode and asks for telemetry, and a rival that repeats one number
\* and asks.
TwoSenders ==
  Frame({a}, {0}, {FALSE}, {FALSE}, {TRUE}) \cup Frame({a}, {1}, {TRUE}, {FALSE}, {TRUE})
  \cup Frame({a}, {2}, {FALSE}, {TRUE}, {FALSE}) \cup Frame({b}, {0}, {FALSE}, {TRUE}, {TRUE})
=============================================================================
