----------------------------- MODULE MCChannel -----------------------------
(***************************************************************************)
(* A channel and the two patches it falls back on.                         *)
(***************************************************************************)
EXTENDS Channel

CONSTANTS f1, f2
=============================================================================
