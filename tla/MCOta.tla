------------------------------- MODULE MCOta -------------------------------
(***************************************************************************)
(* Ota on small instances.  A tick stands for sixty seconds: the three     *)
(* milestones are 60, 120 and 180 s.                                       *)
(***************************************************************************)
EXTENDS Ota
MCOffered == {"Good", "NeverHealthy", "Panics", "Hangs"}
=============================================================================
