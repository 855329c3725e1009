---------------------------- MODULE MCSettings ----------------------------
(***************************************************************************)
(* Maps to switch a device on with: none, one of this build, and those of  *)
(* another build with its version and its items on the same page or not.   *)
(***************************************************************************)
EXTENDS Settings

With(sc, fs, p) ==
  [schema |-> sc,
   items |-> [f \in Field |-> IF f \in fs THEN [val |-> 1, ours |-> sc.ours, page |-> p] ELSE None]]

MCFound ==
  {[schema |-> None, items |-> [f \in Field |-> None]],
   With([ours |-> TRUE, page |-> 0], Field, 0)}
  \cup {With([ours |-> FALSE, page |-> p], {"Brightness", "Colour"}, q) : p, q \in Page}
=============================================================================
