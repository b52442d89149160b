----------------------------- MODULE MCEaAgent -----------------------------
(***************************************************************************)
(* EaAgent on a small instance: two commands, three starts.                *)
(***************************************************************************)
EXTENDS EaAgent, TLC

\* Ids are only ever compared for equality.
Symmetry == Permutations(Commands)
=============================================================================
