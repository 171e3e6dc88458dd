------------------------------- MODULE MCApps -------------------------------
(***************************************************************************)
(* Apps on small instances.  The blocks and the programs are               *)
(* interchangeable: no action names one of them.                           *)
(***************************************************************************)
EXTENDS Apps, TLC

Symmetry == Permutations(Regions) \cup Permutations(Progs)

=============================================================================
