------------------------------- MODULE MCHost -------------------------------
(***************************************************************************)
(* Host for TLC.                                                           *)
(***************************************************************************)
EXTENDS Host, TLC

(* Peers are told apart by their slots: addresses are only copied.  Used   *)
(* with invariants only.                                                   *)
Symmetry == Permutations(Addrs)
=============================================================================
