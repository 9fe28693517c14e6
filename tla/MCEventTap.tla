----------------------------- MODULE MCEventTap -----------------------------
(***************************************************************************)
(* A small instance of EventTap for TLC.  Where on the screen the cursor   *)
(* is decides nothing, so the places are symmetric; the properties checked *)
(* under this symmetry are invariants and properties of single steps.      *)
(***************************************************************************)
EXTENDS EventTap, TLC

Symmetry == Permutations(Places) \cup Permutations(Sides)

(* Bounds: no more than three keys are held, and no modifier is while two  *)
(* messages of switches are on their way at once.                          *)
Bounded ==
  /\ Cardinality(held) <= 3
  /\ held_modifiers \cup input.modifiers = {} \/ Len(asked) + Len(answers) < 2
=============================================================================
