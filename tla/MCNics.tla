------------------------------- MODULE MCNics -------------------------------
(***************************************************************************)
(* Nics for TLC.  Neither callers nor adapters are told apart; the root    *)
(* ports are, since the last empty one is chosen.                          *)
(***************************************************************************)
EXTENDS Nics, TLC

Symmetry == Permutations(Users) \cup Permutations(Adapters)

==============================================================================
