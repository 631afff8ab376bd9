------------------------------ MODULE MCPlayer ------------------------------
(* Values for Player: a two-rung ladder. *)
EXTENDS Player, TLC

CONSTANTS low, high

MCRungs == {low, high}
RungSymmetry == Permutations(MCRungs)
=============================================================================
