------------------------- MODULE MCControlChannel -------------------------
(* Values for ControlChannel: two players, one after the other or at once, *)
(* and two commands.                                                       *)
EXTENDS ControlChannel, TLC

CONSTANTS p1, p2, c1, c2

MCPlayers == {p1, p2}
MCClients == {c1, c2}
Symmetry == Permutations(MCPlayers) \cup Permutations(MCClients)
=============================================================================
