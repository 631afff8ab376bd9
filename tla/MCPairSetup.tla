---------------------------- MODULE MCPairSetup -----------------------------
(* Values for PairSetup: four runs, one of them with a bad signature, and a  *)
(* code that is right or wrong. *)
EXTENDS PairSetup, TLC

CONSTANTS c1, c2, c3, broken, right, wrong

MCControllers == {c1, c2, c3, broken}
MCBroken == {broken}
MCCodes == {right, wrong}
Symmetry == Permutations({c1, c2, c3})
=============================================================================
