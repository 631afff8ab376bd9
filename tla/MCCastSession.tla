--------------------------- MODULE MCCastSession ---------------------------
(* Values for CastSession: the attaching fiber and one other, two          *)
(* application instances, so that one can replace the other.               *)
EXTENDS CastSession, TLC

CONSTANTS main, control, a1, a2

MCFibers == {main, control}
MCApps == {a1, a2}
AppSymmetry == Permutations(MCApps)
=============================================================================
