--------------------------- MODULE MCAirPlayPlay ---------------------------
(* Values for AirPlayPlay: the messages that take two frames. *)
EXTENDS AirPlayPlay, TLC

MCLong == {"info", "insert"}
=============================================================================
