------------------------------ MODULE MCShared ------------------------------
(***************************************************************************)
(* Three parts of `cast play` that share no state with one another, in one *)
(* run: the control socket, the state file and the quality controller.  A  *)
(* behaviour is one of the part it is about, and the others stay as they   *)
(* begin.                                                                  *)
(*                                                                         *)
(* The socket has two players, one after the other or at once, and two     *)
(* commands; the file a pairing, the active stream and the seek id, and    *)
(* two fibers that update them; the controller a ladder of three rungs, so *)
(* that a raise can follow a raise, and a burst that reads nothing or a    *)
(* link two of them fit.                                                   *)
(***************************************************************************)
EXTENDS ControlChannel, StateStore, Quality

CONSTANTS p1, p2, c1, c2, pairing, active, seek, v1, v2, u1, u2

MCPlayers == {p1, p2}
MCClients == {c1, c2}
MCFields == {pairing, active, seek}
MCValues == {v1, v2}
MCUpdaters == {u1, u2}
MCBitrates == <<3, 6, 12>>
MCRates == {0, 12}

VARIABLE part  \* the part the behaviour is about

PartsInit ==
  /\ ChannelInit /\ Init /\ QualityInit
  /\ part \in {"socket", "file", "quality"}
  /\ bad => part = "quality"

PartsNext ==
  /\ UNCHANGED part
  /\ \/ part = "socket" /\ ChannelNext /\ UNCHANGED <<vars, qualityVars>>
     \/ part = "file" /\ Next /\ UNCHANGED <<channelVars, qualityVars>>
     \/ part = "quality" /\ QualityNext /\ UNCHANGED <<channelVars, vars>>

allVars == <<part, channelVars, vars, qualityVars>>

PartsSpec ==
  /\ PartsInit /\ [][PartsNext]_allVars
  /\ WF_allVars(bad /\ PartsNext)
=============================================================================
