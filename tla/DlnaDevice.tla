----------------------------- MODULE DlnaDevice -----------------------------
(***************************************************************************)
(* A UPnP renderer as packages/emulator/src/DlnaDevice.ts serves it: SOAP  *)
(* requests are queued as they come and answered one at a time by one      *)
(* fiber, and the film is pulled by another.  A real set also plays, ends, *)
(* refuses and falls asleep; those actions are external.                   *)
(***************************************************************************)
EXTENDS Integers, Sequences, FiniteSetsExt

CONSTANTS
  Clients,   \* control points
  Waiting,   \* the reply of a request that has none yet
  NoUri,     \* no URI was set
  Length,    \* the length of a track
  Levels     \* volumes asked for, in percent

VARIABLES
  requests,  \* requests received and not yet answered, oldest first
  loaded,    \* what SetAVTransportURI was given
  transport, \* what AVTransport says it is doing
  position,  \* where it is in the track
  volume,    \* in percent
  pulls,     \* how many fetches Play has asked for that are not made yet
  fetched,   \* the URIs that were pulled
  omits,     \* output arguments this set does not report
  awake      \* whether it still answers

device == <<requests, loaded, transport, position, volume, pulls, fetched,
            omits, awake>>

(* An invocation, with the argument the device reads. *)
Inputs == [name : {"SetAVTransportURI"}, uri : {"film"}]
            \cup [name : {"Seek"}, target : 0 .. Length]
            \cup [name : {"SetVolume"}, level : Levels]
            \cup [name : {"Play", "Pause", "Stop", "GetVolume",
                          "GetTransportInfo", "GetPositionInfo"}]
Services == {"AVTransport", "RenderingControl"}
Requests == [by : Clients, service : Services, action : Inputs, open : BOOLEAN]

DeviceTypeOK ==
  /\ requests \in Seq(Requests)
  /\ loaded \in {"film", NoUri}
  /\ transport \in {"PLAYING", "PAUSED_PLAYBACK", "STOPPED"}
  /\ position \in 0 .. Length /\ volume \in 0 .. 100
  /\ pulls \in Nat /\ fetched \subseteq {"film"}
  /\ omits \subseteq {"CurrentTransportState", "RelTime"} /\ awake \in BOOLEAN

DeviceInit ==
  /\ requests = <<>> /\ loaded = NoUri /\ transport = "STOPPED"
  /\ position = 0 /\ volume = 50 /\ pulls = 0 /\ fetched = {}
  /\ omits \in SUBSET {"CurrentTransportState", "RelTime"}
  /\ awake = TRUE

(* As Queued, had every request a fiber of its own. *)
Queued_Newest(r) == <<r>> \o requests

(* server.on("request"): one queue for all connections. *)
Queued(r) == Append(requests, r)

(* `handlers`, by service and action together; anything else is answered   *)
(* 401.                                                                    *)
Handled(service) ==
  IF service = "RenderingControl" THEN {"SetVolume", "GetVolume"}
  ELSE {"SetAVTransportURI", "Play", "Pause", "Stop", "Seek",
        "GetTransportInfo", "GetPositionInfo"}
Known(r) == r.action.name \in Handled(r.service)

Clamped(level) == Min({100, Max({0, level})})

(* What each action does ... *)
Carried(a) ==
  /\ loaded' = IF a.name = "SetAVTransportURI" THEN a.uri ELSE loaded
  /\ transport' = CASE a.name \in {"SetAVTransportURI", "Stop"} -> "STOPPED"
                    [] a.name = "Play" -> "PLAYING"
                    [] a.name = "Pause" -> "PAUSED_PLAYBACK"
                    [] OTHER -> transport
  /\ position' = CASE a.name \in {"SetAVTransportURI", "Stop"} -> 0
                   [] a.name = "Seek" -> a.target
                   [] OTHER -> position
  /\ volume' = IF a.name = "SetVolume" THEN Clamped(a.level) ELSE volume
  /\ pulls' = IF a.name = "Play" /\ loaded # NoUri THEN pulls + 1 ELSE pulls

(* ... and what it answers with: the output argument the client reads.     *)
Output(a) ==
  CASE a.name = "GetTransportInfo" ->
         [state |-> IF "CurrentTransportState" \in omits THEN "unreported"
                                                         ELSE transport]
    [] a.name = "GetPositionInfo" ->
         [at |-> IF "RelTime" \in omits THEN -1 ELSE position]
    [] a.name = "GetVolume" -> [level |-> volume]
    [] OTHER -> [ok |-> TRUE]

Fault == [fault |-> TRUE]

(* The fiber that answers takes one request and carries it out, whether or *)
(* not anybody is still there to read the answer.                          *)
Served(r) ==
  IF Known(r) THEN Carried(r.action)
              ELSE UNCHANGED <<loaded, transport, position, volume, pulls>>
Reply(r) == IF Known(r) THEN Output(r.action) ELSE Fault

(* The fiber that fetches: one pull for each Play, of what Play found set. *)
Pull ==
  /\ pulls > 0
  /\ pulls' = pulls - 1
  /\ fetched' = fetched \cup {loaded}
  /\ UNCHANGED <<requests, loaded, transport, position, volume, omits, awake>>

-----------------------------------------------------------------------------
(* What only a real set does.                                              *)

Advances ==
  /\ transport = "PLAYING" /\ loaded # NoUri /\ position < Length
  /\ position' = position + 1
  /\ UNCHANGED <<requests, loaded, transport, volume, pulls, fetched, omits,
                 awake>>

FilmEnds ==
  /\ transport = "PLAYING" /\ loaded # NoUri /\ position = Length
  /\ transport' = "STOPPED" /\ position' = 0
  /\ UNCHANGED <<requests, loaded, volume, pulls, fetched, omits, awake>>

FallsAsleep ==
  /\ awake
  /\ awake' = FALSE
  /\ UNCHANGED <<requests, loaded, transport, position, volume, pulls, fetched,
                 omits>>
=============================================================================
