--------------------------- MODULE ControlChannel ---------------------------
(***************************************************************************)
(* The control socket (apps/cli/src/ControlChannel.ts): players that bind  *)
(* it, control commands that connect to it, and the file between them.     *)
(*                                                                         *)
(* A server acts on a request at its socket's "end" event, that is once    *)
(* the client has closed its writing side.  A client writes, never closes, *)
(* and waits for the server's own end.  Node's net.Server.close calls back *)
(* once every connection is gone.                                          *)
(***************************************************************************)
EXTENDS FiniteSets

CONSTANTS
  Players,  \* `cast play` processes
  Clients,  \* control commands, one request each
  Nobody      \* no player

ASSUME ControlChannelAssumption == Nobody \notin Players

VARIABLES
  path,     \* the player the socket file leads to, if there is a file
  player,   \* what each player is doing
  client,   \* what each command is doing
  conn,     \* conn[c]: the player c's connection is with
  acted,    \* requests whose handler has run
  met       \* whether two players have ever run at once

channelVars == <<path, player, client, conn, acted, met>>

Option(S) == S \cup {Nobody}

ChannelTypeOK ==
  /\ path \in Option(Players)
  /\ player \in [Players -> {"off", "unlinked", "listening", "closing",
                             "stopped", "refused", "killed"}]
  /\ client \in [Clients -> {"idle", "waiting", "failed", "killed"}]
  /\ conn \in [Clients -> Option(Players)]
  /\ acted \in SUBSET Clients
  /\ met \in BOOLEAN

ChannelInit ==
  /\ path = Nobody
  /\ player = [p \in Players |-> "off"]
  /\ client = [c \in Clients |-> "idle"]
  /\ conn = [c \in Clients |-> Nobody]
  /\ acted = {}
  /\ met = FALSE

-----------------------------------------------------------------------------
Over == {"off", "stopped", "refused", "killed"}

(* As PathUnlinked, had a stale socket been left where it was.             *)
PathUnlinked_Kept == path

(* unlinkSync(sockPath), whoever the file belongs to. *)
PathUnlinked == Nobody

(* startServer unlinks, and listens after it. *)
Start(p) ==
  /\ player[p] = "off"
  /\ met' = (met \/ \E q \in Players : player[q] \notin Over)
  /\ path' = PathUnlinked
  /\ player' = [player EXCEPT ![p] = "unlinked"]
  /\ UNCHANGED <<client, conn, acted>>

(* As PathBound, had the file been unlinked once it was bound.             *)
PathBound_Unlinked(p) == Nobody

PathBound(p) == p

Listen(p) ==
  /\ player[p] = "unlinked"
  /\ path = Nobody
  /\ path' = PathBound(p)
  /\ player' = [player EXCEPT ![p] = "listening"]
  /\ UNCHANGED <<client, conn, acted, met>>

(* EADDRINUSE rejects an Effect.promise, which is a defect: no handler of  *)
(* errors above it sees it, and the command dies. *)
ListenRefused(p) ==
  /\ player[p] = "unlinked"
  /\ path # Nobody
  /\ player' = [player EXCEPT ![p] = "refused"]
  /\ UNCHANGED <<path, client, conn, acted, met>>

(* shutdown: server.close, which takes the file with it. *)
Shutdown(p) ==
  /\ player[p] = "listening"
  /\ player' = [player EXCEPT ![p] = "closing"]
  /\ path' = Nobody
  /\ UNCHANGED <<client, conn, acted, met>>

(* net.Server.close calls back once every connection is gone.              *)
Drained(p) == \A c \in Clients : conn[c] # p

Closed(p) ==
  /\ player[p] = "closing"
  /\ Drained(p)
  /\ player' = [player EXCEPT ![p] = "stopped"]
  /\ path' = Nobody
  /\ UNCHANGED <<client, conn, acted, met>>

(* A player killed outright leaves its file; its connections end, and an   *)
(* empty answer does not decode. *)
Killed(p) ==
  /\ player[p] \in {"listening", "closing"}
  /\ player' = [player EXCEPT ![p] = "killed"]
  /\ client' = [c \in Clients |-> IF conn[c] = p /\ client[c] = "waiting"
                                  THEN "failed" ELSE client[c]]
  /\ conn' = [c \in Clients |-> IF conn[c] = p THEN Nobody ELSE conn[c]]
  /\ UNCHANGED <<path, acted, met>>

-----------------------------------------------------------------------------
Serving == {p \in Players : path = p /\ player[p] = "listening"}

Peer(c) == path

(* sendRequest: the request is written on connection; then it waits. *)
Connect(c) ==
  /\ client[c] = "idle"
  /\ Serving # {}
  /\ client' = [client EXCEPT ![c] = "waiting"]
  /\ conn' = [conn EXCEPT ![c] = Peer(c)]
  /\ UNCHANGED <<path, player, acted, met>>

(* ENOENT or ECONNREFUSED. *)
ConnectFails(c) ==
  /\ client[c] = "idle"
  /\ Serving = {}
  /\ client' = [client EXCEPT ![c] = "failed"]
  /\ UNCHANGED <<path, player, conn, acted, met>>

(* The user interrupts a command that says nothing. *)
Interrupted(c) ==
  /\ client[c] = "waiting"
  /\ client' = [client EXCEPT ![c] = "killed"]
  /\ UNCHANGED <<path, player, conn, acted, met>>

(* The server's "end" event: the request is decoded and its handler runs;  *)
(* the answer has nobody left to read it. *)
Act(c) ==
  /\ conn[c] # Nobody
  /\ client[c] = "killed"
  /\ acted' = acted \cup {c}
  /\ conn' = [conn EXCEPT ![c] = Nobody]
  /\ UNCHANGED <<path, player, client, met>>

-----------------------------------------------------------------------------
ChannelNext ==
  \/ \E p \in Players : \/ Start(p) \/ Listen(p) \/ ListenRefused(p)
                        \/ Shutdown(p) \/ Closed(p) \/ Killed(p)
  \/ \E c \in Clients : Connect(c) \/ ConnectFails(c) \/ Interrupted(c) \/ Act(c)

ChannelSpec == ChannelInit /\ [][ChannelNext]_channelVars

(* Node delivers the events it has; a command, once started, connects.     *)
ChannelFairness ==
  /\ \A p \in Players : WF_channelVars(Closed(p))
  /\ \A c \in Clients : WF_channelVars(Act(c))

FairChannelSpec == ChannelSpec /\ ChannelFairness
-----------------------------------------------------------------------------
(* Properties.                                                             *)

(* A player that accepts commands is the one the file leads to, as long as *)
(* no two have met: "a stale socket means no player is running"            *)
(* (ControlChannel.ts socketPath), one killed and one closing among them.  *)
Reachable ==
  ~met => \A p \in Players : player[p] = "listening" => path = p

(* Nor does one fail to bind the socket, whatever a killed one has left    *)
(* behind (ControlChannel.ts startServer's unlink).                        *)
NeverRefused == ~met => \A p \in Players : player[p] # "refused"

(* A command that has written its request hears back (the head of          *)
(* ControlChannel.ts: "the running player acts on them immediately").      *)
Answered == \A c \in Clients : (client[c] = "waiting") ~> (client[c] # "waiting")

(* A player that is asked to stop does (docs/architecture.md: the socket   *)
(* is "removed when it stops").                                            *)
Stops == \A p \in Players : (player[p] = "closing") ~> (player[p] # "closing")
=============================================================================
