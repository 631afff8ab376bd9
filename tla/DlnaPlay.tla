------------------------------ MODULE DlnaPlay ------------------------------
(***************************************************************************)
(* `cast play` on a DLNA renderer (playOnRenderer in cast.ts) beside the   *)
(* commands another process gives the same renderer: load, play, move to   *)
(* where the film was left, then ask once a second until it has stopped.   *)
(***************************************************************************)
EXTENDS Renderer

CONSTANTS
  Player,       \* the client that is `cast play`
  Resumed,      \* where the film is resumed
  Commanded,    \* what the other clients may ask
  MaxCommands   \* bound: requests of the other clients

ASSUME DlnaPlayAssumption ==
  /\ Player \in Clients
  /\ Resumed \in 0 .. Length
  /\ Commanded \subseteq Inputs
  /\ MaxCommands \in Nat

VARIABLES
  at,        \* what playOnRenderer is doing
  seen,      \* the state the last GetTransportInfo reported
  known,     \* `position`: where the viewer is believed to be
  commands,  \* requests of the other clients so far
  been       \* history: where the device, if it tells, has been with our film

player == <<at, seen, known>>
vars == <<device, client, player, commands, been>>

TypeOK ==
  /\ RendererTypeOK
  /\ at \in {"load", "play", "seek", "state", "position", "pause", "done",
             "failed"}
  /\ seen \in {"PLAYING", "PAUSED", "STOPPED", "TRANSITIONING", "unreported"}
  /\ known \in 0 .. Length
  /\ been \subseteq 0 .. Length
  /\ commands \in 0 .. MaxCommands

Init ==
  /\ DeviceInit /\ RendererInit
  /\ at = "load" /\ seen = "unreported"
  /\ known = Resumed
  /\ commands = 0 /\ been = {}

(* The request each place of playOnRenderer sends. *)
Request ==
  CASE at = "load" -> [name |-> "SetAVTransportURI", uri |-> "film"]
    [] at = "play" -> [name |-> "Play"]
    [] at = "seek" -> [name |-> "Seek", target |-> Resumed]
    [] at = "state" -> [name |-> "GetTransportInfo"]
    [] at = "position" -> [name |-> "GetPositionInfo"]

Asks ==
  /\ at \in {"load", "play", "seek", "state", "position"}
  /\ Invoke(Player, Request)
  /\ UNCHANGED <<broken, loaded, transport, position, volume, pulls, fetched,
                 omits, awake, player, commands, been>>

(* As AfterLoad, had the position been given before there was a film. *)
AfterLoad_Seek == "seek"

(* renderer.play: SetAVTransportURI, then Play. *)
AfterLoad == "play"

(* What comes after each answer: a failure ends the command, but for that  *)
(* of the seek; the loop ends when the device says it has stopped.         *)
Following(ok) ==
  CASE at = "load" /\ ok -> AfterLoad
    [] at = "play" /\ ok -> IF Resumed > 0 THEN "seek" ELSE "state"
    [] at = "seek" -> "state"
    [] at = "state" /\ ok -> "position"
    [] at = "position" /\ ok -> IF seen = "STOPPED" THEN "done" ELSE "pause"
    [] OTHER -> "failed"

(* As Believed, had a position that is not reported been read as zero. *)
Believed_Zero(reply) ==
  IF seen = "unreported" THEN known ELSE Max({0, reply.at})

(* onPosition: only a position the device reported. *)
Believed(reply) ==
  IF seen = "unreported" \/ reply.at = -1 THEN known ELSE reply.at

Hears ==
  /\ Returned(Player)
  /\ at' = Following(Succeeded(Player))
  /\ seen' = IF at = "state" /\ Succeeded(Player)
             THEN IF call[Player].reply.state = "unreported" THEN "unreported"
                  ELSE PlaybackState(call[Player].reply.state)
             ELSE seen
  /\ known' = IF at = "position" /\ Succeeded(Player)
              THEN Believed(call[Player].reply)
              ELSE known
  /\ Done(Player)
  /\ UNCHANGED <<device, broken, commands, been>>

(* Schedule.spaced(Duration.seconds(1)). *)
PollsAgain ==
  /\ at = "pause"
  /\ at' = "state"
  /\ UNCHANGED <<device, client, seen, known, commands, been>>

(* The commands of other processes. *)
Commands(c) ==
  /\ c # Player /\ commands < MaxCommands
  /\ \E a \in Commanded : Invoke(c, a)
  /\ commands' = commands + 1
  /\ UNCHANGED <<broken, loaded, transport, position, volume, pulls, fetched,
                 omits, awake, player, been>>

IsTold(c) ==
  /\ c # Player /\ Returned(c)
  /\ Done(c)
  /\ UNCHANGED <<device, broken, player, commands, been>>

(* Where a device that tells has been since it was given our film. *)
Remembered ==
  been' = IF loaded' = NoUri \/ "RelTime" \in omits THEN been
                                                    ELSE been \cup {position'}

RendererSteps ==
  /\ \/ Serve \/ Declines
     \/ (Pull \/ Advances \/ FilmEnds \/ FallsAsleep) /\ UNCHANGED client
     \/ \E c \in Clients : Breaks(c) \/ TimesOut(c) \/ BodyComes(c)
  /\ Remembered
  /\ UNCHANGED <<player, commands>>

Next ==
  \/ Asks \/ Hears \/ PollsAgain
  \/ \E c \in Clients : Commands(c) \/ IsTold(c)
  \/ RendererSteps

(* Fibers run, the device answers unless it sleeps, and the time-out of a  *)
(* request ends.  Nothing limits how long the body of an answer takes.     *)
Fairness ==
  /\ WF_vars(Asks) /\ WF_vars(Hears) /\ WF_vars(PollsAgain)
  /\ WF_vars(Serve /\ Remembered /\ UNCHANGED <<player, commands>>)
  /\ WF_vars(TimesOut(Player) /\ Remembered /\ UNCHANGED <<player, commands>>)

Spec == Init /\ [][Next]_vars /\ Fairness

-----------------------------------------------------------------------------

(* An action that was answered is the last word of whoever gave it: no     *)
(* copy of it, nor of anything the same client had asked before, is still  *)
(* waiting to be carried out (Renderer.ts:244-263 sends again what may     *)
(* have been read already, DlnaDevice.ts:774-787 serves in order).         *)
LastWord ==
  \A c \in Clients : Succeeded(c) =>
    \A i \in DOMAIN requests : requests[i].by # c

(* The film is moved only once it plays: "a renderer will not accept a     *)
(* position until it has something loaded" (cast.ts:540-543).              *)
SeeksWhatPlays ==
  \A i \in DOMAIN requests :
    requests[i].by = Player /\ requests[i].action.name = "Seek" =>
      loaded = "film" /\ (pulls > 0 \/ fetched # {})

(* The place to resume from is the one the film was resumed at or one the  *)
(* device has been at, also when it reports no position (cast.ts:569-577). *)
NeverFabricated == known \in {Resumed} \cup been

(* `cast play` returns once the device has stopped for good, whatever is   *)
(* lost or declined, unless the device reports no state (cast.ts:563-564)  *)
(* or falls silent between the headers of an answer and its body           *)
(* (Renderer.ts:241-265: only client.execute has a limit).                 *)
Returns ==
  (/\ <>[](transport = "STOPPED") /\ "CurrentTransportState" \notin omits
   /\ []<>~Reading(Player))
    => <>(at \in {"done", "failed"})

(* A renderer that is asleep is given up after five seconds (Renderer.ts   *)
(* REQUEST_TIMEOUT), at whichever moment it fell asleep.                   *)
NeverHangs ==
  (<>[](transport = "STOPPED") /\ "CurrentTransportState" \notin omits)
    => <>(at \in {"done", "failed"})

(* What the viewer is told to resume from is a place in the film, the      *)
(* track served counting from where it was cut (cast.ts:1225).             *)
FilmTime == known \in {Resumed} \cup {Resumed + p : p \in been}
=============================================================================
