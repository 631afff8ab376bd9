------------------------------ MODULE Control ------------------------------
(***************************************************************************)
(* The commands of apps/cli/src/Cli/Control.ts, each a process that finds  *)
(* a device, does one thing to it and remembers it, beside the first steps *)
(* of `cast play`.  A host may have a film on its screen, and a player may *)
(* be serving its control channel.  Where in the film it is, and how loud, *)
(* is left out.                                                            *)
(***************************************************************************)
EXTENDS Target

CONSTANTS
  Asked,       \* the commands that are given, with their flags
  MaxCommands, \* bound: commands given
  MaxChanges   \* bound: changes of the network

(* A command and its flags; `seek` is to a place or by so much. *)
Ops == {"play", "toggle", "pause", "resume", "stop", "status", "volume",
        "seek to", "seek by"}
Commands == [op : Ops, flags : Flags]

ASSUME ControlAssumption ==
  /\ MaxCommands \in Nat /\ MaxChanges \in Nat
  /\ None \notin Addresses \cup Hosts \cup Protocols \cup Targets
  /\ \A named \in SUBSET Hosts : named # None
  /\ \A film \in [protocol : Protocols, state : {"PLAYING", "PAUSED", "STOPPED"}] :
       film # None
  /\ \A device \in [host : Hosts, tag : Protocols] : device # None
  /\ Asked \subseteq Commands

VARIABLES
  command,   \* the command in progress, or the last one
  at,        \* what it is doing
  target,    \* what it found
  host,      \* who it acts on
  status,    \* what that device told it
  player,    \* whether a `cast play` serves its control channel
  screen,    \* screen[h]: the film on host h, or None
  commands, changes, \* how many of each so far
  before,    \* history: the memory the command began with, and whether the
             \* network has changed since
  last       \* history: who was last acted on, unless the network has
             \* changed or a film been tried elsewhere since

process == <<command, at, target, host, status>>
playing == <<player, screen>>
bounds == <<commands, changes>>
vars == <<network, memory, process, playing, bounds, before, last>>

Films == [protocol : Protocols, state : {"PLAYING", "PAUSED", "STOPPED"}]
Devices == [host : Hosts, tag : Protocols]

TypeOK ==
  /\ TargetTypeOK
  /\ command \in Asked \cup {None}
  /\ at \in {"channel", "resolve", "connect", "search", "reconnect", "act",
             "remember", "done", "failed"}
  /\ target \in Targets \cup {None} /\ host \in Hosts \cup {None}
  /\ status \in {"PLAYING", "PAUSED", "STOPPED", "unknown"}
  /\ player \in BOOLEAN /\ screen \in [Hosts -> Films \cup {None}]
  /\ before \in [memory : Targets \cup {None}, changed : BOOLEAN]
  /\ last \in Devices \cup {None}

Film(protocol) == [protocol |-> protocol, state |-> "PLAYING"]

(* A film that somebody has started, from here or not. *)
Init ==
  /\ on = Hosts /\ memory = None
  /\ address \in {f \in [Hosts -> Addresses] :
                    \A g, h \in Hosts : f[g] = f[h] => g = h}
  /\ command = None /\ at = "done"
  /\ target = None /\ host = None /\ status = "unknown"
  /\ \E h \in Hosts : \E p \in Speaks[h] :
       /\ screen = [g \in Hosts |-> IF g = h THEN Film(p) ELSE None]
       /\ player \in {FALSE, p = "Cast"}
  /\ commands = 0 /\ changes = 0
  /\ before = [memory |-> None, changed |-> FALSE] /\ last = None

IsPlay == command.op = "play"
Seeks(c) == c.op \in {"seek to", "seek by"}

(* A command is given.  `seek` first asks the control channel, whichever   *)
(* device it is for.  A connection that is refused, or has no socket, is a *)
(* rejected promise, which Effect.option does not catch.                   *)
Begin(c) ==
  /\ at \in {"done", "failed"} /\ commands < MaxCommands
  /\ command' = c
  /\ at' = CASE ~Seeks(c) -> "resolve"
             [] Seeks(c) /\ player -> "channel"
             [] Seeks(c) /\ ~player -> "failed"
  /\ target' = None /\ host' = None /\ status' = "unknown"
  /\ commands' = commands + 1
  /\ before' = [memory |-> memory, changed |-> FALSE]
  /\ UNCHANGED <<network, memory, playing, changes, last>>

Goes(place) ==
  /\ at' = place
  /\ UNCHANGED <<network, memory, command, target, host, status, bounds,
                 before, last>>

(* The channel never answers (ControlChannel): the user gives the command  *)
(* up, or the player is killed, and an empty answer is no answer, unless   *)
(* the socket breaks.                                                      *)
GivesUp == at = "channel" /\ Goes("failed") /\ UNCHANGED playing

PlayerKilled ==
  /\ at = "channel"
  /\ Goes("resolve") \/ Goes("failed")
  /\ player' = FALSE /\ UNCHANGED screen

(* As Noted, had every command remembered before it acts. *)
Noted_Early(t) == t

(* `play` remembers what it found before it has tried it. *)
Noted(t) == IF IsPlay THEN t ELSE memory

Found(t, place) ==
  /\ target' = t /\ at' = place
  /\ memory' = Noted(t)
  /\ last' = IF IsPlay THEN None ELSE last
  /\ UNCHANGED <<network, command, host, status, playing, bounds, before>>

Resolves ==
  /\ at = "resolve"
  /\ LET targets == IF IsPlay THEN ResolvePlay(command.flags)
                              ELSE Resolve(command.flags)
     IN  \/ targets = {} /\ Goes("failed") /\ UNCHANGED playing
         \/ \E t \in targets : Found(t, "connect")

(* Whether the receiver's application is up on a host. *)
Runs(h) == screen[h] # None /\ screen[h].protocol = "Cast"

(* A film of another protocol is not this one's to tell of, and a Cast     *)
(* device's status is waited for rather than asked for.                    *)
Tells(h) ==
  IF screen[h] # None /\ screen[h].protocol = target.tag
  THEN {screen[h].state} \cup {s \in {"unknown"} : target.tag = "Cast"}
  ELSE {"unknown"}

(* joinSession, renderer.status or playbackInfo.  A command joins what     *)
(* runs on a Cast device, `play` launches it.                              *)
Connects ==
  /\ at \in {"connect", "reconnect"}
  /\ \E h \in Reached(target) :
       /\ target.tag = "Cast" /\ ~IsPlay => Runs(h)
       /\ host' = h /\ at' = "act" /\ status' \in Tells(h)
  /\ UNCHANGED <<network, memory, command, target, playing, bounds, before,
                 last>>

(* "no session is running on that device": a Cast device answers, and      *)
(* after eight seconds the command has failed.  Nobody searches.           *)
JoinFails ==
  /\ at \in {"connect", "reconnect"} /\ target.tag = "Cast" /\ ~IsPlay
  /\ \E h \in Reached(target) :
       ~Runs(h) /\ host' = h /\ at' = "failed"
  /\ UNCHANGED <<network, memory, command, target, status, playing, bounds,
                 before, last>>

(* As Recovers, had the remembered address been obeyed like a given one. *)
Recovers_Never == FALSE

(* Only DeviceUnreachableError leads to a search: it is Cast's, and an     *)
(* address that was given is obeyed exactly.                               *)
Recovers == target.tag = "Cast" /\ command.flags.ip = None

Unreached ==
  /\ at \in {"connect", "reconnect"} /\ Reached(target) = {}
  /\ Goes(IF at = "connect" /\ Recovers THEN "search" ELSE "failed")
  /\ UNCHANGED playing

Searches ==
  /\ at = "search"
  /\ LET targets == IF IsPlay THEN DiscoverDevice(command.flags)
                              ELSE Search(command.flags)
     IN  \/ targets = {} /\ Goes("failed") /\ UNCHANGED playing
         \/ \E t \in targets : Found(t, "reconnect")

-----------------------------------------------------------------------------
(* What each command does to the device it has reached.                    *)

Shown == screen[host] # None /\ screen[host].protocol = target.tag

(* `toggle`: whatever is not known to be paused or stopped is paused. *)
Toggled(state) == IF state \in {"PAUSED", "STOPPED"} THEN "PLAYING"
                                                     ELSE "PAUSED"

Turned(state) ==
  screen' = IF Shown THEN [screen EXCEPT ![host].state = state] ELSE screen

(* stopReceiver closes the application, and the film with it. *)
Stop == IF Runs(host) /\ target.tag = "Cast"
        THEN screen' = [screen EXCEPT ![host] = None]
        ELSE Turned("STOPPED")

Effect ==
  CASE command.op = "pause" -> Turned("PAUSED")
    [] command.op = "resume" -> Turned("PLAYING")
    [] command.op = "toggle" -> Turned(Toggled(status))
    [] command.op = "stop" -> Stop
    [] OTHER -> UNCHANGED screen

(* A seek that has got this far has heard of no player: on Cast there is   *)
(* nothing to seek.  The renderer's position is an Option, and Number() of *)
(* it is not a number: there a seek by so much fails.                      *)
SeekFails ==
  \/ Seeks(command) /\ target.tag = "Cast"
  \/ command.op = "seek by" /\ target.tag = "Dlna"

Acts ==
  /\ at = "act" /\ ~IsPlay /\ ~SeekFails
  /\ Goes("remember") /\ Effect /\ UNCHANGED player

(* The device declines, or the connection breaks, before or after. *)
ActFails ==
  /\ at = "act"
  /\ Goes("failed") /\ UNCHANGED player
  /\ UNCHANGED screen \/ (~IsPlay /\ ~SeekFails /\ Effect)

(* History: this device, of which no change of the network is known. *)
Worked == IF before.changed THEN None ELSE [host |-> host, tag |-> target.tag]

(* As Remembers, had only the address of a Cast device been kept. *)
Remembers_Cast ==
  /\ at = "remember"
  /\ memory' = (IF target.tag = "Cast" THEN target ELSE memory)
  /\ at' = "done" /\ last' = Worked
  /\ UNCHANGED <<network, command, target, host, status, playing, bounds,
                 before>>

(* `remember`, "only once it worked". *)
Remembers ==
  /\ at = "remember"
  /\ memory' = target
  /\ at' = "done" /\ last' = Worked
  /\ UNCHANGED <<network, command, target, host, status, playing, bounds,
                 before>>

(* `cast play` goes on as the modules of its own describe: it starts the   *)
(* film, and on Cast it serves the control channel.                        *)
Plays ==
  /\ at = "act" /\ IsPlay
  /\ screen' = [screen EXCEPT ![host] = Film(target.tag)]
  /\ player' = (player \/ target.tag = "Cast")
  /\ at' = "done" /\ last' = Worked
  /\ UNCHANGED <<network, memory, command, target, host, status, bounds,
                 before>>

-----------------------------------------------------------------------------
(* A film ends, the application closes, the player ends, the network       *)
(* changes.                                                                *)

FilmEnds ==
  /\ \E h \in Hosts :
       /\ screen[h] # None
       /\ \/ screen' = [screen EXCEPT ![h].state = "STOPPED"]
          \/ screen' = [screen EXCEPT ![h] = None]
  /\ UNCHANGED <<network, memory, process, player, bounds, before, last>>

(* A player that is asked to end waits for the commands connected to it. *)
PlayerEnds ==
  /\ player /\ at # "channel"
  /\ player' = FALSE
  /\ UNCHANGED <<network, memory, process, screen, bounds, before, last>>

NetworkChanges ==
  /\ changes < MaxChanges
  /\ \E h \in Hosts :
       \/ Switched(h) /\ screen' = [screen EXCEPT ![h] = None]
       \/ \E a \in Addresses : NewLease(h, a) /\ UNCHANGED screen
  /\ changes' = changes + 1
  /\ before' = [before EXCEPT !.changed = TRUE] /\ last' = None
  /\ UNCHANGED <<process, player, commands>>

Next ==
  \/ \E c \in Asked : Begin(c)
  \/ GivesUp \/ PlayerKilled
  \/ Resolves \/ Connects \/ JoinFails \/ Unreached \/ Searches
  \/ Acts \/ ActFails \/ Remembers \/ Plays
  \/ FilmEnds \/ PlayerEnds \/ NetworkChanges

Spec == Init /\ [][Next]_vars

-----------------------------------------------------------------------------

(* A name or an address is an instruction: what is acted on, also after a  *)
(* failed connection and a second search, is at that address, is reached   *)
(* by the protocol asked for, and is a host of that name, unless the       *)
(* network changed under the command (Target.ts:289-291,                   *)
(* Control.ts:134-143).                                                    *)
ObeysFlags ==
  at \in {"act", "remember"} => LET flags == command.flags IN
    /\ flags.ip = None /\ flags.name # None /\ ~before.changed
         => host \in flags.name
    /\ flags.ip = None /\ flags.name # None /\ flags.protocol # None
         => target.tag = flags.protocol
    /\ flags.ip # None => target.tag # "Dlna" /\ target.at = flags.ip

(* A memory of a Cast device or a renderer that leads to nobody costs      *)
(* time: a command that fails without having reached anything, while the   *)
(* network is quiet, would have found nothing by a search either           *)
(* (Target.ts:208-210, Control.ts:134-143).                                *)
StaleMemoryHarmless ==
  at = "failed" /\ host = None /\ ~before.changed
    /\ ~IsPlay /\ ~Seeks(command) /\ command.flags.ip = None
    /\ before.memory # None /\ before.memory.tag # "AirPlay"
      => Search(command.flags) = {}

(* A command that fails leaves the memory it found: what is remembered has *)
(* worked (Control.ts:118-120).                                            *)
FailureKeepsMemory ==
  at = "failed" /\ ~IsPlay => memory = before.memory

(* "Someone who has just paused the renderer in the kitchen means the      *)
(* kitchen when they say `resume`" (Control.ts:72-76): a command without   *)
(* an address or a name acts on the device the last one worked on, by the  *)
(* same protocol, whatever has failed in between, if the network is as it  *)
(* was.                                                                    *)
MeansTheLast ==
  at \in {"act", "remember"} /\ ~IsPlay /\ last # None
    /\ command.flags.ip = None /\ command.flags.name = None
      => host = last.host /\ target.tag = last.tag

(* StaleMemoryHarmless, of a Cast device that answers and runs nothing, or *)
(* another one at its address: a search may have led to the one that runs. *)
StaleCastHarmless ==
  at = "failed" /\ host # None /\ status = "unknown" /\ ~before.changed
    /\ ~IsPlay /\ ~Seeks(command) /\ command.flags.ip = None
    /\ target = before.memory /\ target.tag = "Cast" /\ ~Runs(host)
      => \A t \in Search(command.flags) : \A h \in Reached(t) : ~Runs(h)

(* A seek is carried out while the player runs (Control.ts:388-400). *)
SeeksPlaying == at = "remember" /\ Seeks(command) => player

(* StaleMemoryHarmless, of an AirPlay receiver that has a new address      *)
(* (Target.ts:239-243).                                                    *)
StaleAirPlayHarmless ==
  at = "failed" /\ ~before.changed /\ ~IsPlay /\ ~Seeks(command)
    /\ before.memory # None /\ command.flags.ip = None /\ host = None
      => Search(command.flags) = {}

(* "With no name at all the last Cast device is used" (cast.ts:326), and   *)
(* not another device by the Cast protocol.                                *)
PlaysOnLastCast ==
  at = "connect" /\ IsPlay /\ command.flags.ip = None
    /\ command.flags.name = None /\ command.flags.protocol = None
    /\ before.memory # None /\ before.memory.tag = "AirPlay"
      => target.tag # "Cast" \/ target.at # before.memory.at
=============================================================================
