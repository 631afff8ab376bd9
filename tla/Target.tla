------------------------------- MODULE Target -------------------------------
(***************************************************************************)
(* Which device a command means (apps/cli/src/Cli/Target.ts, and for       *)
(* `cast play` resolveTarget in cast.ts): flags, the target remembered     *)
(* from the last command, and searches of the network.                     *)
(*                                                                         *)
(* A host speaks one or more protocols at one address.  Leases move        *)
(* addresses between hosts, and hosts are switched on and off.  A name is  *)
(* the set of the hosts whose own name contains it.                        *)
(***************************************************************************)
EXTENDS Naturals, FiniteSets

CONSTANTS
  Hosts, Addresses,
  Speaks,      \* Speaks[h]: the protocols of host h
  ShowsVideo,  \* the hosts whose AirPlay advertises video
  None         \* a flag that is not given, a memory that is empty

Protocols == {"Cast", "AirPlay", "Dlna"}

ASSUME TargetAssumption ==
  /\ Hosts # {} /\ Speaks \in [Hosts -> SUBSET Protocols]
  /\ ShowsVideo \subseteq Hosts

VARIABLES
  on,        \* the hosts that are switched on
  address,   \* address[h]: its lease
  memory     \* State.lastTarget

network == <<on, address>>

(* Cast and AirPlay are remembered by address, a renderer by its name. *)
Targets == [tag : {"Cast", "AirPlay"}, at : Addresses]
             \cup [tag : {"Dlna"}, host : Hosts]

Flags == [ip : Addresses \cup {None},
          name : {None} \cup (SUBSET Hosts \ {{}}),
          protocol : Protocols \cup {None}]

TargetTypeOK ==
  /\ on \subseteq Hosts
  /\ address \in [Hosts -> Addresses]
  /\ memory \in Targets \cup {None}

(* `discover`, with every description read: what answers on the network.   *)
Answering(protocol) == {h \in on : protocol \in Speaks[h]}

(* `matcher` *)
Matching(name, hosts) == IF name = None THEN hosts ELSE hosts \cap name

TargetOf(h, protocol) ==
  IF protocol = "Dlna" THEN [tag |-> protocol, host |-> h]
                       ELSE [tag |-> protocol, at |-> address[h]]

(* pickCast, pickAirPlay and pickDlna: the first that answered, any of     *)
(* them when several do.  Nobody is DeviceNotFoundError.                   *)
Picks(protocol, name) ==
  {TargetOf(h, protocol) : h \in Matching(name, Answering(protocol))}

(* pickDefault: Cast first, AirPlay second if it shows video, DLNA third.  *)
DefaultPicks(name) ==
  LET video == {TargetOf(h, "AirPlay") :
                  h \in Matching(name, Answering("AirPlay") \cap ShowsVideo)}
  IN  CASE Picks("Cast", name) # {} -> Picks("Cast", name)
        [] Picks("Cast", name) = {} /\ video # {} -> video
        [] OTHER -> Picks("Dlna", name)

(* `search` *)
Search(flags) ==
  IF flags.protocol = None THEN DefaultPicks(flags.name)
                           ELSE Picks(flags.protocol, flags.name)

(* An explicit address is Cast, unless a protocol says otherwise; there is *)
(* no renderer at an address.                                              *)
AtAddress(ip, protocol) ==
  CASE protocol \in {None, "Cast"} -> {[tag |-> "Cast", at |-> ip]}
    [] protocol = "AirPlay" -> {[tag |-> "AirPlay", at |-> ip]}
    [] protocol = "Dlna" -> {}

(* rememberedRenderer: an SSDP sweep for the very name, then the ordinary  *)
(* search.                                                                 *)
RememberedRenderer(h, flags) ==
  IF h \in Answering("Dlna") THEN {TargetOf(h, "Dlna")} ELSE Search(flags)

(* As UsesMemory, had a name been tried at the remembered device first. *)
UsesMemory_Always(flags) == flags.ip = None /\ memory # None

(* "An explicit name is an instruction, not a preference." *)
UsesMemory(flags) == flags.ip = None /\ flags.name = None /\ memory # None

(* `resolve`: the targets a command may find, none if it finds nothing.    *)
Resolve(flags) ==
  CASE flags.ip # None -> AtAddress(flags.ip, flags.protocol)
    [] UsesMemory(flags) ->
         IF memory.tag = "Dlna" THEN RememberedRenderer(memory.host, flags)
                                ELSE {memory}
    [] OTHER -> Search(flags)

(* resolveTarget of `cast play`: the remembered address, of whichever      *)
(* protocol, goes where an explicit one goes.                              *)
ResolvePlay(flags) ==
  CASE flags.ip # None -> AtAddress(flags.ip, flags.protocol)
    [] UsesMemory(flags) /\ memory.tag # "Dlna" ->
         AtAddress(memory.at, flags.protocol)
    [] OTHER -> Search(flags)

(* discoverDevice of `cast play`: Cast only. *)
DiscoverDevice(flags) == Picks("Cast", flags.name)

(* Who answers at a target now. *)
Reached(target) ==
  IF target.tag = "Dlna"
  THEN {target.host} \cap Answering("Dlna")
  ELSE {h \in Answering(target.tag) : address[h] = target.at}

-----------------------------------------------------------------------------
(* The network changes (external). *)

Switched(h) ==
  /\ on' = IF h \in on THEN on \ {h} ELSE on \cup {h}
  /\ UNCHANGED <<address, memory>>

NewLease(h, a) ==
  /\ \A other \in Hosts : address[other] # a
  /\ address' = [address EXCEPT ![h] = a]
  /\ UNCHANGED <<on, memory>>
=============================================================================
