--------------------------- MODULE ControlProofs ---------------------------
(***************************************************************************)
(* Proofs about Control, for any hosts, leases and commands: its types,    *)
(* that flags are obeyed, that a stale memory is harmless, that a failed   *)
(* command keeps the memory, and that a command without a name means the   *)
(* device the last one worked on.                                          *)
(***************************************************************************)
EXTENDS Control, TLAPS

USE TargetAssumption, ControlAssumption

Underway == {"resolve", "connect", "search", "reconnect", "act", "remember"}
Held == Underway \ {"resolve"}

(* No two hosts have one address. *)
Leased == \A g, h \in Hosts : address[g] = address[h] => g = h

(* What a command in progress holds is there. *)
Present ==
  /\ at # "done" => command \in Asked
  /\ at \in Held => target \in Targets
  /\ at \in {"act", "remember"} => host \in Hosts

(* Until it is done a command but `play` has not touched the memory. *)
Kept == at # "done" /\ ~IsPlay => memory = before.memory

(* An address that was given is obeyed exactly: there is no search. *)
Addressed ==
  at \in Held /\ command.flags.ip # None =>
    /\ at \notin {"search", "reconnect"}
    /\ target.tag # "Dlna" /\ target.at = command.flags.ip

(* Asked by name and protocol, a search is for both. *)
AsSpoken ==
  at \in Held /\ command.flags.ip = None /\ command.flags.name # None
    /\ command.flags.protocol # None
      => target.tag = command.flags.protocol

(* Only a Cast device is searched for again. *)
Again == at = "search" => target.tag = "Cast"

(* While the network is quiet, who was found by name has that name. *)
Named ==
  /\ at \in Held \ {"search"} /\ command.flags.ip = None
  /\ command.flags.name # None /\ ~before.changed
  => IF at \in {"act", "remember"} THEN host \in command.flags.name
     ELSE Reached(target) \subseteq command.flags.name

(* While the network is quiet, who was found answers; only the remembered  *)
(* Cast device need not. *)
StillThere ==
  /\ at \in {"connect", "reconnect"} /\ ~IsPlay /\ command.flags.ip = None
  /\ before.memory # None /\ before.memory.tag # "AirPlay" /\ ~before.changed
  => Reached(target) # {} \/ (at = "connect" /\ target.tag = "Cast")

(* While the network is quiet, who was connected to is still there. *)
Settled ==
  at \in {"act", "remember"} /\ ~before.changed => Reached(target) = {host}

(* What `play` goes by is what it has noted. *)
PlayNoted == at \in Held /\ IsPlay => memory = target

(* The memory leads to the last device, *)
Leads ==
  last # None => /\ memory # None /\ memory.tag = last.tag
                 /\ Reached(memory) = {last.host}

(* and a command without a name goes by it, and is never lost. *)
Led ==
  at \in Held /\ ~IsPlay /\ last # None
    /\ command.flags.ip = None /\ command.flags.name = None
      => at \notin {"search", "reconnect"} /\ target = memory

(* Only a seek asks the control channel. *)
Asking == at = "channel" => Seeks(command)

Ind ==
  /\ TypeOK
  /\ Leased
  /\ Present
  /\ Kept
  /\ Addressed
  /\ AsSpoken
  /\ Again
  /\ Named
  /\ StillThere
  /\ StaleMemoryHarmless
  /\ Settled
  /\ PlayNoted
  /\ Leads
  /\ Led
  /\ MeansTheLast
  /\ Asking

-----------------------------------------------------------------------------

LEMMA CommandParts ==
  ASSUME NEW c \in Asked
  PROVE  c.flags \in Flags /\ c.op \in Ops
BY DEF Commands

(* What is picked is the target of a host that answers, of that name. *)
LEMMA SearchFinds ==
  ASSUME TargetTypeOK, NEW flags \in Flags, NEW t \in Search(flags)
  PROVE  \E p \in Protocols, h \in Hosts :
           /\ t = TargetOf(h, p) /\ h \in Answering(p)
           /\ flags.name # None => h \in flags.name
           /\ flags.protocol # None => p = flags.protocol
<1>1. ASSUME NEW p \in Protocols, t \in Picks(p, flags.name)
      PROVE  \E h \in Hosts :
               /\ t = TargetOf(h, p) /\ h \in Answering(p)
               /\ flags.name # None => h \in flags.name
  BY <1>1 DEF Picks, Matching, Answering, TargetTypeOK
<1>2. CASE flags.protocol # None
  BY <1>1, <1>2 DEF Search, Flags
<1>3. CASE flags.protocol = None
  <2>1. t \in DefaultPicks(flags.name)
    BY <1>3 DEF Search
  <2> DEFINE video == {TargetOf(h, "AirPlay") :
                         h \in Matching(flags.name, Answering("AirPlay") \cap ShowsVideo)}
  <2>2. \/ t \in Picks("Cast", flags.name) \/ t \in video
        \/ t \in Picks("Dlna", flags.name)
    BY <2>1 DEF DefaultPicks
  <2>3. t \in video => t \in Picks("AirPlay", flags.name)
    BY DEF Picks, Matching
  <2> QED BY <2>2, <2>3, <1>1, <1>3 DEF Protocols
<1> QED BY <1>2, <1>3

(* A target that was just picked leads to its host, and to nobody else. *)
LEMMA PickReached ==
  ASSUME TargetTypeOK, Leased, NEW p \in Protocols, NEW h \in Hosts,
         h \in Answering(p)
  PROVE  /\ TargetOf(h, p) \in Targets
         /\ TargetOf(h, p).tag = p
         /\ Reached(TargetOf(h, p)) = {h}
<1>1. Answering(p) \subseteq Hosts
  BY DEF Answering, TargetTypeOK
<1>2. CASE p = "Dlna"
  BY <1>2 DEF TargetOf, Targets, Reached
<1>3. CASE p # "Dlna"
  BY <1>1, <1>3 DEF TargetOf, Targets, Reached, Protocols, Leased, TargetTypeOK
<1> QED BY <1>2, <1>3

LEMMA SearchReached ==
  ASSUME TargetTypeOK, Leased, NEW flags \in Flags, NEW t \in Search(flags)
  PROVE  /\ t \in Targets
         /\ Reached(t) # {}
         /\ flags.name # None => Reached(t) \subseteq flags.name
         /\ flags.protocol # None => t.tag = flags.protocol
<1>1. PICK p \in Protocols, h \in Hosts :
           /\ t = TargetOf(h, p) /\ h \in Answering(p)
           /\ flags.name # None => h \in flags.name
           /\ flags.protocol # None => p = flags.protocol
  BY SearchFinds
<1> QED BY <1>1, PickReached

LEMMA AddressTargets ==
  ASSUME NEW ip \in Addresses, NEW protocol \in Protocols \cup {None},
         NEW t \in AtAddress(ip, protocol)
  PROVE  /\ t \in Targets /\ t.tag # "Dlna" /\ t.at = ip
         /\ protocol # None => t.tag = protocol
<1>1. CASE protocol \in {None, "Cast"}
  BY <1>1 DEF AtAddress, Targets, Protocols
<1>2. CASE protocol = "AirPlay"
  BY <1>2 DEF AtAddress, Targets, Protocols
<1>3. CASE protocol = "Dlna"
  BY <1>3 DEF AtAddress, Protocols
<1> QED BY <1>1, <1>2, <1>3 DEF Protocols

LEMMA ResolveReached ==
  ASSUME TargetTypeOK, Leased, NEW flags \in Flags, NEW t \in Resolve(flags)
  PROVE  /\ t \in Targets
         /\ flags.ip # None => t.tag # "Dlna" /\ t.at = flags.ip
         /\ flags.ip = None /\ flags.name # None =>
              /\ Reached(t) \subseteq flags.name
              /\ flags.protocol # None => t.tag = flags.protocol
         /\ flags.ip = None /\ memory # None /\ memory.tag # "AirPlay"
              => Reached(t) # {} \/ t.tag = "Cast"
<1>1. CASE flags.ip # None
  <2>1. t \in AtAddress(flags.ip, flags.protocol)
    BY <1>1 DEF Resolve, UsesMemory
  <2> QED BY <1>1, <2>1, AddressTargets DEF Flags
<1>2. CASE flags.ip = None /\ UsesMemory(flags)
  <2>1. CASE memory.tag # "Dlna"
    <3>1. t = memory
      BY <1>2, <2>1 DEF Resolve
    <3> QED BY <3>1, <1>2, <2>1 DEF UsesMemory, TargetTypeOK, Targets
  <2>2. CASE memory.tag = "Dlna"
    <3>1. memory.host \in Hosts
      BY <1>2, <2>2 DEF UsesMemory, TargetTypeOK, Targets
    <3>2. t \in RememberedRenderer(memory.host, flags)
      BY <1>2, <2>2 DEF Resolve
    <3>3. CASE memory.host \in Answering("Dlna")
      <4>1. t = TargetOf(memory.host, "Dlna")
        BY <3>2, <3>3 DEF RememberedRenderer
      <4> QED BY <4>1, <3>1, <3>3, <1>2, PickReached DEF UsesMemory, Protocols
    <3>4. CASE memory.host \notin Answering("Dlna")
      <4>1. t \in Search(flags)
        BY <3>2, <3>4 DEF RememberedRenderer
      <4> QED BY <4>1, <1>2, SearchReached
    <3> QED BY <3>3, <3>4
  <2> QED BY <2>1, <2>2
<1>3. CASE flags.ip = None /\ ~UsesMemory(flags)
  <2>1. t \in Search(flags)
    BY <1>3 DEF Resolve
  <2> QED BY <1>3, <2>1, SearchReached
<1> QED BY <1>1, <1>2, <1>3

LEMMA ResolvePlayReached ==
  ASSUME TargetTypeOK, Leased, NEW flags \in Flags, NEW t \in ResolvePlay(flags)
  PROVE  /\ t \in Targets
         /\ flags.ip # None => t.tag # "Dlna" /\ t.at = flags.ip
         /\ flags.ip = None /\ flags.name # None =>
              /\ Reached(t) \subseteq flags.name
              /\ flags.protocol # None => t.tag = flags.protocol
<1>1. CASE flags.ip # None
  <2>1. t \in AtAddress(flags.ip, flags.protocol)
    BY <1>1 DEF ResolvePlay, UsesMemory
  <2> QED BY <1>1, <2>1, AddressTargets DEF Flags
<1>2. CASE flags.ip = None /\ UsesMemory(flags) /\ memory.tag # "Dlna"
  <2>1. t \in AtAddress(memory.at, flags.protocol)
    BY <1>2 DEF ResolvePlay
  <2>2. memory.at \in Addresses
    BY <1>2 DEF UsesMemory, TargetTypeOK, Targets
  <2> QED BY <1>2, <2>1, <2>2, AddressTargets DEF Flags, UsesMemory
<1>3. CASE flags.ip = None /\ ~(UsesMemory(flags) /\ memory.tag # "Dlna")
  <2>1. t \in Search(flags)
    BY <1>3 DEF ResolvePlay
  <2> QED BY <1>3, <2>1, SearchReached
<1> QED BY <1>1, <1>2, <1>3

(* A search that comes of nothing is a search that finds nothing.          *)
LEMMA ResolvesToNothing ==
  ASSUME TargetTypeOK, NEW flags \in Flags, Resolve(flags) = {},
         flags.ip = None, memory # None
  PROVE  Search(flags) = {}
BY DEF Resolve, UsesMemory, RememberedRenderer

LEMMA DiscoverReached ==
  ASSUME TargetTypeOK, Leased, NEW flags \in Flags, NEW t \in DiscoverDevice(flags)
  PROVE  /\ t \in Targets /\ t.tag = "Cast"
         /\ flags.name # None => Reached(t) \subseteq flags.name
<1>1. PICK h \in Hosts : /\ t = TargetOf(h, "Cast") /\ h \in Answering("Cast")
                         /\ flags.name # None => h \in flags.name
  BY DEF DiscoverDevice, Picks, Matching, Answering, TargetTypeOK
<1> QED BY <1>1, PickReached DEF Protocols

-----------------------------------------------------------------------------

(* At a target there is at most one host. *)
LEMMA OneReached ==
  ASSUME TargetTypeOK, Leased, NEW t \in Targets, NEW h \in Reached(t)
  PROVE  h \in Hosts /\ Reached(t) = {h}
<1>1. CASE t.tag = "Dlna"
  BY <1>1 DEF Reached, Answering, TargetTypeOK
<1>2. CASE t.tag # "Dlna"
  BY <1>2 DEF Reached, Answering, TargetTypeOK, Leased
<1> QED BY <1>1, <1>2

(* A memory that leads to somebody is what a command without a name, and   *)
(* without an address, resolves to.                                        *)
LEMMA ResolvesToMemory ==
  ASSUME TargetTypeOK, NEW flags \in Flags, flags.ip = None, flags.name = None,
         memory # None, Reached(memory) # {}, NEW t \in Resolve(flags)
  PROVE  t = memory
<1>1. memory \in Targets /\ UsesMemory(flags)
  BY DEF TargetTypeOK, UsesMemory
<1>2. CASE memory.tag = "Dlna"
  <2>1. memory.host \in Answering("Dlna") /\ memory = [tag |-> "Dlna", host |-> memory.host]
    BY <1>1, <1>2 DEF Reached, Targets
  <2>2. t = TargetOf(memory.host, "Dlna")
    BY <1>1, <1>2, <2>1 DEF Resolve, RememberedRenderer
  <2> QED BY <2>1, <2>2 DEF TargetOf
<1>3. CASE memory.tag # "Dlna"
  BY <1>1, <1>3 DEF Resolve
<1> QED BY <1>2, <1>3

LEMMA InitInd == Init => Ind
<1> SUFFICES ASSUME Init PROVE Ind
  OBVIOUS
<1>1. TypeOK
  <2>1. PICK h \in Hosts, p \in Protocols :
          /\ screen = [g \in Hosts |-> IF g = h THEN Film(p) ELSE None]
          /\ player \in {FALSE, p = "Cast"}
    BY DEF Init
  <2>2. screen \in [Hosts -> Films \cup {None}] /\ player \in BOOLEAN
    BY <2>1 DEF Film, Films
  <2> QED BY <2>2 DEF Init, TypeOK, TargetTypeOK
<1>2. Leased /\ Present /\ Kept /\ Addressed /\ AsSpoken /\ Again /\ Named
  BY DEF Init, Leased, Present, Kept, Addressed, AsSpoken, Again, Named, Underway, Held
<1>3. StillThere /\ StaleMemoryHarmless /\ Settled /\ PlayNoted /\ Leads /\ Led
        /\ MeansTheLast
  BY DEF Init, StillThere, StaleMemoryHarmless, Settled, PlayNoted, Leads, Led, MeansTheLast,
     Underway, Held
<1>4. Asking
  BY DEF Init, Asking
<1> QED BY <1>1, <1>2, <1>3, <1>4 DEF Ind

(* Who is reached is a matter of the network. *)
LEMMA SameReach ==
  ASSUME UNCHANGED network
  PROVE  /\ \A t : Reached(t)' = Reached(t)
         /\ \A flags : Search(flags)' = Search(flags)
<1>1. \A p : Answering(p)' = Answering(p)
  BY DEF network, Answering
<1>2. \A h, p : TargetOf(h, p)' = TargetOf(h, p)
  BY DEF network, TargetOf
<1>3. \A p, n : Picks(p, n)' = Picks(p, n)
  BY <1>1, <1>2 DEF Picks
<1>4. \A n : DefaultPicks(n)' = DefaultPicks(n)
  BY <1>1, <1>2, <1>3 DEF DefaultPicks
<1> QED BY <1>1, <1>3, <1>4 DEF network, Reached, Search

(* A new command begins with nothing found. *)
LEMMA BeginInd == ASSUME Ind, NEW c \in Asked, Begin(c) PROVE Ind'
<1>1. /\ command' = c /\ at' \in {"channel", "resolve", "failed"}
      /\ at' \in {"channel", "failed"} => Seeks(c)
      /\ target' = None /\ host' = None /\ status' = "unknown"
      /\ before' = [memory |-> memory, changed |-> FALSE]
      /\ UNCHANGED <<network, memory, playing, last>>
  <2>1. player \in BOOLEAN /\ Seeks(c) \in BOOLEAN
    BY DEF Ind, TypeOK, Seeks
  <2>2. at' \in {"channel", "resolve", "failed"} /\ (at' \in {"channel", "failed"} => Seeks(c))
    BY <2>1 DEF Begin
  <2> QED BY <2>2 DEF Begin
<1>2. TypeOK'
  BY <1>1 DEF Ind, TypeOK, TargetTypeOK, network, playing
<1>3. Leased' /\ Present' /\ Kept'
  BY <1>1 DEF Ind, Leased, Present, Kept, IsPlay, network, Underway, Held
<1>4. StaleMemoryHarmless'
  BY <1>1 DEF StaleMemoryHarmless, Seeks
<1>5. Addressed' /\ AsSpoken' /\ Again' /\ Named' /\ StillThere'
  BY <1>1 DEF Addressed, AsSpoken, Again, Named, StillThere, Held, Underway
<1>6. Leads'
  BY <1>1, SameReach DEF Ind, Leads
<1>7. Settled' /\ PlayNoted' /\ Led' /\ MeansTheLast'
  BY <1>1 DEF Settled, PlayNoted, Led, MeansTheLast, Held, Underway
<1>8. Asking'
  BY <1>1 DEF Asking, Seeks
<1> QED BY <1>2, <1>3, <1>4, <1>5, <1>6, <1>7, <1>8 DEF Ind

(* What a step of the command itself cannot disturb. *)
Steady == UNCHANGED <<network, command, before>>

LEMMA SteadyFacts ==
  ASSUME Ind, Steady
  PROVE  /\ Leased' /\ on' = on /\ address' = address
         /\ command' = command /\ before' = before
         /\ IsPlay' = IsPlay /\ Seeks(command)' = Seeks(command)
         /\ \A t : Reached(t)' = Reached(t)
         /\ \A flags : Search(flags)' = Search(flags)
BY SameReach DEF Ind, Steady, Leased, network, IsPlay, Seeks

(* What happens to the films and to the player is of no account. *)
ScreenKept == player' \in BOOLEAN /\ screen' \in [Hosts -> Films \cup {None}]

(* A step to "failed": nothing is left to say but why. *)
LEMMA FailInd ==
  ASSUME Ind, at # "done", Steady, at' = "failed", ScreenKept,
         UNCHANGED <<memory, target, status, last>>, host' \in Hosts \cup {None},
         StaleMemoryHarmless'
  PROVE  Ind'
<1>1. TypeOK' /\ Present' /\ Kept'
  BY DEF Ind, Steady, TypeOK, TargetTypeOK, Present, Kept, IsPlay, network, ScreenKept,
     Underway, Held
<1>2. Addressed' /\ AsSpoken' /\ Again' /\ Named' /\ StillThere'
  BY DEF Addressed, AsSpoken, Again, Named, StillThere, Held, Underway
<1>3. Settled' /\ PlayNoted' /\ Led' /\ MeansTheLast' /\ Asking'
  BY DEF Settled, PlayNoted, Led, MeansTheLast, Asking, Held, Underway
<1>4. Leased' /\ Leads'
  BY SteadyFacts DEF Ind, Leads
<1> QED BY <1>1, <1>2, <1>3, <1>4 DEF Ind

(* The channel does not answer. *)
LEMMA ChannelInd == ASSUME Ind, GivesUp \/ PlayerKilled PROVE Ind'
<1>1. /\ at = "channel" /\ Steady /\ at' \in {"resolve", "failed"} /\ ScreenKept
      /\ UNCHANGED <<memory, target, host, status, last>>
  BY DEF GivesUp, PlayerKilled, Goes, Steady, playing, ScreenKept, Ind, TypeOK
<1>2. Seeks(command)
  BY <1>1 DEF Ind, Asking
<1>3. CASE at' = "failed"
  <2>1. StaleMemoryHarmless'
    BY <1>1, <1>2, SteadyFacts DEF StaleMemoryHarmless
  <2>2. host' \in Hosts \cup {None}
    BY <1>1 DEF Ind, TypeOK
  <2> QED BY <1>1, <1>3, <2>1, <2>2, FailInd
<1>4. CASE at' = "resolve"
  <2>1. TypeOK' /\ Present' /\ Kept'
    BY <1>1, <1>4 DEF Ind, Steady, TypeOK, TargetTypeOK, Present, Kept, IsPlay, network,
       ScreenKept, Underway, Held
  <2>2. Addressed' /\ AsSpoken' /\ Again' /\ Named' /\ StillThere' /\ StaleMemoryHarmless'
    BY <1>4 DEF Addressed, AsSpoken, Again, Named, StillThere, StaleMemoryHarmless, Held, Underway
  <2>3. Settled' /\ PlayNoted' /\ Led' /\ MeansTheLast' /\ Asking'
    BY <1>4 DEF Settled, PlayNoted, Led, MeansTheLast, Asking, Held, Underway
  <2>4. Leased' /\ Leads'
    BY <1>1, SteadyFacts DEF Ind, Leads
  <2> QED BY <2>1, <2>2, <2>3, <2>4 DEF Ind
<1> QED BY <1>1, <1>3, <1>4

(* A target is found, by the memory or by a search. *)
LEMMA FoundInd ==
  ASSUME Ind, NEW t \in Targets, NEW place \in {"connect", "reconnect"},
         at \in {"resolve", "search"}, Found(t, place),
         command.flags.ip # None =>
           place = "connect" /\ t.tag # "Dlna" /\ t.at = command.flags.ip,
         command.flags.ip = None /\ command.flags.name # None =>
           /\ Reached(t) \subseteq command.flags.name
           /\ command.flags.protocol # None => t.tag = command.flags.protocol,
         ~IsPlay /\ command.flags.ip = None /\ memory # None /\ memory.tag # "AirPlay"
           => Reached(t) # {} \/ (place = "connect" /\ t.tag = "Cast"),
         ~IsPlay /\ last # None /\ command.flags.ip = None /\ command.flags.name = None
           => place = "connect" /\ t = memory
  PROVE  Ind'
<1>1. Steady /\ at' = place /\ target' = t /\ UNCHANGED <<host, status, playing>>
        /\ memory' = (IF IsPlay THEN t ELSE memory)
        /\ last' = (IF IsPlay THEN None ELSE last)
  BY DEF Found, Noted, Steady
<1>2. TypeOK'
  BY <1>1 DEF Ind, Steady, TypeOK, TargetTypeOK, network, playing
<1>3. Present' /\ Kept'
  BY <1>1 DEF Ind, Steady, Present, Kept, IsPlay, Underway, Held
<1>4. Addressed' /\ AsSpoken' /\ Again' /\ StaleMemoryHarmless' /\ Asking'
  BY <1>1, SteadyFacts DEF Addressed, AsSpoken, Again, StaleMemoryHarmless, Asking, Held, Underway
<1>5. Named'
  BY <1>1, SteadyFacts DEF Named, Held, Underway
<1>6. StillThere'
  BY <1>1, SteadyFacts DEF StillThere, Ind, Kept
<1>7. Settled' /\ MeansTheLast'
  BY <1>1 DEF Settled, MeansTheLast
<1>8. PlayNoted' /\ Led'
  BY <1>1, SteadyFacts DEF PlayNoted, Led
<1>9. Leads'
  BY <1>1, SteadyFacts DEF Ind, Leads
<1> QED BY <1>1, <1>2, <1>3, <1>4, <1>5, <1>6, <1>7, <1>8, <1>9, SteadyFacts DEF Ind

LEMMA ResolvesInd == ASSUME Ind, Resolves PROVE Ind'
<1> DEFINE targets == IF IsPlay THEN ResolvePlay(command.flags) ELSE Resolve(command.flags)
<1>1. at = "resolve" /\ command \in Asked /\ command.flags \in Flags
        /\ TargetTypeOK /\ Leased
  BY CommandParts DEF Resolves, Ind, Present, TypeOK
<1>2. CASE targets = {} /\ Goes("failed") /\ UNCHANGED playing
  <2>1. Steady /\ at' = "failed" /\ UNCHANGED <<memory, target, host, status, playing, last>>
    BY <1>2 DEF Goes, Steady
  <2>2. StaleMemoryHarmless'
    <3>1. SUFFICES ASSUME ~IsPlay, before.memory # None, command.flags.ip = None
                   PROVE  Search(command.flags) = {}
      BY <2>1, SteadyFacts DEF StaleMemoryHarmless
    <3>2. memory = before.memory
      BY <1>1, <3>1 DEF Ind, Kept
    <3> QED BY <1>1, <1>2, <3>1, <3>2, ResolvesToNothing
  <2>3. ScreenKept /\ host' \in Hosts \cup {None}
    BY <2>1 DEF Ind, TypeOK, playing, ScreenKept
  <2> QED BY <1>1, <2>1, <2>2, <2>3, FailInd
<1>3. CASE \E t \in targets : Found(t, "connect")
  <2>1. PICK t \in targets : Found(t, "connect")
    BY <1>3
  <2>2. /\ t \in Targets
        /\ command.flags.ip # None => t.tag # "Dlna" /\ t.at = command.flags.ip
        /\ command.flags.ip = None /\ command.flags.name # None =>
             /\ Reached(t) \subseteq command.flags.name
             /\ command.flags.protocol # None => t.tag = command.flags.protocol
        /\ ~IsPlay /\ command.flags.ip = None /\ memory # None /\ memory.tag # "AirPlay"
             => Reached(t) # {} \/ t.tag = "Cast"
    BY <1>1, ResolveReached, ResolvePlayReached
  <2>3. ~IsPlay /\ last # None /\ command.flags.ip = None /\ command.flags.name = None
          => t = memory
    <3>1. last # None => memory # None /\ Reached(memory) # {}
      BY DEF Ind, Leads
    <3> QED BY <1>1, <3>1, ResolvesToMemory
  <2> QED BY <1>1, <2>1, <2>2, <2>3, FoundInd
<1> QED BY <1>2, <1>3 DEF Resolves

LEMMA SearchesInd == ASSUME Ind, Searches PROVE Ind'
<1> DEFINE targets == IF IsPlay THEN DiscoverDevice(command.flags) ELSE Search(command.flags)
<1>1. /\ at = "search" /\ command \in Asked /\ command.flags \in Flags
      /\ TargetTypeOK /\ Leased
      /\ command.flags.ip = None /\ target.tag = "Cast"
      /\ command.flags.name # None /\ command.flags.protocol # None
           => command.flags.protocol = "Cast"
      /\ ~IsPlay /\ last # None => command.flags.name # None
  BY CommandParts DEF Searches, Ind, Present, TypeOK, Addressed, AsSpoken, Again, Led, Held, Underway
<1>2. CASE targets = {} /\ Goes("failed") /\ UNCHANGED playing
  <2>1. Steady /\ at' = "failed" /\ UNCHANGED <<memory, target, host, status, playing, last>>
    BY <1>2 DEF Goes, Steady
  <2>2. StaleMemoryHarmless'
    BY <1>2, <2>1, SteadyFacts DEF StaleMemoryHarmless
  <2>3. ScreenKept /\ host' \in Hosts \cup {None}
    BY <2>1 DEF Ind, TypeOK, playing, ScreenKept
  <2> QED BY <1>1, <2>1, <2>2, <2>3, FailInd
<1>3. CASE \E t \in targets : Found(t, "reconnect")
  <2>1. PICK t \in targets : Found(t, "reconnect")
    BY <1>3
  <2>2. /\ t \in Targets
        /\ command.flags.name # None =>
             /\ Reached(t) \subseteq command.flags.name
             /\ command.flags.protocol # None => t.tag = command.flags.protocol
        /\ ~IsPlay => Reached(t) # {}
    BY <1>1, SearchReached, DiscoverReached
  <2> QED BY <1>1, <2>1, <2>2, FoundInd
<1> QED BY <1>2, <1>3 DEF Searches

LEMMA UnreachedInd == ASSUME Ind, Unreached PROVE Ind'
<1>1. /\ at \in {"connect", "reconnect"} /\ Reached(target) = {}
      /\ command \in Asked /\ command.flags \in Flags
      /\ UNCHANGED playing
  BY CommandParts DEF Unreached, Ind, Present
<1>2. ScreenKept /\ host \in Hosts \cup {None}
  BY <1>1 DEF Ind, TypeOK, playing, ScreenKept
<1>3. ~(~IsPlay /\ last # None /\ command.flags.ip = None /\ command.flags.name = None)
  BY <1>1 DEF Ind, Led, Leads, Held, Underway
<1>4. CASE at = "connect" /\ Recovers
  <2>1. Goes("search")
    BY <1>4 DEF Unreached
  <2>2. Steady /\ at' = "search" /\ UNCHANGED <<memory, target, host, status, last>>
    BY <2>1 DEF Goes, Steady
  <2>3. TypeOK' /\ Present' /\ Kept'
    BY <1>1, <1>2, <2>2 DEF Ind, Steady, TypeOK, TargetTypeOK, Present, Kept, IsPlay, network,
       ScreenKept, Underway, Held
  <2>4. Addressed' /\ AsSpoken' /\ Again'
    BY <1>1, <1>4, <2>2, SteadyFacts DEF Ind, Addressed, AsSpoken, Again, Recovers, Held, Underway
  <2>5. Named' /\ StillThere' /\ StaleMemoryHarmless' /\ Settled' /\ MeansTheLast' /\ Asking'
    BY <2>2 DEF Named, StillThere, StaleMemoryHarmless, Settled, MeansTheLast, Asking
  <2>6. PlayNoted' /\ Led' /\ Leads'
    BY <1>1, <1>3, <2>2, SteadyFacts DEF Ind, PlayNoted, Led, Leads, Held, Underway
  <2> QED BY <2>2, <2>3, <2>4, <2>5, <2>6, SteadyFacts DEF Ind
<1>5. CASE ~(at = "connect" /\ Recovers)
  <2>1. Goes("failed")
    BY <1>5 DEF Unreached
  <2>2. Steady /\ at' = "failed" /\ UNCHANGED <<memory, target, host, status, last>>
    BY <2>1 DEF Goes, Steady
  <2>3. StaleMemoryHarmless'
    BY <1>1, <1>5, <2>2, SteadyFacts DEF StaleMemoryHarmless, Ind, StillThere, Recovers
  <2> QED BY <1>1, <1>2, <2>2, <2>3, FailInd
<1> QED BY <1>4, <1>5

LEMMA JoinFailsInd == ASSUME Ind, JoinFails PROVE Ind'
<1>1. /\ at \in {"connect", "reconnect"} /\ at' = "failed" /\ Steady
      /\ UNCHANGED <<memory, target, status, playing, last>>
  BY DEF JoinFails, Steady
<1>2. target \in Targets /\ TargetTypeOK /\ Leased
  BY <1>1 DEF Ind, Present, TypeOK, Held, Underway
<1>3. host' \in Hosts
  BY <1>2, OneReached DEF JoinFails
<1>4. StaleMemoryHarmless' /\ ScreenKept
  BY <1>1, <1>3 DEF StaleMemoryHarmless, Ind, TypeOK, playing, ScreenKept
<1> QED BY <1>1, <1>3, <1>4, FailInd

LEMMA ConnectsInd == ASSUME Ind, Connects PROVE Ind'
<1>1. PICK h \in Reached(target) :
        /\ host' = h /\ at' = "act" /\ status' \in Tells(h)
        /\ UNCHANGED <<network, memory, command, target, playing, before, last>>
  BY DEF Connects
<1>2. /\ at \in {"connect", "reconnect"} /\ command \in Asked /\ target \in Targets
      /\ TargetTypeOK /\ Leased /\ Steady
  BY <1>1 DEF Connects, Ind, Present, TypeOK, Steady, Held, Underway
<1>3. h \in Hosts /\ Reached(target) = {h}
  BY <1>2, OneReached
<1>4. status' \in {"PLAYING", "PAUSED", "STOPPED", "unknown"}
  BY <1>1, <1>3 DEF Tells, Ind, TypeOK, Films
<1>5. TypeOK'
  BY <1>1, <1>3, <1>4 DEF Ind, TypeOK, TargetTypeOK, network, playing
<1>6. Present' /\ Kept' /\ Asking'
  BY <1>1, <1>2, <1>3 DEF Ind, Present, Kept, IsPlay, Asking, Held, Underway
<1>7. Addressed' /\ AsSpoken' /\ Again'
  BY <1>1, <1>2 DEF Ind, Addressed, AsSpoken, Again, Held, Underway
<1>8. Named'
  BY <1>1, <1>2 DEF Ind, Named, Held, Underway
<1>9. StillThere' /\ StaleMemoryHarmless'
  BY <1>1 DEF StillThere, StaleMemoryHarmless
<1>10. Settled' /\ Leads'
  BY <1>1, <1>2, <1>3, SteadyFacts DEF Ind, Settled, Leads
<1>11. PlayNoted' /\ Led' /\ MeansTheLast'
  BY <1>1, <1>2, <1>3, SteadyFacts DEF Ind, PlayNoted, Led, Leads, MeansTheLast, Held, Underway
<1> QED BY <1>2, <1>5, <1>6, <1>7, <1>8, <1>9, <1>10, <1>11, SteadyFacts DEF Ind

LEMMA TurnedKeeps ==
  ASSUME Ind, NEW state \in {"PLAYING", "PAUSED", "STOPPED"}, Turned(state), UNCHANGED player
  PROVE  ScreenKept
<1>1. CASE Shown /\ host \in Hosts
  <2>1. screen[host] \in Films
    BY <1>1 DEF Shown, Ind, TypeOK
  <2> QED BY <1>1, <2>1 DEF Turned, ScreenKept, Ind, TypeOK, Films
<1>2. CASE ~Shown
  BY <1>2 DEF Turned, ScreenKept, Ind, TypeOK
<1>3. CASE host \notin Hosts
  BY <1>3 DEF Turned, ScreenKept, Ind, TypeOK
<1> QED BY <1>1, <1>2, <1>3

LEMMA EffectKeeps ==
  ASSUME Ind, Effect, UNCHANGED player
  PROVE  ScreenKept
<1>1. CASE command.op = "pause"
  BY <1>1, TurnedKeeps DEF Effect
<1>2. CASE command.op = "resume"
  BY <1>2, TurnedKeeps DEF Effect
<1>3. CASE command.op = "toggle"
  BY <1>3, TurnedKeeps DEF Effect, Toggled
<1>4. CASE command.op = "stop"
  <2>1. Stop
    BY <1>4 DEF Effect
  <2>2. CASE Runs(host) /\ target.tag = "Cast"
    BY <2>1, <2>2 DEF Stop, ScreenKept, Ind, TypeOK
  <2>3. CASE ~(Runs(host) /\ target.tag = "Cast")
    BY <2>1, <2>3, TurnedKeeps DEF Stop
  <2> QED BY <2>2, <2>3
<1>5. CASE command.op \notin {"pause", "resume", "toggle", "stop"}
  BY <1>5 DEF Effect, ScreenKept, Ind, TypeOK
<1> QED BY <1>1, <1>2, <1>3, <1>4, <1>5

LEMMA ActsInd == ASSUME Ind, Acts PROVE Ind'
<1>1. /\ at = "act" /\ ~IsPlay /\ Steady /\ at' = "remember" /\ ScreenKept
      /\ UNCHANGED <<memory, target, host, status, last>>
  BY EffectKeeps DEF Acts, Goes, Steady
<1>2. TypeOK'
  BY <1>1 DEF Ind, Steady, TypeOK, TargetTypeOK, network, ScreenKept
<1>3. Present' /\ Kept' /\ Addressed' /\ AsSpoken' /\ Again' /\ Named' /\ Asking'
  BY <1>1, SteadyFacts DEF Ind, Present, Kept, Addressed, AsSpoken, Again, Named, Asking,
     Held, Underway
<1>4. StillThere' /\ StaleMemoryHarmless'
  BY <1>1 DEF StillThere, StaleMemoryHarmless
<1>5. Settled' /\ Leads'
  BY <1>1, SteadyFacts DEF Ind, Settled, Leads
<1>6. PlayNoted' /\ Led' /\ MeansTheLast'
  BY <1>1, SteadyFacts DEF Ind, PlayNoted, Led, MeansTheLast, Held, Underway
<1> QED BY <1>1, <1>2, <1>3, <1>4, <1>5, <1>6, SteadyFacts DEF Ind

LEMMA ActFailsInd == ASSUME Ind, ActFails PROVE Ind'
<1>1. /\ at = "act" /\ Steady /\ at' = "failed"
      /\ UNCHANGED <<memory, target, host, status, last>>
  BY DEF ActFails, Goes, Steady
<1>2. ScreenKept
  BY EffectKeeps DEF ActFails, ScreenKept, Ind, TypeOK
<1>3. host' \in Hosts
  BY <1>1 DEF Ind, Present
<1>4. StaleMemoryHarmless'
  BY <1>3 DEF StaleMemoryHarmless
<1> QED BY <1>1, <1>2, <1>3, <1>4, FailInd

(* A step to "done" leaves a memory that leads to who was acted on. *)
LEMMA DoneInd ==
  ASSUME Ind, Steady, at \in {"act", "remember"}, at' = "done", ScreenKept,
         UNCHANGED <<target, host, status>>, memory' = target, last' = Worked
  PROVE  Ind'
<1>1. host \in Hosts /\ target \in Targets /\ target.tag \in Protocols
  BY DEF Ind, Present, Held, Underway, Targets, Protocols
<1>2. last' \in Devices \cup {None}
  BY <1>1 DEF Worked, Devices
<1>3. TypeOK'
  BY <1>1, <1>2 DEF Ind, Steady, TypeOK, TargetTypeOK, network, ScreenKept
<1>4. Present' /\ Kept' /\ Addressed' /\ AsSpoken' /\ Again' /\ Named' /\ Asking'
  BY DEF Present, Kept, Addressed, AsSpoken, Again, Named, Asking, Held, Underway
<1>5. StillThere' /\ StaleMemoryHarmless' /\ Settled' /\ PlayNoted' /\ Led' /\ MeansTheLast'
  BY DEF StillThere, StaleMemoryHarmless, Settled, PlayNoted, Led, MeansTheLast, Held, Underway
<1>6. Leads'
  <2>1. CASE before.changed
    BY <2>1 DEF Worked, Leads
  <2>2. CASE ~before.changed
    <3>1. last' = [host |-> host, tag |-> target.tag] /\ Reached(target) = {host}
      BY <2>2 DEF Worked, Ind, Settled
    <3>2. memory' # None
      BY <1>1
    <3> QED BY <3>1, <3>2, SteadyFacts DEF Leads
  <2> QED BY <2>1, <2>2
<1> QED BY <1>3, <1>4, <1>5, <1>6, SteadyFacts DEF Ind

LEMMA RemembersInd == ASSUME Ind, Remembers PROVE Ind'
BY DoneInd DEF Remembers, Steady, Ind, TypeOK, playing, ScreenKept

LEMMA PlaysInd == ASSUME Ind, Plays PROVE Ind'
<1>1. /\ at = "act" /\ IsPlay /\ Steady /\ at' = "done" /\ last' = Worked
      /\ UNCHANGED <<target, host, status, memory>>
  BY DEF Plays, Steady
<1>2. memory = target /\ target \in Targets
  BY <1>1 DEF Ind, PlayNoted, Present, Held, Underway
<1>3. Film(target.tag) \in Films
  BY <1>2 DEF Film, Films, Targets, Protocols
<1>4. ScreenKept
  BY <1>3 DEF Plays, ScreenKept, Ind, TypeOK
<1> QED BY <1>1, <1>2, <1>4, DoneInd

(* The end of a film, and of the player. *)
LEMMA ScreenInd ==
  ASSUME Ind, Steady, UNCHANGED <<memory, process, last>>, ScreenKept
  PROVE  Ind'
<1>1. TypeOK'
  BY DEF Ind, Steady, TypeOK, TargetTypeOK, network, process, ScreenKept
<1>2. Present' /\ Kept' /\ Asking'
  BY DEF Ind, Steady, Present, Kept, Asking, Seeks, IsPlay, process
<1>3. Addressed' /\ AsSpoken' /\ Again'
  BY DEF Ind, Addressed, AsSpoken, Again, process
<1>4. Named' /\ StillThere' /\ StaleMemoryHarmless'
  BY SteadyFacts DEF Ind, Named, StillThere, StaleMemoryHarmless, process
<1>5. Settled' /\ PlayNoted' /\ Leads' /\ Led' /\ MeansTheLast'
  BY SteadyFacts DEF Ind, Settled, PlayNoted, Leads, Led, MeansTheLast, process
<1> QED BY <1>1, <1>2, <1>3, <1>4, <1>5, SteadyFacts DEF Ind

LEMMA EndsInd == ASSUME Ind, FilmEnds \/ PlayerEnds PROVE Ind'
<1>1. Steady /\ UNCHANGED <<memory, process, last>>
  BY DEF FilmEnds, PlayerEnds, Steady, process
<1>2. ScreenKept
  <2>1. CASE FilmEnds
    <3>1. PICK h \in Hosts :
            /\ screen[h] # None
            /\ \/ screen' = [screen EXCEPT ![h].state = "STOPPED"]
               \/ screen' = [screen EXCEPT ![h] = None]
      BY <2>1 DEF FilmEnds
    <3>2. screen[h] \in Films
      BY <3>1 DEF Ind, TypeOK
    <3> QED BY <2>1, <3>1, <3>2 DEF FilmEnds, ScreenKept, Ind, TypeOK, Films
  <2>2. CASE PlayerEnds
    BY <2>2 DEF PlayerEnds, ScreenKept, Ind, TypeOK
  <2> QED BY <2>1, <2>2
<1> QED BY <1>1, <1>2, ScreenInd

LEMMA NetworkInd == ASSUME Ind, NetworkChanges PROVE Ind'
<1>1. /\ before' = [before EXCEPT !.changed = TRUE] /\ memory' = memory
      /\ last' = None /\ UNCHANGED <<process, player>>
  BY DEF NetworkChanges, Switched, NewLease
<1>2. PICK h \in Hosts : \/ Switched(h) /\ screen' = [screen EXCEPT ![h] = None]
                         \/ \E a \in Addresses : NewLease(h, a) /\ UNCHANGED screen
  BY DEF NetworkChanges
<1>3. TargetTypeOK' /\ Leased' /\ screen' \in [Hosts -> Films \cup {None}]
  <2>1. CASE Switched(h) /\ screen' = [screen EXCEPT ![h] = None]
    BY <2>1 DEF Switched, Ind, TypeOK, TargetTypeOK, Leased
  <2>2. CASE \E a \in Addresses : NewLease(h, a) /\ UNCHANGED screen
    BY <2>2 DEF NewLease, Ind, TypeOK, TargetTypeOK, Leased
  <2> QED BY <1>2, <2>1, <2>2
<1>4. TypeOK'
  <2>1. before' \in [memory : Targets \cup {None}, changed : BOOLEAN]
    BY <1>1 DEF Ind, TypeOK
  <2> QED BY <1>1, <1>3, <2>1 DEF Ind, TypeOK, process
<1>5. Present' /\ Addressed' /\ AsSpoken' /\ Again' /\ Asking'
  BY <1>1 DEF Ind, Present, Addressed, AsSpoken, Again, Asking, Seeks, process
<1>6. Kept' /\ PlayNoted'
  BY <1>1 DEF Ind, TypeOK, Kept, PlayNoted, IsPlay, process
<1>7. before'.changed
  BY <1>1 DEF Ind, TypeOK
<1>8. Named' /\ StillThere' /\ StaleMemoryHarmless' /\ Settled'
  BY <1>7 DEF Named, StillThere, StaleMemoryHarmless, Settled
<1>9. Leads' /\ Led' /\ MeansTheLast'
  BY <1>1 DEF Leads, Led, MeansTheLast
<1> QED BY <1>3, <1>4, <1>5, <1>6, <1>8, <1>9 DEF Ind

(* Every step keeps the invariant. *)
LEMMA StepInd == Ind /\ [Next]_vars => Ind'
<1> SUFFICES ASSUME Ind, [Next]_vars PROVE Ind'
  OBVIOUS
<1>1. ASSUME NEW c \in Asked, Begin(c) PROVE Ind'
  BY <1>1, BeginInd
<1>2. CASE GivesUp \/ PlayerKilled
  BY <1>2, ChannelInd
<1>3. CASE Resolves \/ Connects \/ JoinFails \/ Unreached \/ Searches
  BY <1>3, ResolvesInd, ConnectsInd, JoinFailsInd, UnreachedInd, SearchesInd
<1>4. CASE Acts \/ ActFails \/ Remembers \/ Plays
  BY <1>4, ActsInd, ActFailsInd, RemembersInd, PlaysInd
<1>5. CASE FilmEnds \/ PlayerEnds \/ NetworkChanges
  BY <1>5, EndsInd, NetworkInd
<1>6. CASE UNCHANGED vars
  <2>1. Steady /\ UNCHANGED <<memory, process, last>> /\ ScreenKept
    BY <1>6 DEF vars, Steady, process, playing, Ind, TypeOK, ScreenKept
  <2> QED BY <2>1, ScreenInd
<1> QED BY <1>1, <1>2, <1>3, <1>4, <1>5, <1>6 DEF Next

LEMMA Invariance == Spec => []Ind
BY InitInd, StepInd, PTL DEF Spec

-----------------------------------------------------------------------------

(* Every variable keeps to its type. *)
THEOREM Typing == Spec => []TypeOK
<1>1. Ind => TypeOK
  BY DEF Ind
<1> QED BY <1>1, Invariance, PTL

(* Whatever the hosts, the leases and the commands: a command acts at the  *)
(* address it was given, by the protocol it was given, and on a host of    *)
(* the name it was given unless the network changed (Target.ts:289-291).   *)
THEOREM FlagsAreObeyed == Spec => []ObeysFlags
<1>1. Ind => ObeysFlags
  BY DEF Ind, ObeysFlags, Addressed, AsSpoken, Named, Held, Underway
<1> QED BY <1>1, Invariance, PTL

(* A memory of a Cast device or a renderer that leads to nobody never      *)
(* fails a command that a search would have served (Target.ts:208-210).    *)
THEOREM StaleMemoryIsHarmless == Spec => []StaleMemoryHarmless
<1>1. Ind => StaleMemoryHarmless
  BY DEF Ind
<1> QED BY <1>1, Invariance, PTL

(* What is remembered has worked: a failed command leaves the memory as it *)
(* found it (Control.ts:118-120).                                          *)
THEOREM FailuresAreForgotten == Spec => []FailureKeepsMemory
<1>1. Ind => FailureKeepsMemory
  BY DEF Ind, Kept, FailureKeepsMemory
<1> QED BY <1>1, Invariance, PTL

(* A command that names nothing acts on the device the last one worked on, *)
(* by the same protocol, after any number of commands that failed, as long *)
(* as the network is as it was (Control.ts:72-76).                         *)
THEOREM TheLastIsMeant == Spec => []MeansTheLast
<1>1. Ind => MeansTheLast
  BY DEF Ind
<1> QED BY <1>1, Invariance, PTL
=============================================================================
