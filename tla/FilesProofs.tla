----------------------------- MODULE FilesProofs -----------------------------
(***************************************************************************)
(* Proofs about the files of castcli: the two that its processes share and *)
(* what it serves of a film.                                               *)
(*                                                                         *)
(* ControlChannel, the socket, for any number of players and commands: its *)
(* types, and that a player which is alone is reachable and never refused  *)
(* the socket.                                                             *)
(*                                                                         *)
(* StateStore, the state file, for any fields, values and updaters: its    *)
(* types, that updates never spoil it, however they overlap, and that they *)
(* leave alone one that cannot be read.                                    *)
(*                                                                         *)
(* Media, the film, for any length: that its segments tile it, that what a *)
(* playlist lists is there, that ranges join, and that cues keep their     *)
(* time.                                                                   *)
(***************************************************************************)
EXTENDS Integers, Sequences, StateStore, ControlChannel, TLAPS

USE ControlChannelAssumption, StateStoreAssumption

-----------------------------------------------------------------------------
(* The socket: an invariant of players and commands. *)

Running(p) == player[p] \notin Over

(* As long as no two have met, no two run. *)
Alone == ~met => \A p, q \in Players : Running(p) /\ Running(q) => p = q

(* A player that is about to bind the socket finds no file there. *)
Cleared == ~met => \A p \in Players : player[p] = "unlinked" => path = Nobody

ChannelInd ==
  /\ ChannelTypeOK
  /\ Alone
  /\ Cleared
  /\ Reachable
  /\ NeverRefused

-----------------------------------------------------------------------------

LEMMA ChannelInitInd == ChannelInit => ChannelInd
BY DEF ChannelInit, ChannelInd, ChannelTypeOK, Option, Alone, Running, Over, Cleared, Reachable,
   NeverRefused

(* Players come and go. *)
LEMMA PlayerInd ==
  ASSUME ChannelInd, NEW p \in Players,
         \/ Start(p) \/ Listen(p) \/ ListenRefused(p)
         \/ Shutdown(p) \/ Closed(p) \/ Killed(p)
  PROVE  ChannelInd'
<1> USE DEF ChannelInd, ChannelTypeOK, Option
<1>1. CASE Start(p)
  <2>1. player' = [player EXCEPT ![p] = "unlinked"] /\ player[p] = "off"
        /\ path' = Nobody /\ UNCHANGED <<client, conn, acted>>
        /\ met' = (met \/ \E q \in Players : Running(q))
    BY <1>1 DEF Start, PathUnlinked, Running
  <2>2. ChannelTypeOK'
    BY <2>1
  <2>3. Alone' /\ Cleared' /\ Reachable' /\ NeverRefused'
    BY <2>1 DEF Alone, Cleared, Reachable, NeverRefused, Running, Over
  <2> QED BY <2>2, <2>3
<1>2. CASE Listen(p)
  <2>1. player' = [player EXCEPT ![p] = "listening"] /\ player[p] = "unlinked"
        /\ path' = p /\ UNCHANGED <<client, conn, acted, met>>
    BY <1>2 DEF Listen, PathBound
  <2>2. ChannelTypeOK'
    BY <2>1
  <2>3. Alone' /\ Cleared' /\ Reachable' /\ NeverRefused'
    BY <2>1 DEF Alone, Cleared, Reachable, NeverRefused, Running, Over
  <2> QED BY <2>2, <2>3
<1>3. CASE ListenRefused(p)
  <2>1. player' = [player EXCEPT ![p] = "refused"] /\ player[p] = "unlinked"
        /\ path # Nobody /\ UNCHANGED <<path, client, conn, acted, met>>
    BY <1>3 DEF ListenRefused
  <2>2. met
    BY <2>1 DEF Cleared
  <2>3. ChannelTypeOK'
    BY <2>1
  <2> QED BY <2>1, <2>2, <2>3 DEF Alone, Cleared, Reachable, NeverRefused
<1>4. CASE Shutdown(p)
  <2>1. player' = [player EXCEPT ![p] = "closing"] /\ player[p] = "listening"
        /\ path' = Nobody /\ UNCHANGED <<client, conn, acted, met>>
    BY <1>4 DEF Shutdown
  <2>2. ChannelTypeOK'
    BY <2>1
  <2>3. Alone' /\ Cleared' /\ Reachable' /\ NeverRefused'
    BY <2>1 DEF Alone, Cleared, Reachable, NeverRefused, Running, Over
  <2> QED BY <2>2, <2>3
<1>5. CASE Closed(p)
  <2>1. player' = [player EXCEPT ![p] = "stopped"] /\ player[p] = "closing"
        /\ path' = Nobody /\ UNCHANGED <<client, conn, acted, met>>
        /\ \A c \in Clients : conn[c] # p
    BY <1>5 DEF Closed, Drained
  <2>2. ChannelTypeOK'
    BY <2>1
  <2>3. Alone' /\ Cleared' /\ Reachable' /\ NeverRefused'
    BY <2>1 DEF Alone, Cleared, Reachable, NeverRefused, Running, Over
  <2> QED BY <2>2, <2>3
<1>6. CASE Killed(p)
  <2>1. /\ player' = [player EXCEPT ![p] = "killed"]
        /\ player[p] \in {"listening", "closing"}
        /\ conn' = [c \in Clients |-> IF conn[c] = p THEN Nobody ELSE conn[c]]
        /\ client' = [c \in Clients |-> IF conn[c] = p /\ client[c] = "waiting"
                                        THEN "failed" ELSE client[c]]
        /\ UNCHANGED <<path, acted, met>>
    BY <1>6 DEF Killed
  <2>2. ChannelTypeOK'
    BY <2>1
  <2>3. Alone' /\ Cleared' /\ Reachable' /\ NeverRefused'
    BY <2>1 DEF Alone, Cleared, Reachable, NeverRefused, Running, Over
  <2> QED BY <2>2, <2>3
<1> QED BY <1>1, <1>2, <1>3, <1>4, <1>5, <1>6

(* Commands come and go. *)
LEMMA ClientInd ==
  ASSUME ChannelInd, NEW c \in Clients,
         Connect(c) \/ ConnectFails(c) \/ Interrupted(c) \/ Act(c)
  PROVE  ChannelInd'
<1>1. UNCHANGED <<path, player, met>>
  BY DEF Connect, ConnectFails, Interrupted, Act
<1>2. ChannelTypeOK'
  BY DEF ChannelInd, ChannelTypeOK, Option, Connect, ConnectFails, Interrupted, Act, Peer
<1>3. Alone' /\ Cleared' /\ Reachable' /\ NeverRefused'
  BY <1>1 DEF ChannelInd, Alone, Cleared, Reachable, NeverRefused, Running
<1> QED BY <1>2, <1>3 DEF ChannelInd

LEMMA ChannelStepInd == ChannelInd /\ [ChannelNext]_channelVars => ChannelInd'
<1> SUFFICES ASSUME ChannelInd, [ChannelNext]_channelVars PROVE ChannelInd'
  OBVIOUS
<1>1. CASE UNCHANGED channelVars
  BY <1>1 DEF channelVars, ChannelInd, ChannelTypeOK, Alone, Running, Cleared, Reachable, NeverRefused
<1> QED BY <1>1, PlayerInd, ClientInd DEF ChannelNext

LEMMA ChannelInvariance == ChannelSpec => []ChannelInd
BY ChannelInitInd, ChannelStepInd, PTL DEF ChannelSpec

-----------------------------------------------------------------------------

(* The socket, the players and the commands keep to their types. *)
THEOREM ChannelTyping == ChannelSpec => []ChannelTypeOK
<1>1. ChannelInd => ChannelTypeOK
  BY DEF ChannelInd
<1> QED BY <1>1, ChannelInvariance, PTL

(* However many players have come and gone, killed ones among them: as     *)
(* long as no two ran at once, one that listens is the one commands reach  *)
(* (ControlChannel.ts startServer).                                        *)
THEOREM PlayersAreReachable == ChannelSpec => []Reachable
<1>1. ChannelInd => Reachable
  BY DEF ChannelInd
<1> QED BY <1>1, ChannelInvariance, PTL

(* Nor is one refused the socket, whatever file a killed one has left      *)
(* (ControlChannel.ts startServer's unlink).                               *)
THEOREM NobodyIsRefused == ChannelSpec => []NeverRefused
<1>1. ChannelInd => NeverRefused
  BY DEF ChannelInd
<1> QED BY <1>1, ChannelInvariance, PTL

-----------------------------------------------------------------------------
(* The state file. *)

(* The tags a file may be are not documents (State.ts Snapshot). *)
LEMMA TagsAreNotDocuments ==
  /\ Missing \notin Store!Documents
  /\ Unreadable \notin Store!Documents
  /\ None \notin Store!Documents
<1>1. Store!Documents \subseteq [Fields -> Values \cup {None} \cup (0 .. MaxSeeks)]
  BY DEF Store!Documents
<1> QED BY <1>1

(* Empty memory is a document, and so is what any change makes of one     *)
(* (State.ts EMPTY, and the functions given to update).                    *)
LEMMA EmptyIsDocument == View(Missing) \in Store!Documents
<1> DEFINE empty == [f \in Fields |-> IF f = Seek THEN 0 ELSE None]
<1>1. View(Missing) = empty
  BY DEF View
<1>2. \A f \in Fields : empty[f] \in IF f = Seek THEN 0 .. MaxSeeks
                                              ELSE Values \cup {None}
  BY SMT
<1>3. empty \in [Fields -> Values \cup {None} \cup (0 .. MaxSeeks)]
  BY SMT
<1> HIDE DEF empty
<1> QED BY <1>1, <1>2, <1>3 DEF Store!Documents

LEMMA ChangedIsDocument ==
  ASSUME NEW d \in Store!Documents, NEW c \in Store!Changes,
         c.field = Seek => d[Seek] < MaxSeeks
  PROVE  Store!Changed(d, c) \in Store!Documents
<1> DEFINE e == Store!Changed(d, c)
<1>1. c.field \in Fields /\ (c.field # Seek => c.value \in Values \cup {None})
  BY DEF Store!Changes
<1>2. d \in [Fields -> Values \cup {None} \cup (0 .. MaxSeeks)]
  BY DEF Store!Documents
<1>3. d[Seek] \in 0 .. MaxSeeks
  BY DEF Store!Documents
<1>4. CASE c.field = Seek
  <2>1. e = [d EXCEPT ![Seek] = d[Seek] + 1]
    BY <1>4 DEF Store!Changed
  <2>2. d[Seek] + 1 \in 0 .. MaxSeeks
    BY <1>3, <1>4, SMT
  <2> QED BY <1>2, <2>1, <2>2, SMT DEF Store!Documents
<1>5. CASE c.field # Seek
  <2>1. e = [d EXCEPT ![c.field] = c.value]
    BY <1>5 DEF Store!Changed
  <2> QED BY <1>1, <1>2, <1>5, <2>1, SMT DEF Store!Documents
<1> QED BY <1>4, <1>5

(* What is left of a document when fields of it do not decode is one too   *)
(* (State.ts Remembered).                                                  *)
LEMMA WithoutIsDocument ==
  ASSUME NEW d \in Store!Documents, NEW spoilt \in SUBSET Fields
  PROVE  Store!Without(d, spoilt) \in Store!Documents
<1> DEFINE e == [f \in Fields |-> IF f \in spoilt THEN Store!Empty[f] ELSE d[f]]
           Kind(f) == IF f = Seek THEN 0 .. MaxSeeks ELSE Values \cup {None}
<1>1. d \in [Fields -> Values \cup {None} \cup (0 .. MaxSeeks)]
  BY DEF Store!Documents
<1>2. \A f \in Fields : d[f] \in Kind(f)
  BY DEF Store!Documents
<1>3. \A f \in Fields : Store!Empty[f] \in Kind(f)
  BY SMT DEF Store!Empty
<1>4. \A f \in Fields : e[f] \in Kind(f)
  BY <1>2, <1>3
<1>5. e \in [Fields -> Values \cup {None} \cup (0 .. MaxSeeks)]
  BY <1>4
<1>6. Store!Without(d, spoilt) = e
  BY DEF Store!Without
<1> HIDE DEF e
<1> QED BY <1>4, <1>5, <1>6 DEF Store!Documents

(* A snapshot is a document, whatever the file is (State.ts view). *)
LEMMA SnapshotIsDocument == TypeOK => Snapshot \in Store!Documents
<1>1. CASE disk = Missing \/ disk = Unreadable
  BY <1>1, EmptyIsDocument DEF Snapshot, View
<1>2. CASE disk # Missing /\ disk # Unreadable
  BY <1>2 DEF TypeOK, Snapshot, View
<1> QED BY <1>1, <1>2

(* Every value keeps its type: what is renamed into place is a document. *)
THEOREM Typing == Spec => []TypeOK
<1>1. Init => TypeOK
  BY DEF Init, TypeOK
<1>2. TypeOK /\ [Next]_vars => TypeOK'
  <2> SUFFICES ASSUME TypeOK, [Next]_vars PROVE TypeOK'
    OBVIOUS
  <2>1. ASSUME NEW u \in Updaters, NEW c \in Store!Changes, Update(u, c)
        PROVE  TypeOK'
    <3>1. Snapshot \in Store!Documents
      BY SnapshotIsDocument
    <3>2. ChangedSnapshot(c) \in Store!Documents
      BY <2>1, <3>1, ChangedIsDocument DEF Update, ChangedSnapshot
    <3> QED BY <2>1, <3>2 DEF TypeOK, Update, WhileWriting
  <2>2. ASSUME NEW u \in Updaters, Rename(u) PROVE TypeOK'
    BY <2>2 DEF TypeOK, Rename
  <2>3. ASSUME NEW u \in Updaters, Abandon(u) PROVE TypeOK'
    BY <2>3 DEF TypeOK, Abandon
  <2>4. CASE Damage
    BY <2>4, WithoutIsDocument DEF TypeOK, Damage
  <2>5. CASE UNCHANGED vars
    BY <2>5 DEF TypeOK, vars
  <2> QED BY <2>1, <2>2, <2>3, <2>4, <2>5 DEF Next
<1> QED BY <1>1, <1>2, PTL DEF Spec

(* Only something else can make the file unreadable: no update does, at   *)
(* whatever step it stops (State.ts write).                                *)
THEOREM NeverSpoilsItsFile == Spec => []ReadableUnlessDamaged
<1>1. Init => ReadableUnlessDamaged
  BY DEF Init, ReadableUnlessDamaged
<1>2. TypeOK /\ ReadableUnlessDamaged /\ [Next]_vars => ReadableUnlessDamaged'
  <2> SUFFICES ASSUME TypeOK, ReadableUnlessDamaged, [Next]_vars
               PROVE  ReadableUnlessDamaged'
    OBVIOUS
  <2>1. ASSUME NEW u \in Updaters, NEW c \in Store!Changes, Update(u, c)
        PROVE  ReadableUnlessDamaged'
    BY <2>1 DEF ReadableUnlessDamaged, Update, WhileWriting
  <2>2. ASSUME NEW u \in Updaters, Rename(u) PROVE ReadableUnlessDamaged'
    <3>1. temp[u] \in Store!Documents
      BY <2>2 DEF TypeOK, Rename
    <3> QED BY <2>2, <3>1, TagsAreNotDocuments DEF Rename, ReadableUnlessDamaged
  <2>3. ASSUME NEW u \in Updaters, Abandon(u) PROVE ReadableUnlessDamaged'
    BY <2>3 DEF ReadableUnlessDamaged, Abandon
  <2>4. CASE Damage
    BY <2>4 DEF ReadableUnlessDamaged, Damage
  <2>5. CASE UNCHANGED vars
    BY <2>5 DEF ReadableUnlessDamaged, vars
  <2> QED BY <2>1, <2>2, <2>3, <2>4, <2>5 DEF Next
<1> QED BY <1>1, <1>2, Typing, PTL DEF Spec

(* An unreadable file that nobody was about to replace is never replaced:  *)
(* every update that meets it refuses (State.ts update).                   *)
THEOREM LeftAlone == Spec => UnreadableKept
<1> DEFINE Kept == disk = Unreadable /\ Idle
<1>1. Kept /\ [Next]_vars => Kept'
  <2> SUFFICES ASSUME Kept, [Next]_vars PROVE Kept'
    OBVIOUS
  <2>1. ASSUME NEW u \in Updaters, NEW c \in Store!Changes PROVE ~Update(u, c)
    BY DEF Update, Refuses
  <2>2. ASSUME NEW u \in Updaters PROVE ~Rename(u) /\ ~Abandon(u)
    BY DEF Rename, Abandon, Idle
  <2>3. CASE Damage
    BY <2>3 DEF Damage, Idle
  <2>4. CASE UNCHANGED vars
    BY <2>4 DEF vars, Idle
  <2> QED BY <2>1, <2>2, <2>3, <2>4 DEF Next
<1>2. Kept => disk = Unreadable
  OBVIOUS
<1> QED BY <1>1, <1>2, PTL DEF Spec, UnreadableKept

-----------------------------------------------------------------------------
(* Films and subtitles, served in pieces (Media). *)

Served == INSTANCE Media

(* Hours, minutes and seconds make up the seconds they were taken from.    *)
LEMMA Clock ==
  ASSUME NEW s \in Nat
  PROVE  (s \div 3600) * 3600 + ((s \div 60) % 60) * 60 + (s % 60) = s
<1>1. (s \div 60) \div 60 = s \div 3600
  OBVIOUS
<1>2. s = 60 * (s \div 60) + (s % 60)
  OBVIOUS
<1>3. (s \div 60) = 60 * ((s \div 60) \div 60) + ((s \div 60) % 60)
  OBVIOUS
<1> QED BY <1>1, <1>2, <1>3

(* The segments of a film reach to its end, and the last one begins before *)
(* that, but for the only segment of a film without length.                *)
LEMMA Counted ==
  ASSUME NEW duration \in Nat
  PROVE  LET count == Served!segmentCount(duration)
         IN  /\ count \in Nat \ {0}
             /\ duration <= 6 * count
             /\ duration > 0 => 6 * (count - 1) < duration
             /\ duration = 0 => count = 1
BY DEF Served!segmentCount, Served!Most, Served!SEGMENT_DURATION

(* Where a segment of a playlist starts, where it is over, and the seconds *)
(* in it.                                                                  *)
From(list, s)   == Served!segmentStart(list.segments[s].segment)
After(list, s)  == From(list, s) + list.segments[s].length
During(list, s) == From(list, s)..(After(list, s) - 1)

(***************************************************************************)
(* Hls/Playlist.ts, media: in a film of any length every segment is within *)
(* the target, each starts where the one before it ends, the first at the  *)
(* start and the last ending at the end of the film, and so every second   *)
(* of it is in exactly one of them.                                        *)
(***************************************************************************)
THEOREM SegmentsTileTheFilm ==
  ASSUME NEW duration \in Nat, NEW variant, NEW list, list = Served!media(duration, variant)
  PROVE  /\ \A s \in DOMAIN list.segments : list.segments[s].length \in 0..list.target
         /\ \A s, t \in DOMAIN list.segments : t = s + 1 => After(list, s) = From(list, t)
         /\ From(list, 1) = 0 /\ After(list, Len(list.segments)) = duration
         /\ \A second \in 0..(duration - 1) :
              \E s \in DOMAIN list.segments :
                /\ second \in During(list, s)
                /\ \A t \in DOMAIN list.segments : second \in During(list, t) => t = s
<1> DEFINE count == Served!segmentCount(duration)
<1>1. /\ count \in Nat \ {0}
      /\ duration <= 6 * count
      /\ duration > 0 => 6 * (count - 1) < duration
      /\ duration = 0 => count = 1
  BY Counted
<1>2. list.target = 6
  BY DEF Served!media, Served!SEGMENT_DURATION
<1>3. list.segments = [i \in 1..count |-> [length |-> Served!segmentLength(i - 1, duration),
                                     variant |-> variant, segment |-> i - 1]]
  BY DEF Served!media
<1> HIDE DEF count
<1>4. DOMAIN list.segments = 1..count /\ Len(list.segments) = count
  BY <1>1, <1>3
<1>5. \A s \in 1..count :
        /\ From(list, s) = 6 * (s - 1)
        /\ list.segments[s].length = IF s < count THEN 6 ELSE duration - (6 * (count - 1))
  <2> TAKE s \in 1..count
  <2>1. list.segments[s].segment = s - 1 /\ list.segments[s].length = Served!segmentLength(s - 1, duration)
    BY <1>3
  <2>2. From(list, s) = 6 * (s - 1)
    BY <2>1 DEF From, Served!segmentStart, Served!SEGMENT_DURATION
  <2>3. Served!segmentLength(s - 1, duration) = IF s < count THEN 6 ELSE duration - (6 * (count - 1))
    BY <1>1 DEF Served!segmentLength, Served!SEGMENT_DURATION, Served!Least, Served!Most
  <2> QED BY <2>1, <2>2, <2>3
<1>6. \A s \in 1..count : list.segments[s].length \in 0..6
  BY <1>1, <1>5
<1>7. \A s \in 1..count : After(list, s) = IF s < count THEN 6 * s ELSE duration
  BY <1>1, <1>5 DEF After
<1>8. ASSUME NEW second \in 0..(duration - 1)
      PROVE  \E s \in 1..count :
               /\ second \in During(list, s)
               /\ \A t \in 1..count : second \in During(list, t) => t = s
  <2>1. (second \div 6) + 1 \in 1..count
    BY <1>1
  <2>2. second \in During(list, (second \div 6) + 1)
    BY <1>1, <1>5, <1>7, <2>1 DEF During
  <2>3. ASSUME NEW t \in 1..count, second \in During(list, t)
        PROVE  t = (second \div 6) + 1
    BY <1>1, <1>5, <1>7, <2>3 DEF During
  <2> QED BY <2>1, <2>2, <2>3
<1>9. \A s, t \in 1..count : t = s + 1 => After(list, s) = From(list, t)
  BY <1>1, <1>5, <1>7
<1>10. From(list, 1) = 0 /\ After(list, count) = duration
  BY <1>1, <1>5, <1>7
<1> QED
  <2>1. \A s \in DOMAIN list.segments : list.segments[s].length \in 0..list.target
    BY <1>2, <1>4, <1>6
  <2>2. \A s, t \in DOMAIN list.segments : t = s + 1 => After(list, s) = From(list, t)
    BY <1>4, <1>9
  <2>3. From(list, 1) = 0 /\ After(list, Len(list.segments)) = duration
    BY <1>4, <1>10
  <2>4. \A second \in 0..(duration - 1) :
          \E s \in DOMAIN list.segments :
            /\ second \in During(list, s)
            /\ \A t \in DOMAIN list.segments : second \in During(list, t) => t = s
    BY <1>4, <1>8
  <2> QED BY <2>1, <2>2, <2>3, <2>4

(***************************************************************************)
(* Routes.ts, variant and segment: whatever ladder is offered and whatever *)
(* numbers a receiver asks by, a segment is found exactly when the variant *)
(* is offered and its playlist lists the segment.  A playlist is found for *)
(* every variant that is offered, and where none is for the first as well. *)
(***************************************************************************)
THEOREM ServedWhatIsListed ==
  ASSUME NEW Rung, NEW ladder \in Seq(Rung), NEW duration \in Nat, NEW v \in Int, NEW s \in Int,
         NEW list,    list = Served!variant(ladder, duration, Served!Whole(v)),
         NEW segment, segment = Served!segment(ladder, duration, Served!Whole(v), Served!Whole(s))
  PROVE  /\ list.status = 200 <=> v + 1 \in DOMAIN ladder \/ (ladder = <<>> /\ v = 0)
         /\ segment.status = 200 <=>
              /\ v + 1 \in DOMAIN ladder
              /\ list.status = 200
              /\ s + 1 \in DOMAIN list.playlist.segments
<1> DEFINE count == Served!segmentCount(duration)
           rungs == Len(ladder)
<1>1. /\ count \in Nat \ {0}
      /\ rungs \in Nat
      /\ DOMAIN ladder = 1..rungs
      /\ rungs = 0 <=> ladder = <<>>
  BY Counted
<1>2. DOMAIN Served!media(duration, v).segments = 1..count
  BY DEF Served!media
<1> HIDE DEF count, rungs
<1>3. ASSUME NEW n \in Nat, NEW i \in Int
      PROVE  /\ Served!indexIn(n, Served!Whole(i)) <=> i \in 0..(n - 1) \/ (n = 0 /\ i = 0)
             /\ Served!Whole(i).halves \div 2 = i
  <2>1. Served!Whole(i) = [number |-> TRUE, halves |-> 2 * i]
    BY DEF Served!Whole, Served!Number
  <2>2. (2 * i) % 2 = 0 /\ (2 * i) \div 2 = i
    OBVIOUS
  <2>3. Served!indexIn(n, Served!Whole(i)) <=> i \in 0..Served!Most(0, n - 1)
    BY <2>1, <2>2 DEF Served!indexIn
  <2>4. i \in 0..Served!Most(0, n - 1) <=> i \in 0..(n - 1) \/ (n = 0 /\ i = 0)
    BY DEF Served!Most
  <2> QED BY <2>1, <2>2, <2>3, <2>4
<1> DEFINE found == v \in 0..(rungs - 1) \/ (rungs = 0 /\ v = 0)
<1>4. list = IF found THEN [status |-> 200, playlist |-> Served!media(duration, v)] ELSE [status |-> 404]
  BY <1>1, <1>3 DEF Served!variant, Served!Isnt, rungs
<1>5. segment.status = 200 <=> v \in 0..(rungs - 1) /\ s \in 0..(count - 1)
  <2> DEFINE lost == \/ ~Served!indexIn(rungs, Served!Whole(v))
                     \/ ~Served!indexIn(count, Served!Whole(s))
                     \/ v + 1 \notin DOMAIN ladder
  <2>1. ~lost <=> v \in 0..(rungs - 1) /\ s \in 0..(count - 1)
    BY <1>1, <1>3
  <2>2. segment.status = IF lost THEN 404 ELSE 200
    BY <1>3 DEF Served!segment, Served!Isnt, count, rungs
  <2> QED BY <2>1, <2>2
<1>6. v + 1 \in DOMAIN ladder <=> v \in 0..(rungs - 1)
  BY <1>1
<1>7. CASE found
  <2>1. list.status = 200 /\ DOMAIN list.playlist.segments = 1..count
    BY <1>2, <1>4, <1>7
  <2>2. s + 1 \in 1..count <=> s \in 0..(count - 1)
    BY <1>1
  <2> QED BY <1>1, <1>5, <1>6, <1>7, <2>1, <2>2
<1>8. CASE ~found
  <2>1. list.status = 404
    BY <1>4, <1>8
  <2> QED BY <1>1, <1>5, <1>6, <1>8, <2>1
<1> QED BY <1>7, <1>8

(***************************************************************************)
(* Routes.ts, /vod.mp4: a range of octets is answered exactly when it lies *)
(* in the file, from where it starts to where it ends, or to the end of    *)
(* the file where its end is left out, so that consecutive ranges join;    *)
(* and any other is refused as a whole.                                    *)
(***************************************************************************)
THEOREM RangesLieInTheFile ==
  ASSUME NEW size \in Nat, NEW start \in Nat, NEW end \in Nat \cup {-1},
         NEW answer, answer = Served!vod(Served!Bytes(start, end), size)
  PROVE  /\ answer.status = 206 <=> start < size /\ end < size
         /\ answer.status = 206 =>
              /\ answer.start = start
              /\ start + answer.length = IF end = -1 THEN size ELSE end + 1
         /\ answer.status # 206 => answer = Served!Isnt(416)
BY DEF Served!vod, Served!Bytes, Served!Isnt

(***************************************************************************)
(* Vtt/Codec.ts: of moments counted in halves of a millisecond, a whole    *)
(* one is read as it was written and a half as the next whole one, however *)
(* long the film, but for the last half of a second: that one rounds up to *)
(* 1000, which is read as a tenth of a second.                             *)
(***************************************************************************)
THEOREM CuesKeepTheirTime ==
  ASSUME NEW time \in Nat,
         NEW seen, seen = Served!parseTimestamp(Served!formatTimestamp(time)),
         NEW part, part = time % Served!Second
  PROVE  IF part = Served!Second - 1 THEN seen = time - part + (Served!Second \div 10)
                                     ELSE seen - time \in 0..1
<1> DEFINE s == time \div 2000
           fields == Served!formatTimestamp(time)
<1>1. Served!Second = 2000
  BY DEF Served!Second, Served!Resolution
<1>2. time = 2000 * s + part /\ s \in Nat /\ part \in 0..1999
  BY <1>1
<1>3. /\ fields.hours = s \div 3600
      /\ fields.minutes = (s \div 60) % 60
      /\ fields.seconds = s % 60
      /\ fields.thousandths = ((2 * part) + 2) \div 4
  BY <1>1 DEF Served!formatTimestamp, Served!Most, Served!Resolution
<1>4. (s \div 3600) * 3600 + ((s \div 60) % 60) * 60 + (s % 60) = s
  BY <1>2, Clock
<1>5. Served!parseTimestamp(fields) =
        s * 2000 + 2 * (IF fields.thousandths = 1000 THEN 100 ELSE fields.thousandths)
  BY <1>1, <1>3, <1>4 DEF Served!parseTimestamp, Served!Resolution
<1> HIDE DEF s, fields
<1> QED BY <1>1, <1>2, <1>3, <1>5, SMTT(60) DEF s, fields
=============================================================================
