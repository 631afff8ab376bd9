---------------------------- MODULE PlayerProofs ----------------------------
(***************************************************************************)
(* Proofs about `cast play` on a Cast device.                              *)
(*                                                                         *)
(* Player, for any film, ladder, number of sessions, seeks and switches:   *)
(* its types, that a new session resumes at the last known position, and   *)
(* that while the first lasts the active stream on record is the one the   *)
(* receiver was given last.                                                *)
(*                                                                         *)
(* Quality, which tells it when to switch, for any ladder, measurements    *)
(* and windows in the order they have in Signals.ts: its types, that only  *)
(* a stall refutes a probe, and that quality is raised at most once in     *)
(* PROBE_AFTER when a switch restarts the stream before the next tick.     *)
(***************************************************************************)
EXTENDS Player, Quality, SequenceTheorems, TLAPS

USE PlayerAssumption

(* What the next session would load is where the viewer is, unless a seek  *)
(* is still in the queue. *)
Resumable ==
  main \in {"backoff", "connecting"} /\ reloads = <<>> => offset = position

(* Whose job it is to load: the attempt's while it loads, then that of the *)
(* fibers forked so far. *)
Fork ==
  /\ job[Main] # None <=> main = "loading"
  /\ \A k \in Fibers : k > session => job[k] = None
  /\ session = 1 /\ main = "loading" => job[1] = None

(* The first session is up only while it loads or is watched. *)
Up ==
  /\ session = 0 => ~live /\ main \notin {"loading", "watching"}
  /\ session = 1 /\ live => main \in {"loading", "watching"}

(* Where a stream loaded from `at` begins. *)
Begins(at) == IF UseHls THEN 0 ELSE at

(* The receiver plays the stream that begins at o once it has read what it *)
(* was written. *)
Pending(o) ==
  \/ \E i \in DOMAIN wire :
       /\ wire[i].type = "LOAD" /\ Begins(wire[i].at) = o
       /\ \A j \in DOMAIN wire : j > i => wire[j].type # "LOAD"
  \/ (\A i \in DOMAIN wire : wire[i].type # "LOAD") /\ base = o

Recording(k) == job[k] # None /\ job[k].step = "record"

Noted ==
  session = 1 /\ live =>
    /\ \A k \in Fibers : Recording(k) => Pending(Begins(job[k].at))
    /\ main = "watching" /\ (\A k \in Fibers : ~Recording(k)) => Pending(active)

Ind == TypeOK /\ Resumable /\ Fork /\ Up /\ Noted

-----------------------------------------------------------------------------

LEMMA FiberRange ==
  ASSUME TypeOK
  PROVE  /\ Main \in Fibers /\ session \in Nat /\ session \in Fibers
         /\ (session = 1 => 1 \in Fibers)
         /\ \A k \in Fibers : k \in Nat /\ job[k] \in Jobs \cup {None}
         /\ Main = 0
BY DEF TypeOK, Fibers, Main

LEMMA InitInd == Init => Ind
<1> SUFFICES ASSUME Init PROVE Ind
  OBVIOUS
<1>1. <<>> \in Seq(Rungs) /\ <<>> \in Seq(Loads) /\ <<>> \in Seq(Nat)
  BY EmptySeq
<1>2. TypeOK
  BY <1>1 DEF Init, TypeOK, Fibers
<1>3. Resumable /\ Fork /\ Up /\ Noted
  BY <1>2, FiberRange DEF Init, Resumable, Fork, Up, Noted
<1> QED BY <1>2, <1>3 DEF Ind

(* A step that has nothing to do with loading. *)
LEMMA Aside ==
  ASSUME Ind, TypeOK', Resumable',
         UNCHANGED <<main, session, job, live, wire, base, active>>
  PROVE  Ind'
BY DEF Ind, Fork, Up, Noted, Recording, Pending

(* The wire: what was sent last, and what is read first. *)
LEMMA Sent ==
  ASSUME TypeOK, NEW m \in Loads, wire' = Append(wire, m), UNCHANGED base
  PROVE  /\ wire' \in Seq(Loads)
         /\ m.type = "LOAD" => Pending(Begins(m.at))'
         /\ m.type # "LOAD" => \A o : Pending(o) => Pending(o)'
<1>1. wire \in Seq(Loads)
  BY DEF TypeOK
<1>2. /\ wire' \in Seq(Loads) /\ Len(wire) \in Nat
      /\ DOMAIN wire' = 1 .. Len(wire) + 1 /\ DOMAIN wire = 1 .. Len(wire)
      /\ \A i \in 1 .. Len(wire) : wire'[i] = wire[i]
      /\ wire'[Len(wire) + 1] = m
  BY <1>1, AppendProperties, LenProperties
<1>3. ASSUME m.type = "LOAD" PROVE Pending(Begins(m.at))'
  BY <1>2, <1>3 DEF Pending, Begins
<1>4. ASSUME m.type # "LOAD", NEW o, Pending(o) PROVE Pending(o)'
  <2>1. CASE \E i \in DOMAIN wire :
               /\ wire[i].type = "LOAD" /\ Begins(wire[i].at) = o
               /\ \A j \in DOMAIN wire : j > i => wire[j].type # "LOAD"
    <3>1. PICK i \in DOMAIN wire :
               /\ wire[i].type = "LOAD" /\ Begins(wire[i].at) = o
               /\ \A j \in DOMAIN wire : j > i => wire[j].type # "LOAD"
      BY <2>1
    <3>2. /\ i \in DOMAIN wire' /\ wire'[i].type = "LOAD"
          /\ Begins(wire'[i].at) = o
          /\ \A j \in DOMAIN wire' : j > i => wire'[j].type # "LOAD"
      BY <1>2, <1>4, <3>1
    <3> QED BY <3>2 DEF Pending, Begins
  <2>2. CASE (\A i \in DOMAIN wire : wire[i].type # "LOAD") /\ base = o
    BY <1>2, <1>4, <2>2 DEF Pending
  <2> QED BY <1>4, <2>1, <2>2 DEF Pending
<1> QED BY <1>2, <1>3, <1>4

LEMMA Received ==
  ASSUME TypeOK, wire # <<>>, wire' = Tail(wire),
         base' = IF Head(wire).type = "LOAD" THEN Begins(Head(wire).at) ELSE base
  PROVE  /\ wire' \in Seq(Loads) /\ Head(wire) \in Loads
         /\ \A o : Pending(o) => Pending(o)'
<1>1. wire \in Seq(Loads)
  BY DEF TypeOK
<1>2. /\ wire' \in Seq(Loads) /\ Len(wire) \in Nat \ {0}
      /\ DOMAIN wire' = 1 .. Len(wire) - 1 /\ DOMAIN wire = 1 .. Len(wire)
      /\ \A i \in 1 .. Len(wire) - 1 : wire'[i] = wire[i + 1]
      /\ Head(wire) = wire[1] /\ wire[1] \in Loads
  BY <1>1, HeadTailProperties, LenProperties, ElementOfSeq
<1>3. ASSUME NEW o, Pending(o) PROVE Pending(o)'
  <2>1. CASE \E i \in DOMAIN wire :
               /\ wire[i].type = "LOAD" /\ Begins(wire[i].at) = o
               /\ \A j \in DOMAIN wire : j > i => wire[j].type # "LOAD"
    <3>1. PICK i \in DOMAIN wire :
               /\ wire[i].type = "LOAD" /\ Begins(wire[i].at) = o
               /\ \A j \in DOMAIN wire : j > i => wire[j].type # "LOAD"
      BY <2>1
    <3>2. CASE i = 1
      <4>1. base' = o
        BY <1>2, <3>1, <3>2
      <4>2. \A j \in DOMAIN wire' : wire'[j].type # "LOAD"
        BY <1>2, <3>1, <3>2
      <4> QED BY <4>1, <4>2 DEF Pending
    <3>3. CASE i # 1
      <4>1. /\ i - 1 \in DOMAIN wire' /\ wire'[i - 1].type = "LOAD"
            /\ Begins(wire'[i - 1].at) = o
            /\ \A j \in DOMAIN wire' : j > i - 1 => wire'[j].type # "LOAD"
        BY <1>2, <3>1, <3>3
      <4> QED BY <4>1 DEF Pending, Begins
    <3> QED BY <3>2, <3>3
  <2>2. CASE (\A i \in DOMAIN wire : wire[i].type # "LOAD") /\ base = o
    <3>1. base' = o
      BY <1>2, <2>2
    <3>2. \A i \in DOMAIN wire' : wire'[i].type # "LOAD"
      BY <1>2, <2>2
    <3> QED BY <3>1, <3>2 DEF Pending
  <2> QED BY <1>3, <2>1, <2>2 DEF Pending
<1> QED BY <1>2, <1>3

-----------------------------------------------------------------------------

LEMMA ConnectInd ==
  ASSUME Ind, Connect
  PROVE  Ind'
<1>1. TypeOK /\ session' = session + 1 /\ session' \in 0 .. MaxSessions
      /\ session \in Nat /\ main' = "loading"
      /\ job' = [job EXCEPT ![Main] = [step |-> "load", at |-> offset]]
      /\ wire' = <<>> /\ reports' = <<>>
  BY DEF Ind, Connect, TypeOK
<1>2. [step |-> "load", at |-> offset] \in Jobs
  BY <1>1 DEF Jobs, TypeOK
<1>3. TypeOK'
  <2>1. <<>> \in Seq(Loads) /\ <<>> \in Seq(Nat)
    BY EmptySeq
  <2>2. job' \in [Fibers -> Jobs \cup {None}]
    BY <1>1, <1>2 DEF TypeOK
  <2> QED BY <1>1, <2>1, <2>2 DEF Connect, TypeOK, state, disk, quality, device, ghost
<1>4. Resumable' /\ Up'
  BY <1>1 DEF Resumable, Up
<1>5. Fork'
  <2>1. job'[Main] # None
    BY <1>1, <1>2, FiberRange DEF TypeOK
  <2>2. \A k \in Fibers : k > session => k # Main /\ job[k] = None
    BY <1>1, FiberRange DEF Ind, Fork
  <2>3. \A k \in Fibers : k > session => job'[k] = None
    BY <1>1, <2>2 DEF TypeOK
  <2>4. \A k \in Fibers : k > session' => k > session
    BY <1>1, FiberRange
  <2>5. session' = 1 => job'[1] = None
    BY <1>1, <2>3 DEF Fibers
  <2> QED BY <1>1, <2>1, <2>3, <2>4, <2>5 DEF Fork
<1>6. Noted'
  BY <1>1, FiberRange DEF Ind, Fork, Noted, Recording, TypeOK
<1> QED BY <1>3, <1>4, <1>5, <1>6 DEF Ind

(* The attempt is lost, waits, and is made again or given up. *)
LEMMA AttemptInd ==
  ASSUME Ind, Lost \/ Unreachable \/ Retry \/ GiveUp
  PROVE  Ind'
<1>1. /\ TypeOK
      /\ main \in {"watching", "connecting", "backoff"}
      /\ main' \in {"connecting", "backoff", "done"}
      /\ session = 1 => ~live
  BY DEF Ind, Up, TypeOK, Lost, Unreachable, Retry, GiveUp
<1>2. UNCHANGED <<session, rung, position, reloads, job, live, wire, base>>
  BY DEF Lost, Unreachable, Retry, GiveUp, state, network, device
<1>3. TypeOK'
  <2>1. <<>> \in Seq(Nat)
    BY EmptySeq
  <2>2. CASE Lost
    BY <1>1, <2>1, <2>2 DEF Lost, TypeOK, LastKnown, disk, quality, device, ghost
  <2>3. CASE Unreachable
    BY <1>1, <2>3 DEF Unreachable, TypeOK, LastKnown, disk, quality, network, device, ghost
  <2>4. CASE Retry
    BY <1>1, <2>4 DEF Retry, TypeOK, state, disk, quality, network, device, ghost
  <2>5. CASE GiveUp
    BY <1>1, <2>5 DEF GiveUp, TypeOK, state, quality, network, device, ghost
  <2> QED BY <2>2, <2>3, <2>4, <2>5
<1>4. Resumable'
  BY DEF Ind, Resumable, Lost, Unreachable, Retry, GiveUp, LastKnown, state
<1>5. Fork' /\ Up' /\ Noted'
  BY <1>1, <1>2 DEF Ind, Fork, Up, Noted
<1> QED BY <1>3, <1>4, <1>5 DEF Ind

(* sendLoad *)
LEMMA ClearTracksInd ==
  ASSUME Ind, NEW k \in Fibers, ClearTracks(k)
  PROVE  Ind'
<1>1. /\ TypeOK /\ job[k] \in Jobs /\ job[k].step = "edit" /\ job[k] # None
      /\ job' = [job EXCEPT ![k].step = "load"]
      /\ UNCHANGED <<attempt, state, reloads, disk, quality, seeks, live, reports,
                     device, ghost>>
  BY DEF Ind, TypeOK, ClearTracks
<1>2. /\ job'[k] \in Jobs /\ job'[k].step = "load"
      /\ \A l \in Fibers \ {k} : job'[l] = job[l]
      /\ job' \in [Fibers -> Jobs \cup {None}]
  BY <1>1 DEF TypeOK, Jobs
<1>3. wire' \in Seq(Loads) /\ \A o : Pending(o) => Pending(o)'
  <2>1. CASE wire' = wire
    BY <1>1, <2>1 DEF TypeOK, Pending, device
  <2>2. CASE wire' = Append(wire, [type |-> "EDIT_TRACKS_INFO"])
    <3>1. [type |-> "EDIT_TRACKS_INFO"] \in Loads
      BY DEF Loads
    <3> QED BY <1>1, <2>2, <3>1, Sent DEF device
  <2> QED BY <2>1, <2>2 DEF ClearTracks, SendTo
<1>4. TypeOK'
  BY <1>1, <1>2, <1>3 DEF TypeOK, attempt, state, disk, quality, device, ghost
<1>5. Resumable' /\ Up'
  BY <1>1 DEF Ind, Resumable, Up, attempt, state
<1>6. Fork'
  BY <1>1, <1>2, FiberRange DEF Ind, Fork, attempt
<1>7. Noted'
  <2>1. \A l \in Fibers : Recording(l)' <=> Recording(l)
    BY <1>1, <1>2 DEF Recording
  <2>2. \A l \in Fibers : Recording(l) => job'[l] = job[l]
    BY <1>1, <1>2 DEF Recording
  <2> QED BY <1>1, <1>3, <2>1, <2>2 DEF Ind, Noted, Begins, attempt, disk
<1> QED BY <1>4, <1>5, <1>6, <1>7 DEF Ind

(* While the first session is up, one fiber at most is loading. *)
LEMMA OneLoads ==
  ASSUME Ind, session = 1, NEW k \in Fibers, NEW l \in Fibers,
         job[k] # None, job[l] # None
  PROVE  k = l /\ k \in {Main, session}
BY FiberRange DEF Ind, Fork

LEMMA LoadStreamInd ==
  ASSUME Ind, NEW k \in Fibers, LoadStream(k)
  PROVE  Ind'
<1> DEFINE m == [type |-> "LOAD", at |-> job[k].at]
<1>1. /\ TypeOK /\ job[k] \in Jobs /\ job[k].step = "load" /\ job[k] # None
      /\ job' = [job EXCEPT ![k].step = "record"]
      /\ wire' = SendTo(k, m)
      /\ UNCHANGED <<attempt, state, reloads, disk, quality, seeks, live, reports,
                     device, ghost>>
  BY DEF Ind, TypeOK, LoadStream
<1>2. /\ job'[k] \in Jobs /\ job'[k].step = "record" /\ job'[k].at = job[k].at
      /\ \A l \in Fibers \ {k} : job'[l] = job[l]
      /\ job' \in [Fibers -> Jobs \cup {None}]
  BY <1>1 DEF TypeOK, Jobs
<1>3. m \in Loads /\ m.type = "LOAD" /\ m.at = job[k].at
  BY <1>1 DEF Loads, Jobs
<1> HIDE DEF m
<1>4. wire' \in Seq(Loads)
  BY <1>1, <1>3, Sent DEF SendTo, TypeOK, device
<1>5. TypeOK'
  BY <1>1, <1>2, <1>4 DEF TypeOK, attempt, state, disk, quality, device, ghost
<1>6. Resumable' /\ Up'
  BY <1>1 DEF Ind, Resumable, Up, attempt, state
<1>7. Fork'
  BY <1>1, <1>2, FiberRange DEF Ind, Fork, attempt
<1>8. Noted'
  <2> SUFFICES ASSUME session = 1, live
               PROVE  /\ \A l \in Fibers : Recording(l)' => Pending(Begins(job[l].at))'
                      /\ ~ \A l \in Fibers : ~Recording(l)'
    BY <1>1, <1>2 DEF Noted, Begins, attempt
  <2>1. Carries(k)
    BY <1>1, OneLoads DEF Carries
  <2>2. Pending(Begins(job[k].at))'
    BY <1>1, <1>3, <2>1, Sent DEF SendTo, device, Begins
  <2>3. \A l \in Fibers : Recording(l)' => l = k
    BY <1>1, <1>2, OneLoads DEF Recording
  <2>4. Recording(k)'
    BY <1>2, <1>1 DEF Recording
  <2> QED BY <2>2, <2>3, <2>4
<1> QED BY <1>5, <1>6, <1>7, <1>8 DEF Ind

LEMMA RecordActiveInd ==
  ASSUME Ind, NEW k \in Fibers, RecordActive(k)
  PROVE  Ind'
<1>1. /\ TypeOK /\ job[k] \in Jobs /\ Recording(k)
      /\ job' = [job EXCEPT ![k] = None]
      /\ active' = Begins(job[k].at) /\ Begins(job[k].at) \in Nat
      /\ main' = IF k = Main THEN "watching" ELSE main
      /\ UNCHANGED <<error, found, everConnected, session, state, reloads, saved,
                     quality, seeks, network, device, ghost>>
  BY DEF Ind, TypeOK, RecordActive, Recording, StreamOffset, Begins, Jobs
<1>2. /\ job'[k] = None
      /\ \A l \in Fibers \ {k} : job'[l] = job[l]
      /\ job' \in [Fibers -> Jobs \cup {None}]
  BY <1>1 DEF TypeOK
<1>3. TypeOK'
  BY <1>1, <1>2 DEF TypeOK, state, quality, network, device, ghost
<1>4. k = Main => main = "loading"
  BY <1>1 DEF Ind, Fork, Recording
<1>5. Resumable' /\ Up'
  BY <1>1, <1>4 DEF Ind, Resumable, Up, state, network
<1>6. Fork'
  BY <1>1, <1>2, <1>4, FiberRange DEF Ind, Fork
<1>7. Noted'
  <2> SUFFICES ASSUME session = 1, live
               PROVE  /\ \A l \in Fibers : ~Recording(l)'
                      /\ Pending(active)'
    BY <1>1 DEF Noted, network
  <2>1. \A l \in Fibers : ~Recording(l)'
    BY <1>1, <1>2, OneLoads DEF Recording
  <2>2. Pending(Begins(job[k].at))
    BY <1>1 DEF Ind, Noted
  <2>3. Pending(active)'
    BY <1>1, <2>2 DEF Pending, network, device, Begins
  <2> QED BY <2>1, <2>3
<1> QED BY <1>3, <1>5, <1>6, <1>7 DEF Ind

LEMMA ReloadInd ==
  ASSUME Ind, NEW k \in Fibers, Reload(k)
  PROVE  Ind'
<1>1. /\ TypeOK /\ Forked(k) /\ job[k] = None /\ reloads # <<>>
      /\ job' = [job EXCEPT ![k] = [step |-> "edit", at |-> position]]
      /\ reloads' = Tail(reloads) /\ rung' = Head(reloads) /\ offset' = position
      /\ UNCHANGED <<attempt, position, disk, quality, seeks, network, device, ghost>>
  BY DEF Ind, Reload
<1>2. [step |-> "edit", at |-> position] \in Jobs
  BY <1>1 DEF TypeOK, Jobs
<1>3. /\ job'[k] = [step |-> "edit", at |-> position] /\ job'[k] # None
      /\ \A l \in Fibers \ {k} : job'[l] = job[l]
      /\ job' \in [Fibers -> Jobs \cup {None}]
  BY <1>1, <1>2 DEF TypeOK
<1>4. reloads' \in Seq(Rungs) /\ rung' \in Rungs
  <2>1. reloads \in Seq(Rungs)
    BY <1>1 DEF TypeOK
  <2> QED BY <1>1, <2>1, HeadTailProperties
<1>5. TypeOK'
  BY <1>1, <1>3, <1>4 DEF TypeOK, attempt, disk, quality, network, device, ghost
<1>6. Resumable' /\ Up'
  BY <1>1 DEF Ind, Resumable, Up, attempt, network
<1>7. k \in 1 .. session /\ (k = session => main # "loading")
  BY <1>1 DEF Forked
<1>8. Fork'
  BY <1>1, <1>3, <1>7, FiberRange DEF Ind, Fork, attempt
<1>9. Noted'
  <2>1. \A l \in Fibers : Recording(l)' <=> Recording(l)
    BY <1>1, <1>3 DEF Recording
  <2>2. \A l \in Fibers : Recording(l) => job'[l] = job[l]
    BY <1>1, <1>3 DEF Recording
  <2> QED BY <1>1, <2>1, <2>2 DEF Ind, Noted, Begins, Pending, attempt, disk, network, device
<1> QED BY <1>5, <1>6, <1>8, <1>9 DEF Ind

(* What is queued stays queued, and a rung more. *)
LEMMA Queued ==
  ASSUME NEW queue \in Seq(Rungs), NEW r \in Rungs
  PROVE  Append(queue, r) \in Seq(Rungs) /\ Append(queue, r) # <<>>
BY AppendProperties

(* Commands, statuses and the bookmark. *)
LEMMA AsideInd ==
  ASSUME Ind,
         \/ \E to \in 0 .. Length : Seek(to)
         \/ \E r \in Rungs : Switch(r)
         \/ Bookmark \/ FollowStatus \/ Play \/ ReportTime
  PROVE  Ind'
<1>1. TypeOK
  BY DEF Ind
<1>2. CASE \E to \in 0 .. Length : Seek(to)
  <2>1. PICK to \in 0 .. Length : Seek(to)
    BY <1>2
  <2>2. reloads' \in Seq(Rungs) /\ reloads' # <<>>
    <3>1. reloads \in Seq(Rungs) /\ rung \in Rungs
      BY <1>1 DEF TypeOK
    <3>2. reloads' = Append(reloads, rung)
      BY <2>1 DEF Seek
    <3> QED BY <3>1, <3>2, Queued
  <2>3. TypeOK'
    BY <1>1, <2>1, <2>2 DEF Seek, TypeOK, Furthest, attempt, disk, quality, network, device
  <2> QED BY <2>1, <2>2, <2>3, Aside DEF Seek, Resumable, attempt, disk, network, device
<1>3. CASE \E r \in Rungs : Switch(r)
  <2>1. PICK r \in Rungs : Switch(r)
    BY <1>3
  <2>2. reloads' \in Seq(Rungs) /\ reloads' # <<>>
    <3>1. reloads \in Seq(Rungs)
      BY <1>1 DEF TypeOK
    <3>2. reloads' = Append(reloads, r)
      BY <2>1 DEF Switch
    <3> QED BY <3>1, <3>2, Queued
  <2>3. TypeOK'
    BY <1>1, <2>1, <2>2 DEF Switch, TypeOK, attempt, state, disk, network, device, ghost
  <2> QED BY <2>1, <2>2, <2>3, Aside DEF Switch, Resumable, attempt, disk, network, device
<1>4. CASE Bookmark
  <2>1. TypeOK'
    BY <1>1, <1>4 DEF Bookmark, TypeOK, attempt, state, quality, network, device, ghost
  <2> QED BY <1>4, <2>1, Aside DEF Bookmark, Ind, Resumable, attempt, state, network, device
<1>5. CASE FollowStatus
  <2>1. reports' \in Seq(Nat) /\ Head(reports) \in Nat
    BY <1>1, <1>5, HeadTailProperties DEF FollowStatus, TypeOK
  <2>2. TypeOK'
    BY <1>1, <1>5, <2>1 DEF FollowStatus, ReportedPosition, TypeOK, attempt, disk,
       quality, device, ghost
  <2>3. Resumable'
    BY <1>5 DEF FollowStatus, Ind, Resumable, attempt
  <2> QED BY <1>5, <2>2, <2>3, Aside DEF FollowStatus, attempt, disk, device
<1>6. CASE Play
  <2>1. TypeOK'
    BY <1>1, <1>6 DEF Play, Film, Furthest, TypeOK, attempt, state, disk, quality, network
  <2> QED BY <1>6, <2>1, Aside DEF Play, Ind, Resumable, attempt, state, disk, network
<1>7. CASE ReportTime
  <2>1. reports' \in Seq(Nat)
    <3>1. reports \in Seq(Nat) /\ time \in Nat
      BY <1>1 DEF TypeOK
    <3> QED BY <1>7, <3>1, AppendProperties DEF ReportTime, Report
  <2>2. TypeOK'
    BY <1>1, <1>7, <2>1 DEF ReportTime, TypeOK, attempt, state, disk, quality, device, ghost
  <2> QED BY <1>7, <2>2, Aside DEF ReportTime, Ind, Resumable, attempt, state, disk, device
<1> QED BY <1>2, <1>3, <1>4, <1>5, <1>6, <1>7

(* The receiver reads what it was written; the connection dies. *)
LEMMA ReceiverInd ==
  ASSUME Ind, Loaded \/ TracksCleared \/ LinkDies
  PROVE  Ind'
<1>1. TypeOK /\ UNCHANGED <<attempt, state, reloads, job, disk, quality, seeks>>
  BY DEF Ind, Loaded, TracksCleared, LinkDies
<1>2. Resumable'
  BY <1>1 DEF Ind, Resumable, attempt, state
<1>3. Fork'
  BY <1>1 DEF Ind, Fork, attempt
<1>4. CASE LinkDies
  <2>1. wire' \in Seq(Loads)
    BY <1>4, EmptySeq DEF LinkDies
  <2>2. TypeOK'
    BY <1>1, <1>4, <2>1 DEF LinkDies, TypeOK, attempt, state, disk, quality, device, ghost
  <2>3. Up' /\ Noted'
    BY <1>1, <1>4 DEF LinkDies, Ind, Up, Noted, attempt
  <2> QED BY <1>2, <1>3, <2>2, <2>3 DEF Ind
<1>5. CASE Loaded \/ TracksCleared
  <2>1. /\ wire # <<>> /\ wire' = Tail(wire) /\ UNCHANGED <<live, furthest>>
        /\ base' = IF Head(wire).type = "LOAD" THEN Begins(Head(wire).at) ELSE base
    BY <1>5 DEF Loaded, TracksCleared, Begins, device, ghost
  <2>2. wire' \in Seq(Loads) /\ Head(wire) \in Loads /\ \A o : Pending(o) => Pending(o)'
    BY <1>1, <2>1, Received
  <2>3. Head(wire).type = "LOAD" => Head(wire).at \in Nat
    BY <2>2 DEF Loads
  <2>4. /\ base' \in Nat \cup {None} /\ time' \in Nat
        /\ asked' \in Nat \cup {None}
    BY <1>1, <1>5, <2>3 DEF Loaded, TracksCleared, TypeOK, device, ghost
  <2>5. reports' \in Seq(Nat)
    <3>1. reports \in Seq(Nat) /\ time \in Nat
      BY <1>1 DEF TypeOK
    <3>2. \E at \in Nat : Report(at)
      BY <1>5, <2>4, <3>1 DEF Loaded, TracksCleared
    <3>3. PICK at \in Nat : reports' = reports \/ reports' = Append(reports, at)
      BY <3>2 DEF Report
    <3> QED BY <3>1, <3>3, AppendProperties
  <2>6. TypeOK'
    BY <1>1, <2>1, <2>2, <2>4, <2>5 DEF TypeOK, attempt, state, disk, quality
  <2>7. Up' /\ Noted'
    BY <1>1, <2>1, <2>2 DEF Ind, Up, Noted, Recording, attempt, disk
  <2> QED BY <1>2, <1>3, <2>6, <2>7 DEF Ind
<1> QED BY <1>4, <1>5

LEMMA StepInd == Ind /\ [Next]_vars => Ind'
<1> SUFFICES ASSUME Ind, [Next]_vars PROVE Ind'
  OBVIOUS
<1>1. CASE Attempt
  BY <1>1, ConnectInd, AttemptInd DEF Attempt
<1>2. CASE Commands \/ Bookmark \/ FollowStatus
  BY <1>2, AsideInd DEF Commands
<1>3. CASE Receiver
  BY <1>3, ReceiverInd, AsideInd DEF Receiver
<1>4. ASSUME NEW k \in Fibers, Sending(k) \/ Reload(k) PROVE Ind'
  BY <1>4, ClearTracksInd, LoadStreamInd, RecordActiveInd, ReloadInd DEF Sending
<1>5. CASE UNCHANGED vars
  <2>1. TypeOK'
    BY <1>5 DEF Ind, TypeOK, vars, attempt, state, disk, quality, network, device, ghost
  <2> QED BY <1>5, <2>1, Aside DEF Ind, Resumable, vars, attempt, state, disk, network, device
<1> QED BY <1>1, <1>2, <1>3, <1>4, <1>5 DEF Next

LEMMA Invariance == Spec => []Ind
BY InitInd, StepInd, PTL DEF Spec

-----------------------------------------------------------------------------

(* Every variable keeps to its type. *)
THEOREM Typing == Spec => []TypeOK
<1>1. Ind => TypeOK
  BY DEF Ind
<1> QED BY <1>1, Invariance, PTL

(* Whatever was loaded, switched, sought or reported before the session    *)
(* was lost, and however often that happens: the next one loads from the   *)
(* last known position (cast.ts tapError).                                 *)
THEOREM SessionsResume == Spec => ResumesWhereLost
<1> DEFINE Resumes == Connect /\ session > 0 /\ reloads = <<>>
                        => job'[Main].at = position
<1>1. Ind /\ [Next]_vars => [Resumes]_vars
  <2> SUFFICES ASSUME Ind, Connect, reloads = <<>>
               PROVE  job'[Main].at = position
    OBVIOUS
  <2>1. offset = position
    BY DEF Ind, Resumable, Connect
  <2> QED BY <2>1, FiberRange DEF Ind, TypeOK, Connect
<1> QED BY <1>1, Invariance, PTL DEF Spec, ResumesWhereLost

(* While the first session lasts, what `cast seek` is told the receiver    *)
(* plays is what it was last given, whichever fiber gave it and however    *)
(* many seeks and switches there are (cast.ts sendLoad).                   *)
THEOREM ActiveIsTheStream == Spec => []ActiveNamesTheStream
<1>1. Ind => ActiveNamesTheStream
  BY DEF Ind, ActiveNamesTheStream, Noted, Recording, Pending
<1> QED BY <1>1, Invariance, PTL

-----------------------------------------------------------------------------
(* The quality controller. *)

HIDE PlayerAssumption

(* What the proofs use of the constants. *)
LEMMA QualityNumbers ==
  /\ Indices \subseteq Nat /\ 0 \in Indices /\ InitialIndex \in Indices
  /\ \A i \in Indices : Bitrate(i) \in Nat
  /\ Rates \subseteq Nat /\ 0 \in Rates
  /\ Nil \notin Nat
  /\ Burst \in Nat \ {0} /\ StallCluster \in Nat \ {0} /\ ProbeHold \in Nat
  /\ ProbeAfter \in Nat /\ Penalty \in Nat \ {0}
<1>1. Len(Bitrates) \in Nat /\ InitialIndex \in Indices
  BY QualityAssumption
<1>2. Indices \subseteq Nat /\ 0 \in Indices
  BY <1>1 DEF Indices
<1>3. \A i \in Indices : Bitrates[i + 1] \in Nat
  BY QualityAssumption DEF Indices
<1>4. /\ Burst \in Nat \ {0} /\ StallCluster \in Nat \ {0} /\ ProbeHold \in Nat
      /\ ProbeAfter \in Nat /\ Penalty \in Nat \ {0}
  BY QualityAssumption
<1>5. Rates \subseteq Nat /\ 0 \in Rates /\ Nil \notin Nat
  BY QualityAssumption
<1> QED BY <1>1, <1>2, <1>3, <1>4, <1>5 DEF Bitrate

LEMMA InitTypes == QualityInit => QualityTypeOK
<1> SUFFICES ASSUME QualityInit PROVE QualityTypeOK
  OBVIOUS
<1>1. burstLeft \in 0 .. Burst /\ stalls \in SUBSET (0 .. StallCluster)
  BY QualityNumbers DEF QualityInit
<1>2. sinceSwitch \in 0 .. ProbeAfter + 1 /\ sinceUp \in 0 .. ProbeAfter + 1
  BY QualityNumbers DEF QualityInit
<1>3. penalties \in [Indices -> Penalties \cup {Nil}]
  BY DEF QualityInit
<1> QED BY <1>1, <1>2, <1>3, QualityNumbers
        DEF QualityInit, QualityTypeOK, Capacities

(* What the phases of two rules mean (Signals.ts phaseOf). *)
LEMMA Phases ==
  ASSUME QualityTypeOK
  PROVE  /\ Phase = "Stalled" => StallsWithin(StallWindow) # {}
         /\ Phase = "ReadyToProbe" => sinceSwitch > ProbeAfter
<1>1. burstLeft \in Nat /\ burstPeak \in Nat
  BY QualityNumbers DEF QualityTypeOK
<1>2. \/ burstLeft > 0 /\ Phase = "Measuring"
      \/ burstLeft = 0 /\ burstPeak > 0 /\ Phase = "Measured"
      \/ burstLeft = 0 /\ burstPeak = 0
  BY <1>1 DEF Phase
<1> QED BY <1>2 DEF Phase

(* A tick ages every window within its bounds, whatever the index becomes. *)
LEMMA WindowTypes ==
  ASSUME QualityTypeOK, AgeWindows
  PROVE  /\ sinceSwitch' \in 0 .. ProbeAfter + 1
         /\ sinceUp' \in 0 .. ProbeAfter + 1
         /\ burstLeft' \in 0 .. Burst
         /\ stalls' \in SUBSET (0 .. StallCluster)
BY QualityNumbers DEF QualityTypeOK, AgeWindows, Older

LEMMA AgeTypes ==
  ASSUME QualityTypeOK
  PROVE  /\ AgeProbe \in (0 .. ProbeHold + 1) \cup {Nil}
         /\ AgePenalties \in [Indices -> Penalties \cup {Nil}]
<1>1. AgeProbe \in (0 .. ProbeHold + 1) \cup {Nil}
  BY QualityNumbers DEF QualityTypeOK, AgeProbe, Older
<1>2. ASSUME NEW i \in Indices, penalties[i] # Nil,
             ~(penalties[i].age >= Penalty)
      PROVE  [penalties[i] EXCEPT !.age = penalties[i].age + 1] \in Penalties
  BY <1>2, QualityNumbers DEF QualityTypeOK, Penalties
<1> QED BY <1>1, <1>2 DEF AgePenalties

(* switchTo stays on the ladder, and what it changes it restarts. *)
LEMMA SwitchTypes ==
  ASSUME QualityTypeOK, NEW i, SwitchTo(i)
  PROVE  /\ index' \in Indices /\ restarting' \in BOOLEAN
         /\ index' \in {index, i}
         /\ index' # index => restarting'
         /\ restarting => restarting'
BY DEF SwitchTo, QualityTypeOK

(* What a measurement may do: size the ladder once, and then only lower    *)
(* what no probe has raised. *)
LEMMA MeasuredMoves ==
  ASSUME QualityTypeOK, Measured
  PROVE  /\ index' \in Indices /\ restarting' \in BOOLEAN
         /\ index' # index => restarting'
         /\ restarting => restarting'
         /\ initialised => index' = index \/ (index' < index /\ probing = Nil)
<1> DEFINE target == BestFor(MeasuredCapacity)
<1>1. CASE MayAct(target)
  BY <1>1, SwitchTypes DEF Measured, MayAct
<1>2. CASE ~MayAct(target)
  BY <1>2 DEF Measured, QualityTypeOK
<1> QED BY <1>1, <1>2

LEMMA NextTypes == QualityTypeOK /\ [QualityNext]_qualityVars => QualityTypeOK'
<1> SUFFICES ASSUME QualityTypeOK, [QualityNext]_qualityVars PROVE QualityTypeOK'
  OBVIOUS
<1> USE QualityNumbers
<1>0. bad' \in BOOLEAN
  BY DEF QualityNext, qualityVars, QualityTypeOK
<1>1. CASE Measuring
  BY <1>0, <1>1, WindowTypes, AgeTypes DEF Measuring, QualityTypeOK, Greater
<1>2. CASE Measured
  <2>1. capacity' \in Nat
    BY <1>2 DEF Measured, MeasuredCapacity, QualityTypeOK, Capacities
  <2> QED BY <1>0, <1>2, <2>1, WindowTypes, AgeTypes, MeasuredMoves
          DEF Measured, QualityTypeOK, Capacities
<1>3. CASE ProbeAccepted
  <2>1. capacity' \in Nat
    BY <1>3 DEF ProbeAccepted, QualityTypeOK, Capacities, Greater
  <2> QED BY <1>0, <1>3, <2>1, WindowTypes, AgeTypes
          DEF ProbeAccepted, QualityTypeOK, Capacities
<1>4. CASE Stalled
  <2>1. capacity' \in Nat
    BY <1>4 DEF Stalled, QualityTypeOK, Capacities, Lesser
  <2>2. [age |-> 1, capacity |-> capacity] \in Penalties
    BY DEF QualityTypeOK, Penalties
  <2>3. penalties' \in [Indices -> Penalties \cup {Nil}]
    BY <1>0, <1>4, <2>2, AgeTypes DEF Stalled
  <2> QED BY <1>0, <1>4, <2>1, <2>3, WindowTypes, SwitchTypes
          DEF Stalled, QualityTypeOK, Capacities
<1>5. CASE ReadyToProbe
  <2>1. index' \in Indices
    BY <1>5 DEF ReadyToProbe, ProbeTarget, QualityTypeOK
  <2>2. restarting' \in BOOLEAN
    BY <1>5 DEF ReadyToProbe, QualityTypeOK
  <2>3. probing' \in (0 .. ProbeHold + 1) \cup {Nil}
    <3>1. 1 \in 0 .. ProbeHold + 1
      OBVIOUS
    <3> QED BY <1>5, <3>1, AgeTypes DEF ReadyToProbe
  <2> QED BY <1>0, <1>5, <2>1, <2>2, <2>3, WindowTypes, AgeTypes
          DEF ReadyToProbe, QualityTypeOK
<1>6. CASE Waiting
  BY <1>0, <1>6, WindowTypes, AgeTypes DEF Waiting, QualityTypeOK
<1>7. CASE NoteStall
  BY <1>0, <1>7 DEF NoteStall, QualityTypeOK
<1>8. CASE NoteRestart
  <2>1. burstLeft' \in 0 .. Burst /\ burstPeak' \in Rates
    BY <1>8 DEF NoteRestart
  <2>2. sinceSwitch' \in 0 .. ProbeAfter + 1
    BY <1>8 DEF NoteRestart, SinceRestart
  <2> QED BY <1>0, <1>8, <2>1, <2>2 DEF NoteRestart, QualityTypeOK
<1>9. CASE UNCHANGED qualityVars
  BY <1>9 DEF QualityTypeOK, qualityVars
<1> QED BY <1>1, <1>2, <1>3, <1>4, <1>5, <1>6, <1>7, <1>8, <1>9
        DEF QualityNext, Tick

(* Every value keeps its type: the rung is one of the ladder and no window *)
(* runs past what it is compared with (Controller.ts, Signals.ts).         *)
THEOREM QualityTyping == QualitySpec => []QualityTypeOK
BY InitTypes, NextTypes, PTL DEF QualitySpec

(* "A probe is an experiment and only a stall refutes it" (Controller.ts   *)
(* onMeasured, onStalled): with any capacity and any rungs, once measured. *)
THEOREM StallsRefute == QualitySpec => OnlyStallsRefute
<1> DEFINE Refuted == StallsWithin(StallWindow) # {}
<1>1. ASSUME QualityTypeOK, [QualityNext]_qualityVars, initialised,
             probing # Nil, index' < index
      PROVE  Refuted
  <2>1. index \in Int /\ ~(index < index)
    BY <1>1, QualityNumbers DEF QualityTypeOK
  <2>2. CASE Measured
    BY <1>1, <2>1, <2>2, MeasuredMoves
  <2>3. CASE Stalled
    BY <1>1, <2>3, Phases DEF Stalled
  <2>4. CASE ReadyToProbe
    BY <1>1, <2>1, <2>4 DEF ReadyToProbe, ProbeTarget
  <2> QED BY <1>1, <2>1, <2>2, <2>3, <2>4
          DEF QualityNext, Tick, qualityVars, Measuring, ProbeAccepted,
             Waiting, NoteStall, NoteRestart
<1>2. QualityTypeOK /\ [QualityNext]_qualityVars =>
        [initialised /\ probing # Nil /\ index' < index => Refuted]_qualityVars
  BY <1>1
<1> QED BY <1>2, QualityTyping, PTL DEF QualitySpec, OnlyStallsRefute

(* As long as no restart is outstanding, the last one is no older than the *)
(* last time quality was raised. *)
Restarted == restarting \/ sinceSwitch <= sinceUp

(* When quality is raised once it has been measured. *)
LEMMA RaiseIsProbe ==
  ASSUME QualityTypeOK, [QualityNext]_qualityVars, initialised, index' > index
  PROVE  ReadyToProbe /\ sinceSwitch > ProbeAfter
<1>1. index \in Int /\ ~(index > index)
  BY QualityNumbers DEF QualityTypeOK
<1>2. ~Measured
  <2> SUFFICES ASSUME Measured PROVE FALSE
    OBVIOUS
  <2>1. index' \in Int /\ (index' = index \/ index' < index)
    <3>1. index' \in Indices /\ (index' = index \/ index' < index)
      BY MeasuredMoves
    <3> QED BY <3>1, QualityNumbers
  <2> QED BY <1>1, <2>1
<1>3. CASE Stalled
  <2>1. StallTarget <= index
    BY QualityNumbers DEF StallTarget, Greater, QualityTypeOK
  <2>2. index' \in {index, StallTarget}
    BY <1>3, SwitchTypes DEF Stalled
  <2> QED BY <1>1, <2>1, <2>2
<1>4. CASE ReadyToProbe
  BY <1>4, Phases DEF ReadyToProbe
<1> QED BY <1>1, <1>2, <1>3, <1>4
        DEF QualityNext, Tick, qualityVars, Measuring, ProbeAccepted,
           Waiting, NoteStall, NoteRestart

LEMMA RestartedStays ==
  ASSUME QualityTypeOK, Restarted, [QualityNext]_qualityVars
  PROVE  Restarted'
<1>1. ASSUME Tick PROVE Restarted'
  <2>1. (restarting => restarting') /\ AgeWindows
    BY <1>1, MeasuredMoves, SwitchTypes
       DEF Tick, Measuring, Measured, ProbeAccepted, Stalled, ReadyToProbe,
           Waiting
  <2>2. index' # index => restarting'
    BY <1>1, MeasuredMoves, SwitchTypes
       DEF Tick, Measuring, ProbeAccepted, Stalled,
       ReadyToProbe, Waiting
  <2>3. CASE index' = index
    BY <2>1, <2>3, QualityNumbers
       DEF Restarted, AgeWindows, Older, QualityTypeOK, Indices
  <2> QED BY <2>2, <2>3 DEF Restarted
<1>2. CASE NoteRestart
  BY <1>2, QualityNumbers
     DEF NoteRestart, SinceRestart, Restarted, QualityTypeOK
<1>3. CASE NoteStall \/ UNCHANGED qualityVars
  BY <1>3 DEF NoteStall, qualityVars, Restarted
<1> QED BY <1>1, <1>2, <1>3 DEF QualityNext

(* Quality is raised again within PROBE_AFTER only while the stream has    *)
(* not restarted since a switch, for any ladder, however long reloads take *)
(* (Controller.ts switchTo, noteRestart).                                  *)
THEOREM RaisesKeepApart == QualitySpec => RestartsKeepRaisesApart
<1>1. QualityInit => Restarted
  BY QualityNumbers DEF QualityInit, Restarted
<1>2. QualityTypeOK /\ Restarted /\ [QualityNext]_qualityVars => Restarted'
  BY RestartedStays
<1>3. ASSUME QualityTypeOK, Restarted, [QualityNext]_qualityVars,
             initialised, index' > index
      PROVE  sinceUp > ProbeAfter \/ restarting
  <2>1. sinceSwitch > ProbeAfter
    BY <1>3, RaiseIsProbe
  <2> QED BY <1>3, <2>1, QualityNumbers DEF Restarted, QualityTypeOK
<1>4. QualityTypeOK /\ Restarted /\ [QualityNext]_qualityVars =>
        [initialised /\ index' > index
           => sinceUp > ProbeAfter \/ restarting]_qualityVars
  BY <1>3
<1> QED BY <1>1, <1>2, <1>4, QualityTyping, PTL
        DEF QualitySpec, RestartsKeepRaisesApart
=============================================================================
