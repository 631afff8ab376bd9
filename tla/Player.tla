------------------------------- MODULE Player -------------------------------
(***************************************************************************)
(* `cast play` on a Cast device (apps/cli/src/bin/cast.ts): the fiber that *)
(* connects, loads, follows statuses and reconnects; the reload fiber each *)
(* session forks; the control channel's seek; the quality controller's     *)
(* switch; the bookmark timer; and the receiver that plays.                *)
(*                                                                         *)
(* A stream served progressively starts at the offset it was loaded from,  *)
(* so the receiver's time counts from there.  Under HLS one presentation   *)
(* covers the film and the receiver's time is film time.                   *)
(*                                                                         *)
(* A reload fiber is forked into the command's scope, not the session's:   *)
(* it outlives its session and goes on taking from the shared queue.       *)
(***************************************************************************)
EXTENDS Naturals, Sequences, FiniteSets

CONSTANTS
  UseHls,       \* which presentation is served
  Subtitles,    \* whether a text track was chosen
  Resumed,      \* where the film is resumed
  Length,       \* the film's length
  Rungs,        \* the quality ladder
  None,         \* an Option that is none
  MaxSessions,  \* bound: sessions established
  MaxSeeks,     \* bound: seeks asked for
  MaxSwitches,  \* bound: quality changes
  MaxReports    \* bound: statuses in flight

(* The sendLoad a fiber is in the middle of. *)
Jobs == [step : {"edit", "load", "record"}, at : Nat]

ASSUME PlayerAssumption ==
  /\ UseHls \in BOOLEAN /\ Subtitles \in BOOLEAN
  /\ Length \in Nat /\ Resumed \in 0 .. Length
  /\ Rungs # {} /\ None \notin Nat \cup Jobs
  /\ MaxSessions \in Nat /\ MaxSeeks \in Nat
  /\ MaxSwitches \in Nat /\ MaxReports \in Nat

VARIABLES
  main,           \* what the attempt fiber is doing
  error,          \* why its last run failed
  found,          \* whether the device has been looked for again
  everConnected,  \* whether a session was ever established
  session,        \* the sessions established so far, the last one current
  offset,         \* SessionState.offsetSeconds
  rung,           \* SessionState.rung
  position,       \* where the viewer is believed to be
  reloads,        \* the queue of rungs to reload at
  job,            \* job[k]: the sendLoad fiber k is in the middle of
  active,         \* the active stream's offset, as recorded for `cast seek`
  saved,          \* the remembered position of the file
  wanted,         \* the rung the controller has chosen
  seeks, switches,\* how many of each so far
  live,           \* whether the current session's connection is up
  wire,           \* written to the receiver, not yet read by it
  reports,        \* statuses on their way back
  base,           \* offset of the stream the receiver plays, if any
  time,           \* the receiver's currentTime
  asked,          \* a seek the receiver has not carried out yet
  furthest        \* the furthest place viewed or asked for

attempt == <<main, error, found, everConnected, session>>
state == <<offset, rung, position>>
disk == <<active, saved>>
quality == <<wanted, switches>>
network == <<live, wire, reports>>
device == <<base, time>>
ghost == <<asked, furthest>>
vars == <<attempt, state, reloads, job, disk, quality, seeks, network, device,
          ghost>>

(* Fiber 0 is the attempt itself, fiber k the reload fiber of session k.   *)
Main == 0
Fibers == 0 .. MaxSessions
Loads == [type : {"LOAD"}, at : Nat] \cup [type : {"EDIT_TRACKS_INFO"}]

TypeOK ==
  /\ main \in {"connecting", "loading", "watching", "backoff", "done"}
  /\ error \in {"none", "lost", "unreachable"}
  /\ found \in BOOLEAN /\ everConnected \in BOOLEAN /\ live \in BOOLEAN
  /\ session \in 0 .. MaxSessions
  /\ offset \in Nat /\ position \in Nat /\ saved \in Nat
  /\ rung \in Rungs /\ wanted \in Rungs
  /\ reloads \in Seq(Rungs)
  /\ job \in [Fibers -> Jobs \cup {None}]
  /\ active \in Nat \cup {None} /\ asked \in Nat \cup {None}
  /\ seeks \in 0 .. MaxSeeks /\ switches \in 0 .. MaxSwitches
  /\ wire \in Seq(Loads) /\ reports \in Seq(Nat)
  /\ base \in Nat \cup {None} /\ time \in Nat /\ furthest \in Nat

Init ==
  /\ main = "connecting" /\ error = "none"
  /\ found = FALSE /\ everConnected = FALSE /\ session = 0
  /\ offset = Resumed /\ position = Resumed /\ saved = Resumed
  /\ rung \in Rungs /\ wanted = rung
  /\ reloads = <<>> /\ job = [k \in Fibers |-> None]
  /\ active = None
  /\ seeks = 0 /\ switches = 0
  /\ live = FALSE /\ wire = <<>> /\ reports = <<>>
  /\ base = None /\ time = 0
  /\ asked = None /\ furthest = Resumed

-----------------------------------------------------------------------------
(* The attempt: connect, load, follow, and again.                          *)

(* CastSession.make and launch, then sendLoad reads the state.  A fresh    *)
(* session has no media session, so there are no tracks to clear yet.      *)
Connect ==
  /\ main = "connecting"
  /\ session < MaxSessions
  /\ main' = "loading"
  /\ session' = session + 1
  /\ everConnected' = TRUE
  /\ job' = [job EXCEPT ![Main] = [step |-> "load", at |-> offset]]
  /\ live' = TRUE /\ wire' = <<>> /\ reports' = <<>>
  /\ UNCHANGED <<error, found, state, reloads, disk, quality, seeks, device,
                 ghost>>

(* As LastKnown, had a reconnection kept the offset it first loaded.       *)
LastKnown_FirstOffset == offset

(* tapError: the next LOAD starts from the last known position.            *)
LastKnown == position

(* ConnectionLostError ends the statuses of the session.                   *)
Lost ==
  /\ main = "watching"
  /\ ~live
  /\ main' = "backoff" /\ error' = "lost"
  /\ offset' = LastKnown
  /\ reports' = <<>>
  /\ UNCHANGED <<found, everConnected, session, rung, position, reloads, job,
                 disk, quality, seeks, live, wire, device, ghost>>

Unreachable ==
  /\ main = "connecting"
  /\ main' = "backoff" /\ error' = "unreachable"
  /\ offset' = LastKnown
  /\ UNCHANGED <<found, everConnected, session, rung, position, reloads, job,
                 disk, quality, seeks, network, device, ghost>>

(* retry's `while`: patience is for a session that existed. *)
Retry ==
  /\ main = "backoff"
  /\ everConnected \/ error = "lost"
  /\ main' = "connecting"
  /\ UNCHANGED <<error, found, everConnected, session, state, reloads, job,
                 disk, quality, seeks, network, device, ghost>>

(* The retries run out, or there are none: ensuring keeps the position and *)
(* clears the active stream.  A device that could not be reached is looked *)
(* for once more, which starts another attempt.                            *)
GiveUp ==
  /\ main = "backoff"
  /\ saved' = position
  /\ active' = None
  /\ found' = (found \/ error = "unreachable")
  /\ main' = IF error = "unreachable" /\ ~found THEN "connecting" ELSE "done"
  /\ UNCHANGED <<error, everConnected, session, state, reloads, job, quality,
                 seeks, network, device, ghost>>

-----------------------------------------------------------------------------
(* sendLoad, by whichever fiber; each step may await.                      *)

(* Only the current session's connection can still carry anything.         *)
Carries(k) == live /\ k \in {Main, session}

SendTo(k, m) == IF Carries(k) THEN Append(wire, m) ELSE wire

ClearTracks(k) ==
  /\ main # "done"
  /\ job[k] # None /\ job[k].step = "edit"
  /\ job' = [job EXCEPT ![k].step = "load"]
  /\ wire' = IF Subtitles THEN SendTo(k, [type |-> "EDIT_TRACKS_INFO"])
                          ELSE wire
  /\ UNCHANGED <<attempt, state, reloads, disk, quality, seeks, live, reports,
                 device, ghost>>

LoadStream(k) ==
  /\ main # "done"
  /\ job[k] # None /\ job[k].step = "load"
  /\ job' = [job EXCEPT ![k].step = "record"]
  /\ wire' = SendTo(k, [type |-> "LOAD", at |-> job[k].at])
  /\ UNCHANGED <<attempt, state, reloads, disk, quality, seeks, live, reports,
                 device, ghost>>

(* As StreamOffset, had it been the position that was recorded.            *)
StreamOffset_Position(k) == position

(* Where the loaded stream begins, in film time. *)
StreamOffset(k) == IF UseHls THEN 0 ELSE job[k].at

(* The attempt forks the reload fiber and follows statuses after it.  A    *)
(* write under way when the command ends is not interrupted.               *)
RecordActive(k) ==
  /\ job[k] # None /\ job[k].step = "record"
  /\ job' = [job EXCEPT ![k] = None]
  /\ active' = StreamOffset(k)
  /\ main' = IF k = Main THEN "watching" ELSE main
  /\ UNCHANGED <<error, found, everConnected, session, state, reloads, saved,
                 quality, seeks, network, device, ghost>>

-----------------------------------------------------------------------------
(* The other fibers.                                                       *)

Forked(k) ==
  /\ ~UseHls /\ main # "done"
  /\ k \in 1 .. session /\ (k = session => main # "loading")

(* A reload fiber takes from the queue, whichever session it belongs to.   *)
Reload(k) ==
  /\ Forked(k)
  /\ job[k] = None
  /\ reloads # <<>>
  /\ reloads' = Tail(reloads)
  /\ rung' = Head(reloads)
  /\ offset' = position
  /\ job' = [job EXCEPT ![k] = [step |-> "edit", at |-> position]]
  /\ UNCHANGED <<attempt, position, disk, quality, seeks, network, device,
                 ghost>>

(* As ReportedPosition, had the stream been taken to start the film.       *)
ReportedPosition_NoOffset(at) == at

(* As ReportedPosition, had the offset been taken away.                    *)
ReportedPosition_Minus(at) == at - offset

(* The receiver reports time within the current stream. *)
ReportedPosition(at) == offset + at

(* A status nobody has subscribed for is lost. *)
FollowStatus ==
  /\ reports # <<>>
  /\ reports' = Tail(reports)
  /\ position' = IF main = "watching" THEN ReportedPosition(Head(reports))
                                      ELSE position
  /\ UNCHANGED <<attempt, offset, rung, reloads, job, disk, quality, seeks,
                 live, wire, device, ghost>>

Furthest(at) == IF at > furthest THEN at ELSE furthest

(* onSeek: only progressively. *)
Seek(to) ==
  /\ ~UseHls /\ main # "done"
  /\ seeks < MaxSeeks
  /\ seeks' = seeks + 1
  /\ position' = to
  /\ reloads' = Append(reloads, rung)
  /\ asked' = to /\ furthest' = Furthest(to)
  /\ UNCHANGED <<attempt, offset, rung, job, disk, quality, network, device>>

(* onSwitch: the controller runs only progressively. *)
Switch(r) ==
  /\ ~UseHls /\ main # "done"
  /\ switches < MaxSwitches
  /\ r # wanted
  /\ switches' = switches + 1
  /\ wanted' = r
  /\ reloads' = Append(reloads, r)
  /\ UNCHANGED <<attempt, state, job, disk, seeks, network, device, ghost>>

Bookmark ==
  /\ main # "done"
  /\ saved' = position
  /\ UNCHANGED <<attempt, state, reloads, job, active, quality, seeks,
                 network, device, ghost>>

-----------------------------------------------------------------------------
(* The receiver.                                                           *)

Film == base + time

Report(at) ==
  reports' = IF Len(reports) < MaxReports THEN Append(reports, at) ELSE reports

(* LOAD starts another stream: at its own beginning, or under HLS at the   *)
(* currentTime it was given. *)
Loaded ==
  /\ live /\ wire # <<>>
  /\ Head(wire).type = "LOAD"
  /\ wire' = Tail(wire)
  /\ base' = IF UseHls THEN 0 ELSE Head(wire).at
  /\ time' = IF UseHls THEN Head(wire).at ELSE 0
  /\ Report(time')
  /\ asked' = IF Head(wire).at = asked THEN None ELSE asked
  /\ UNCHANGED <<attempt, state, reloads, job, disk, quality, seeks, live,
                 furthest>>

TracksCleared ==
  /\ live /\ wire # <<>>
  /\ Head(wire).type = "EDIT_TRACKS_INFO"
  /\ wire' = Tail(wire)
  /\ Report(time)
  /\ UNCHANGED <<attempt, state, reloads, job, disk, quality, seeks, live,
                 device, ghost>>

Play ==
  /\ live
  /\ base # None /\ Film < Length
  /\ time' = time + 1
  /\ furthest' = Furthest(Film + 1)
  /\ UNCHANGED <<attempt, state, reloads, job, disk, quality, seeks, network,
                 base, asked>>

ReportTime ==
  /\ live /\ base # None
  /\ Len(reports) < MaxReports
  /\ Report(time)
  /\ UNCHANGED <<attempt, state, reloads, job, disk, quality, seeks, live,
                 wire, device, ghost>>

LinkDies ==
  /\ live
  /\ live' = FALSE
  /\ wire' = <<>>
  /\ UNCHANGED <<attempt, state, reloads, job, disk, quality, seeks, reports,
                 device, ghost>>

-----------------------------------------------------------------------------
Attempt == Connect \/ Lost \/ Unreachable \/ Retry \/ GiveUp
Sending(k) == ClearTracks(k) \/ LoadStream(k) \/ RecordActive(k)
Commands == (\E to \in 0 .. Length : Seek(to)) \/ (\E r \in Rungs : Switch(r))
Receiver == Loaded \/ TracksCleared \/ Play \/ ReportTime \/ LinkDies

Next ==
  \/ Attempt \/ Commands \/ Bookmark \/ FollowStatus \/ Receiver
  \/ \E k \in Fibers : Sending(k) \/ Reload(k)

Spec == Init /\ [][Next]_vars

(* The runtime runs the fibers that can run; the receiver reads, plays and *)
(* reports while the connection is up.                                     *)
Fairness ==
  /\ WF_vars(Connect) /\ WF_vars(Lost)
  /\ \A k \in Fibers : WF_vars(Sending(k)) /\ WF_vars(Reload(k))
  /\ WF_vars(FollowStatus)
  /\ WF_vars(Loaded) /\ WF_vars(TracksCleared)
  /\ WF_vars(Play) /\ WF_vars(ReportTime)

FairSpec == Spec /\ Fairness
-----------------------------------------------------------------------------
(* Properties.                                                             *)

(* A session that replaces a lost one loads from the last known position,  *)
(* whatever was loaded, switched or reported before the loss; a seek asked *)
(* for meanwhile is that position too, once it no longer waits in the      *)
(* queue (cast.ts tapError, against sendLoad and onSeek).                  *)
ResumesWhereLost ==
  [][Connect /\ session > 0 /\ reloads = <<>>
       => job'[Main].at = position]_vars

(* While the first session lasts, the active stream recorded for           *)
(* `cast seek` names the stream last loaded, whichever fiber loaded it,    *)
(* once no fiber is in the middle of loading another (cast.ts sendLoad).   *)
ActiveNamesTheStream ==
  session = 1 /\ main = "watching" /\ (\A k \in Fibers : job[k] = None)
     /\ (\A i \in DOMAIN wire : wire[i].type # "LOAD") /\ live
    => active = base

(* Once the reloads have been carried out and while the session lasts, the *)
(* position is the viewer's, although statuses of a stream that has been   *)
(* replaced arrive after its replacement (cast.ts runSession).             *)
PositionSettles ==
  <>[](main = "watching" /\ live => base # None /\ position = Film)

(* The position, which becomes the bookmark, is never past what has been   *)
(* viewed or asked for (cast.ts position, "where the viewer actually is"). *)
NeverAhead == position <= furthest

(* A seek is carried out while the session it was asked of lasts           *)
(* (cast.ts onSeek).                                                       *)
SeekReaches ==
  \A to \in 0 .. Length :
    (asked = to /\ main = "watching") ~> (asked # to \/ main # "watching")

(* With nothing left to reload, the stream is served at the rung the       *)
(* controller chose (cast.ts onSwitch and the reload fiber).               *)
RungAgrees ==
  main = "watching" /\ reloads = <<>> /\ (\A k \in Fibers : job[k] = None)
    => rung = wanted

(* When the command is over the active stream is cleared, "because nothing *)
(* is playing any more" (cast.ts ensuring).                                *)
ActiveCleared == main = "done" => active = None
=============================================================================
