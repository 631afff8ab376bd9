---------------------------- MODULE CastSession ----------------------------
(***************************************************************************)
(* One Cast control session: CastSession.makeOver running over a           *)
(* CastSocket, and the receiver at the other end of the connection.        *)
(*                                                                         *)
(* The sender is several fibers on one set of Refs: the pump that routes   *)
(* what arrives, the caller that attaches (launch or join) and the fibers  *)
(* that issue commands afterwards.  A command reads the Refs, takes its    *)
(* request id and only then writes, so other fibers run between the two.   *)
(*                                                                         *)
(* An application instance has a transport id, a session id and, once it   *)
(* plays, a media session id.  What matters of the three is whose they     *)
(* are, so each is named by the member of Apps it belongs to.              *)
(***************************************************************************)
EXTENDS Naturals, Sequences

CONSTANTS
  Fibers,       \* the sender's fibers that use the session
  Main,         \* the one that attaches it
  Apps,         \* application instances a receiver may run, each at most once
  Receiver,     \* the receiver's own address, "receiver-0"
  None,         \* an Option that is none
  MaxRequests,  \* bound: how many request ids are issued
  MaxPings      \* bound: how many heartbeats the receiver sends

ASSUME CastSessionAssumption ==
  /\ Main \in Fibers
  /\ Receiver \notin Apps
  /\ None \notin Apps \cup {Receiver}
  /\ MaxRequests \in Nat
  /\ MaxPings \in Nat

VARIABLES
  requestId,       \* the next request id
  transportId,     \* where media commands are addressed
  sessionId,       \* which application session a LOAD or a STOP names
  mediaSessionId,  \* which media session a media command names
  connected,       \* destinations the sender has opened a connection to
  attach,          \* how far launch or join has got
  call,            \* call[f]: the message fiber f is about to write
  pump,            \* the fiber that drains socket.messages
  lost,            \* the Deferred the pump's failure completes
  reader,          \* the consumer of the statuses stream
  link,            \* the TLS connection
  outbox,          \* written by the sender, not yet read by the receiver
  inbox,           \* written by the receiver, not yet routed by the pump
  app,             \* the application the receiver runs
  usedApps,        \* the ones it has run
  playing,         \* whether that application holds a media session
  joined,          \* destinations it has had a CONNECT for
  heard,           \* requests it has read, oldest first
  ignored,         \* requests it dropped for want of a CONNECT
  pings            \* heartbeats it has sent

ids == <<transportId, sessionId, mediaSessionId>>
sender == <<requestId, ids, connected, attach, call>>
ending == <<pump, lost, reader>>
receiver == <<app, usedApps, playing, joined, heard, ignored, pings>>
vars == <<sender, ending, link, outbox, inbox, receiver>>

Option(S) == S \cup {None}
Destinations == Apps \cup {Receiver}

(* Requests carry the id and, of LOAD, STOP and the media commands, the    *)
(* application whose session they name.                                    *)
Requests ==
  [to : Destinations,
   type : {"LAUNCH", "GET_STATUS", "LOAD", "COMMAND", "SET_VOLUME", "STOP"},
   id : Nat, of : Option(Apps)]
Controls == [to : Destinations, type : {"CONNECT", "PONG"}]
Replies ==
  [type : {"RECEIVER_STATUS"}, of : Option(Apps)]
    \cup [type : {"MEDIA_STATUS"}, of : Option(Apps)]
    \cup [type : {"LOAD_FAILED", "PING"}]

TypeOK ==
  /\ requestId \in Nat
  /\ transportId \in Option(Apps)
  /\ sessionId \in Option(Apps)
  /\ mediaSessionId \in Option(Apps)
  /\ connected \in SUBSET Destinations
  /\ attach \in {"none", "launching", "joining", "attached", "failed"}
  /\ call \in [Fibers -> Option(Requests)]
  /\ pump \in {"running", "ended", "failed"}
  /\ lost \in BOOLEAN
  /\ reader \in {"absent", "watching", "told"}
  /\ link \in {"open", "closed", "reset", "silent"}
  /\ outbox \in Seq(Requests \cup Controls)
  /\ inbox \in Seq(Replies)
  /\ app \in Option(Apps)
  /\ usedApps \in SUBSET Apps
  /\ playing \in BOOLEAN
  /\ joined \in SUBSET Destinations
  /\ heard \in Seq(Requests)
  /\ ignored \in SUBSET Requests
  /\ pings \in Nat

-----------------------------------------------------------------------------
(* makeOver: the Refs are empty and the receiver's connection is opened    *)
(* before anything else is sent.                                           *)
Init ==
  /\ requestId = 1
  /\ transportId = None
  /\ sessionId = None
  /\ mediaSessionId = None
  /\ connected = {Receiver}
  /\ attach = "none"
  /\ call = [f \in Fibers |-> None]
  /\ pump = "running"
  /\ lost = FALSE
  /\ reader = "absent"
  /\ link = "open"
  /\ outbox = <<[to |-> Receiver, type |-> "CONNECT"]>>
  /\ inbox = <<>>
  /\ app \in Option(Apps)
  /\ usedApps = {app} \ {None}
  /\ playing \in {b \in BOOLEAN : b => app # None}
  /\ joined = {}
  /\ heard = <<>>
  /\ ignored = {}
  /\ pings = 0

-----------------------------------------------------------------------------
(* The sender's fibers.                                                    *)

(* send: a write that fails is logged and forgotten. *)
Sent(m) == IF link = "open" THEN Append(outbox, m) ELSE outbox

(* As NextRequestId, had the counter been read and not advanced. *)
NextRequestId_ReadOnly == requestId

(* nextRequestId: Ref.getAndUpdate. *)
NextRequestId == requestId + 1

(* Fiber f takes an id for a message it has decided on; it writes later. *)
Issue(f, to, type, of) ==
  /\ requestId <= MaxRequests
  /\ requestId' = NextRequestId
  /\ call' = [call EXCEPT ![f] =
                [to |-> to, type |-> type, id |-> requestId, of |-> of]]

Write(f) ==
  /\ call[f] # None
  /\ outbox' = Sent(call[f])
  /\ call' = [call EXCEPT ![f] = None]
  /\ UNCHANGED <<requestId, ids, connected, attach, ending, link, inbox,
                 receiver>>

Launch ==
  /\ attach = "none"
  /\ Issue(Main, Receiver, "LAUNCH", None)
  /\ attach' = "launching"
  /\ UNCHANGED <<ids, connected, ending, link, outbox, inbox, receiver>>

Join ==
  /\ attach = "none"
  /\ Issue(Main, Receiver, "GET_STATUS", None)
  /\ attach' = "joining"
  /\ UNCHANGED <<ids, connected, ending, link, outbox, inbox, receiver>>

(* As OpenConnection, had it recorded the destination without writing. *)
OpenConnection_NotSent(to) ==
  /\ connected' = connected \cup {to}
  /\ outbox' = outbox

(* openConnection, once the poll has seen a transport. *)
OpenConnection(to) ==
  /\ connected' = connected \cup {to}
  /\ outbox' = IF to \in connected
               THEN outbox
               ELSE Sent([to |-> to, type |-> "CONNECT"])

LaunchReady ==
  /\ attach = "launching"
  /\ call[Main] = None
  /\ transportId # None
  /\ OpenConnection(transportId)
  /\ attach' = "attached"
  /\ UNCHANGED <<requestId, ids, call, ending, link, inbox, receiver>>

(* join also asks the application for its media status. *)
JoinReady ==
  /\ attach = "joining"
  /\ call[Main] = None
  /\ transportId # None
  /\ OpenConnection(transportId)
  /\ Issue(Main, transportId, "GET_STATUS", None)
  /\ attach' = "attached"
  /\ UNCHANGED <<ids, ending, link, inbox, receiver>>

(* timeoutOrElse: 15 seconds for launch, 8 for join. *)
AttachTimesOut ==
  /\ attach \in {"launching", "joining"}
  /\ call[Main] = None
  /\ transportId = None
  /\ attach' = "failed"
  /\ UNCHANGED <<requestId, ids, connected, call, ending, link, outbox, inbox,
                 receiver>>

(* A caller has the session only once it is attached.                      *)
Free(f) == attach = "attached" /\ call[f] = None

Load(f) ==
  /\ Free(f)
  /\ transportId # None
  /\ Issue(f, transportId, "LOAD", sessionId)
  /\ UNCHANGED <<ids, connected, attach, ending, link, outbox, inbox,
                 receiver>>

(* mediaCommand takes an id even when there is no media session to command. *)
MediaCommand(f) ==
  /\ Free(f)
  /\ transportId # None
  /\ IF mediaSessionId = None
     THEN /\ requestId <= MaxRequests
          /\ requestId' = NextRequestId
          /\ UNCHANGED call
     ELSE Issue(f, transportId, "COMMAND", mediaSessionId)
  /\ UNCHANGED <<ids, connected, attach, ending, link, outbox, inbox,
                 receiver>>

SetVolume(f) ==
  /\ Free(f)
  /\ Issue(f, Receiver, "SET_VOLUME", None)
  /\ UNCHANGED <<ids, connected, attach, ending, link, outbox, inbox,
                 receiver>>

(* stopReceiver has nothing to stop before a session id is known. *)
StopReceiver(f) ==
  /\ Free(f)
  /\ IF sessionId = None
     THEN /\ requestId <= MaxRequests
          /\ requestId' = NextRequestId
          /\ UNCHANGED call
     ELSE Issue(f, Receiver, "STOP", sessionId)
  /\ UNCHANGED <<ids, connected, attach, ending, link, outbox, inbox,
                 receiver>>

-----------------------------------------------------------------------------
(* The pump: one message at a time, and the two ways its stream can end.   *)

(* Option.orElse(reported, () => current): an id is replaced, never lost. *)
Known(reported, current) == IF reported = None THEN current ELSE reported

(* As TransportAfter, had the first transport seen been kept. *)
TransportAfter_KeepsFirst(m) ==
  IF m.type = "RECEIVER_STATUS" THEN Known(transportId, m.of) ELSE transportId

(* onReceiverStatus and onMediaStatus. *)
TransportAfter(m) ==
  IF m.type = "RECEIVER_STATUS" THEN Known(m.of, transportId) ELSE transportId
SessionAfter(m) ==
  IF m.type = "RECEIVER_STATUS" THEN Known(m.of, sessionId) ELSE sessionId
MediaSessionAfter(m) ==
  IF m.type = "MEDIA_STATUS"
  THEN Known(m.of, mediaSessionId) ELSE mediaSessionId

Route ==
  /\ pump = "running"
  /\ inbox # <<>>
  /\ inbox' = Tail(inbox)
  /\ transportId' = TransportAfter(Head(inbox))
  /\ sessionId' = SessionAfter(Head(inbox))
  /\ mediaSessionId' = MediaSessionAfter(Head(inbox))
  /\ outbox' = IF Head(inbox).type = "PING"
               THEN Sent([to |-> Receiver, type |-> "PONG"]) ELSE outbox
  /\ UNCHANGED <<requestId, connected, attach, call, ending, link, receiver>>

(* Queue.end on a clean close: the stream completes and runDrain with it. *)
PumpEnds ==
  /\ pump = "running"
  /\ link = "closed"
  /\ inbox = <<>>
  /\ pump' = "ended"
  /\ UNCHANGED <<sender, lost, reader, link, outbox, inbox, receiver>>

(* As PumpFails, had the failure been forgotten with the fiber. *)
PumpFails_Unheard ==
  /\ pump = "running"
  /\ link # "closed"
  /\ inbox = <<>>
  /\ pump' = "failed"
  /\ UNCHANGED <<sender, lost, reader, link, outbox, inbox, receiver>>

(* Queue.failCause on a socket error, and the silence limit: catchCause    *)
(* fails the Deferred.  The limit can also be met by a slow network.       *)
PumpFails ==
  /\ pump = "running"
  /\ link # "closed"
  /\ inbox = <<>>
  /\ pump' = "failed"
  /\ lost' = TRUE
  /\ UNCHANGED <<sender, reader, link, outbox, inbox, receiver>>

(* The statuses stream, merged with the Deferred. *)
Watch ==
  /\ reader = "absent"
  /\ reader' = "watching"
  /\ UNCHANGED <<sender, pump, lost, link, outbox, inbox, receiver>>

ReaderTold ==
  /\ reader = "watching"
  /\ lost
  /\ reader' = "told"
  /\ UNCHANGED <<sender, pump, lost, link, outbox, inbox, receiver>>

-----------------------------------------------------------------------------
(* The receiver.  It drops what is addressed to a destination it has had   *)
(* no CONNECT for, and what is addressed to an application that has gone.  *)

ReceiverStatus(a) == [type |-> "RECEIVER_STATUS", of |-> a]
MediaStatus(a) == [type |-> "MEDIA_STATUS", of |-> a]

HearConnect ==
  /\ link = "open"
  /\ outbox # <<>>
  /\ Head(outbox).type = "CONNECT"
  /\ joined' = joined \cup {Head(outbox).to}
  /\ outbox' = Tail(outbox)
  /\ UNCHANGED <<sender, ending, link, inbox, app, usedApps, playing, heard,
                 ignored, pings>>

HearPong ==
  /\ link = "open"
  /\ outbox # <<>>
  /\ Head(outbox).type = "PONG"
  /\ outbox' = Tail(outbox)
  /\ UNCHANGED <<sender, ending, link, inbox, receiver>>

Hear(m) ==
  /\ link = "open"
  /\ outbox # <<>>
  /\ m = Head(outbox)
  /\ m.type \notin {"CONNECT", "PONG"}
  /\ outbox' = Tail(outbox)
  /\ heard' = Append(heard, m)

HearUnconnected ==
  \E m \in {outbox[i] : i \in DOMAIN outbox} :
    /\ Hear(m)
    /\ m.to \notin joined
    /\ ignored' = ignored \cup {m}
    /\ UNCHANGED <<sender, ending, link, inbox, app, usedApps, playing,
                   joined, pings>>

HearStale ==
  \E m \in {outbox[i] : i \in DOMAIN outbox} :
    /\ Hear(m)
    /\ m.to \in joined \ {Receiver, app}
    /\ UNCHANGED <<sender, ending, link, inbox, app, usedApps, playing,
                   joined, ignored, pings>>

(* LAUNCH starts the application if it is not running. *)
HearLaunch ==
  \E m \in {outbox[i] : i \in DOMAIN outbox} :
    /\ Hear(m)
    /\ m.to = Receiver /\ Receiver \in joined
    /\ m.type = "LAUNCH"
    /\ app' \in IF app = None /\ Apps \ usedApps # {}
                THEN Apps \ usedApps ELSE {app}
    /\ usedApps' = usedApps \cup ({app'} \ {None})
    /\ playing' = (playing /\ app' = app)
    /\ inbox' = Append(inbox, ReceiverStatus(app'))
    /\ UNCHANGED <<sender, ending, link, joined, ignored, pings>>

HearReceiverRequest ==
  \E m \in {outbox[i] : i \in DOMAIN outbox} :
    /\ Hear(m)
    /\ m.to = Receiver /\ Receiver \in joined
    /\ m.type \in {"GET_STATUS", "SET_VOLUME", "STOP"}
    /\ app' = IF m.type = "STOP" /\ m.of = app THEN None ELSE app
    /\ playing' = (playing /\ app' = app)
    /\ inbox' = Append(inbox, ReceiverStatus(app'))
    /\ UNCHANGED <<sender, ending, link, usedApps, joined, ignored, pings>>

(* LOAD is played or refused; any media request is answered with a status. *)
HearMedia ==
  \E m \in {outbox[i] : i \in DOMAIN outbox} :
    /\ Hear(m)
    /\ m.to = app /\ app \in joined
    /\ \/ /\ m.type = "LOAD"
          /\ playing' = FALSE
          /\ inbox' = Append(inbox, [type |-> "LOAD_FAILED"])
       \/ /\ playing' = (playing \/ m.type = "LOAD")
          /\ inbox' = Append(inbox,
                            MediaStatus(IF playing' THEN app ELSE None))
    /\ UNCHANGED <<sender, ending, link, app, usedApps, joined, ignored,
                   pings>>

Ping ==
  /\ link = "open"
  /\ pings < MaxPings
  /\ pings' = pings + 1
  /\ inbox' = Append(inbox, [type |-> "PING"])
  /\ UNCHANGED <<sender, ending, link, outbox, app, usedApps, playing, joined,
                 heard, ignored>>

(* Another sender stops the application or launches a fresh one; every     *)
(* connected sender is told.                                               *)
AppReplaced ==
  /\ link = "open"
  /\ app # None
  /\ app' \in Option(Apps \ usedApps)
  /\ usedApps' = usedApps \cup ({app'} \ {None})
  /\ playing' = FALSE
  /\ inbox' = Append(inbox, ReceiverStatus(app'))
  /\ UNCHANGED <<sender, ending, link, outbox, joined, heard, ignored, pings>>

(* The connection ends: closed by the device, reset, or silent because the *)
(* device has been switched off.                                           *)
LinkEnds ==
  /\ link = "open"
  /\ link' \in {"closed", "reset", "silent"}
  /\ UNCHANGED <<sender, ending, outbox, inbox, receiver>>

-----------------------------------------------------------------------------
Sender ==
  \/ Launch \/ Join \/ LaunchReady \/ JoinReady \/ AttachTimesOut
  \/ \E f \in Fibers : \/ Write(f) \/ Load(f) \/ MediaCommand(f)
                       \/ SetVolume(f) \/ StopReceiver(f)
Pump == Route \/ PumpEnds \/ PumpFails
Reader == Watch \/ ReaderTold
Device ==
  \/ HearConnect \/ HearPong \/ HearUnconnected \/ HearStale \/ HearLaunch
  \/ HearReceiverRequest \/ HearMedia \/ Ping \/ AppReplaced \/ LinkEnds

Next == Sender \/ Pump \/ Reader \/ Device

Spec == Init /\ [][Next]_vars
-----------------------------------------------------------------------------
(* Properties.                                                             *)

(* No two requests the receiver reads carry the same id, whichever fibers  *)
(* issued them and in whatever order their writes completed                *)
(* (Session.ts nextRequestId).                                             *)
NoIdTwice ==
  \A i, j \in DOMAIN heard : i # j => heard[i].id # heard[j].id

(* A destination the sender believes it has opened is one the receiver     *)
(* will listen to: nothing addressed to it is dropped for want of a        *)
(* CONNECT, whatever else was on the wire (Session.ts openConnection).     *)
OpenedIsHeard == \A m \in ignored : m.to \notin connected

(* A request to an opened application names that application's session     *)
(* and media session, even when another application has replaced it since  *)
(* (Session.ts load, mediaCommand, against onReceiverStatus,               *)
(* onMediaStatus).                                                         *)
OneApplication ==
  \A i \in DOMAIN heard :
    heard[i].to \in connected \cap Apps => heard[i].of \in {None, heard[i].to}

(* The comment on openConnection: a connection is opened because "the      *)
(* receiver ignores you otherwise", so no request should be dropped for    *)
(* want of one.                                                            *)
NothingIgnored == ignored = {}

(* Fairness: the runtime keeps running the fibers that can run, and the    *)
(* silence limit is a timer, which fires on a connection that has died.    *)
Fairness ==
  /\ WF_vars(Route)
  /\ WF_vars(PumpEnds)
  /\ WF_vars(link # "open" /\ PumpFails)
  /\ WF_vars(ReaderTold)

FairSpec == Spec /\ Fairness

(* A consumer of statuses learns that the device has gone when the         *)
(* connection is reset or the device falls silent (Session.ts lost).       *)
DeathReported ==
  (reader = "watching" /\ link \in {"reset", "silent"}) ~> (reader = "told")

(* The same of a connection the device closes, which is what "so a caller  *)
(* reading statuses finds out that the device has gone" says.              *)
CloseReported == (reader = "watching" /\ link = "closed") ~> (reader = "told")
=============================================================================
