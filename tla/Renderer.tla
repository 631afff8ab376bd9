------------------------------ MODULE Renderer ------------------------------
(***************************************************************************)
(* The control point of packages/dlna/src/Renderer.ts: one POST per        *)
(* action, sent again twice when the connection fails and never when it is *)
(* silent or refused.  The five seconds and the retries are those of       *)
(* client.execute, which is over with the headers of the answer: its body, *)
(* response.text, may take for ever and is not asked for again.            *)
(*                                                                         *)
(* A connection that fails may have failed before the device read the      *)
(* request or after: then the device carries out a copy whose answer       *)
(* nobody will read.                                                       *)
(***************************************************************************)
EXTENDS DlnaDevice

CONSTANTS
  Idle,       \* a client with no request out
  Retries,    \* Schedule.upTo({ times: 2 })
  MaxBroken   \* bound: connections that fail

VARIABLES
  call,       \* call[c]: the request c has out
  broken      \* connections that have failed so far

client == <<call, broken>>

Failure == [failed |-> TRUE]

(* What a client may be told, and a request that it has out. *)
Replies == [state : {"PLAYING", "PAUSED_PLAYBACK", "STOPPED", "unreported"}]
             \cup [at : -1 .. Length] \cup [level : 0 .. 100]
             \cup [ok : {TRUE}] \cup {Fault, Failure}

(* An answer of which only the headers have come. *)
Headed(reply) == [headed |-> reply]
Responses == Replies \cup [headed : Replies]

Calls == [action : Inputs, left : 0 .. Retries,
          reply : Responses \cup {Waiting}]

ASSUME RendererAssumption ==
  /\ Length \in Nat /\ Levels \subseteq Int
  /\ Retries \in Nat /\ MaxBroken \in Nat
  /\ Waiting \notin Responses /\ Idle \notin Calls /\ NoUri # "film"

RendererTypeOK ==
  /\ DeviceTypeOK
  /\ call \in [Clients -> Calls \cup {Idle}]
  /\ broken \in 0 .. MaxBroken

(* The actions of each service, as generated from its description. *)
AVTransport == {"SetAVTransportURI", "SetNextAVTransportURI", "GetMediaInfo",
                "GetTransportInfo", "GetPositionInfo", "GetDeviceCapabilities",
                "GetTransportSettings", "Stop", "Play", "Pause", "Seek", "Next",
                "Previous", "SetPlayMode", "GetCurrentTransportActions"}
RenderingControl == {"ListPresets", "SelectPreset", "GetMute", "SetMute",
                     "GetVolume", "SetVolume"}

(* A request goes to the control URL of the service of its action. *)
Posted(c, action) ==
  [by |-> c, open |-> TRUE, action |-> action,
   service |-> IF action.name \in AVTransport THEN "AVTransport"
                                              ELSE "RenderingControl"]

RendererInit == call = [c \in Clients |-> Idle] /\ broken = 0

(* `invoke`, as far as the request leaves. *)
Invoke(c, action) ==
  /\ call[c] = Idle
  /\ call' = [call EXCEPT ![c] = [action |-> action, left |-> Retries,
                                  reply |-> Waiting]]
  /\ requests' = Queued(Posted(c, action))

(* Nobody will read the answer to what c has sent. *)
Closed(queue, c) ==
  [i \in 1 .. Len(queue) |->
     [queue[i] EXCEPT !.open = @ /\ queue[i].by # c]]

(* The queue without its i-th request. *)
Without(queue, i) ==
  [j \in 1 .. Len(queue) - 1 |-> IF j < i THEN queue[j] ELSE queue[j + 1]]

(* The answer comes at once, or no further than its headers. *)
Answers(reply) ==
  /\ requests # <<>> /\ awake
  /\ requests' = Tail(requests)
  /\ \E come \in {reply, Headed(reply)} :
       call' = IF Head(requests).open
               THEN [call EXCEPT ![Head(requests).by].reply = come]
               ELSE call
  /\ UNCHANGED broken

(* The device serves the oldest request ...                                *)
Serve ==
  /\ Answers(Reply(Head(requests)))
  /\ Served(Head(requests))
  /\ UNCHANGED <<fetched, omits, awake>>

(* ... or a real one declines it (external).                               *)
Declines ==
  /\ Answers(Fault)
  /\ UNCHANGED <<loaded, transport, position, volume, pulls, fetched, omits,
                 awake>>

(* Effect.retry: `while: (cause) => !Cause.isTimeoutError(cause)`, and it  *)
(* is of the sending only. *)
MayRetry(final, left) == left > 0 /\ ~final

(* The attempt is over without an answer: another, or a failure. *)
GivenUp(c, final, queue) ==
  IF MayRetry(final, call[c].left)
  THEN /\ call' = [call EXCEPT ![c].left = @ - 1, ![c].reply = Waiting]
       /\ requests' = Append(queue, Posted(c, call[c].action))
  ELSE /\ call' = [call EXCEPT ![c].reply = Failure]
       /\ requests' = queue

(* Whether the body of an answer is being read. *)
Reading(c) == call[c] # Idle /\ call[c].reply \in [headed : Replies]

(* response.text: the rest of the answer has come. *)
BodyComes(c) ==
  /\ Reading(c)
  /\ call' = [call EXCEPT ![c].reply = @.headed]
  /\ UNCHANGED <<requests, broken, loaded, transport, position, volume, pulls,
                 fetched, omits, awake>>

(* The connection fails: before the request was read, or after, or after   *)
(* it was answered; or while the body is read, which is not asked for      *)
(* again.                                                                  *)
Breaks(c) ==
  /\ call[c] # Idle /\ call[c].reply # Failure
  /\ broken < MaxBroken
  /\ broken' = broken + 1
  /\ \/ \E i \in DOMAIN requests :
          /\ requests[i].by = c /\ requests[i].open
          /\ GivenUp(c, FALSE, Without(requests, i))
     \/ GivenUp(c, Reading(c), Closed(requests, c))
  /\ UNCHANGED <<loaded, transport, position, volume, pulls, fetched, omits,
                 awake>>

(* As Expires, had there been no limit but that of TCP. *)
Expires_Never(c) == FALSE

(* Before the headers have come. *)
Expires(c) == call[c] # Idle /\ call[c].reply = Waiting

(* Effect.timeout(REQUEST_TIMEOUT): what was sent stays with the device. *)
TimesOut(c) ==
  /\ Expires(c)
  /\ GivenUp(c, TRUE, Closed(requests, c))
  /\ UNCHANGED <<broken, loaded, transport, position, volume, pulls, fetched,
                 omits, awake>>

(* What the caller is told: outputs, or a CastProtocolError.               *)
Returned(c) == call[c] # Idle /\ call[c].reply \in Replies
Refused(reply) == reply = Fault
Succeeded(c) ==
  Returned(c) /\ ~Refused(call[c].reply) /\ call[c].reply # Failure
Done(c) == call' = [call EXCEPT ![c] = Idle]

(* PLAYBACK_STATE and asPlaybackState. *)
PlaybackState(state) ==
  CASE state = "PLAYING" -> "PLAYING"
    [] state = "PAUSED_PLAYBACK" -> "PAUSED"
    [] state \in {"STOPPED", "NO_MEDIA_PRESENT"} -> "STOPPED"
    [] OTHER -> "TRANSITIONING"
=============================================================================
