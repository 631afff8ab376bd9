--------------------------- MODULE DlnaPlayProofs ---------------------------
(***************************************************************************)
(* Proofs about DlnaPlay, for any clients, retries, lost connections and   *)
(* films: its types, that an answer is the last word of its client, that   *)
(* only a film that plays is moved, and that no position is made up.       *)
(***************************************************************************)
EXTENDS DlnaPlay, SequenceTheorems, TLAPS

USE RendererAssumption, DlnaPlayAssumption

(* What a client still reads is its newest request, and it waits for it. *)
NewestOpen ==
  \A i \in DOMAIN requests : requests[i].open =>
    /\ call[requests[i].by] # Idle
    /\ call[requests[i].by].reply = Waiting
    /\ call[requests[i].by].action = requests[i].action
    /\ \A j \in DOMAIN requests : j > i => requests[j].by # requests[i].by

(* Every request is at the service of its action. *)
Routed == \A i \in DOMAIN requests : Known(requests[i])

(* What c has been answered with, once the headers of it have come. *)
Whole(r) == IF r \in [headed : Replies] THEN r.headed ELSE r
Answer(c) == Whole(call[c].reply)
Answered(c) == call[c] # Idle /\ Answer(c) \in Replies \ {Fault, Failure}

(* LastWord already holds when the headers come. *)
Last ==
  \A c \in Clients : Answered(c) =>
    \A i \in DOMAIN requests : requests[i].by # c

Queue == RendererTypeOK /\ NewestOpen /\ Routed /\ Last

Loaded == loaded = "film"
Playing == Loaded /\ (pulls > 0 \/ fetched # {})

(* The player has out what its place in playOnRenderer sends. *)
Outstanding ==
  call[Player] # Idle =>
    /\ at \in {"load", "play", "seek", "state", "position"}
    /\ call[Player].action = Request

(* What the answers it gets mean. *)
Meant ==
  Answered(Player) =>
    /\ at = "load" => Loaded
    /\ at = "play" => Playing
    /\ at = "position" => Answer(Player).at \in {-1} \cup been

(* How far it has got. *)
Progress ==
  /\ at \notin {"load", "failed"} => Loaded
  /\ at \notin {"load", "play", "failed"} => Playing

(* A device that tells has been where it is. *)
Visited == Loaded /\ "RelTime" \notin omits => position \in been

(* Only what was loaded is fetched. *)
Fetchable == pulls > 0 => Loaded

Ind ==
  /\ TypeOK
  /\ Fetchable
  /\ Queue
  /\ Outstanding
  /\ Meant
  /\ Progress
  /\ SeeksWhatPlays
  /\ Visited
  /\ NeverFabricated

-----------------------------------------------------------------------------

LEMMA MinMax ==
  ASSUME NEW a \in Int, NEW b \in Int
  PROVE  /\ Min({a, b}) = IF a <= b THEN a ELSE b
         /\ Max({a, b}) = IF a <= b THEN b ELSE a
BY DEF Min, Max

LEMMA ClampedType ==
  ASSUME NEW l \in Int
  PROVE  Clamped(l) \in 0 .. 100
<1>1. Max({0, l}) = IF 0 <= l THEN l ELSE 0
  <2>1. 0 \in Int
    OBVIOUS
  <2> QED BY <2>1, MinMax, Zenon
<1>2. Max({0, l}) \in Int
  BY <1>1
<1>3. Min({100, Max({0, l})}) = IF 100 <= Max({0, l}) THEN 100 ELSE Max({0, l})
  <2>1. 100 \in Int
    OBVIOUS
  <2> QED BY <2>1, <1>2, MinMax, Zenon
<1> QED BY <1>1, <1>3 DEF Clamped

(* An action and its parts. *)
LEMMA InputParts ==
  ASSUME NEW a \in Inputs
  PROVE  /\ a.name \in Handled("AVTransport") \cup Handled("RenderingControl")
         /\ a.name = "SetAVTransportURI" => a.uri = "film"
         /\ a.name = "Seek" => a.target \in 0 .. Length
         /\ a.name = "SetVolume" => a.level \in Int
<1>1. CASE a \in [name : {"SetAVTransportURI"}, uri : {"film"}]
  BY <1>1 DEF Handled
<1>2. CASE a \in [name : {"Seek"}, target : 0 .. Length]
  BY <1>2 DEF Handled
<1>3. CASE a \in [name : {"SetVolume"}, level : Levels]
  BY <1>3 DEF Handled
<1>4. CASE a \in [name : {"Play", "Pause", "Stop", "GetVolume",
                          "GetTransportInfo", "GetPositionInfo"}]
  BY <1>4 DEF Handled
<1> QED BY <1>1, <1>2, <1>3, <1>4 DEF Inputs

(* What a client posts reaches a handler. *)
LEMMA PostedKnown ==
  ASSUME NEW c \in Clients, NEW a \in Inputs
  PROVE  /\ Posted(c, a) \in Requests
         /\ Known(Posted(c, a))
         /\ Posted(c, a).by = c /\ Posted(c, a).action = a /\ Posted(c, a).open
<1>1. a.name \in Handled("AVTransport") \cup Handled("RenderingControl")
  BY InputParts
<1>2. Handled("AVTransport") \subseteq AVTransport
  BY DEF Handled, AVTransport
<1>3. Handled("RenderingControl") \cap AVTransport = {}
  BY DEF Handled, AVTransport
<1>4. CASE a.name \in AVTransport
  BY <1>1, <1>3, <1>4 DEF Posted, Requests, Services, Known
<1>5. CASE a.name \notin AVTransport
  BY <1>1, <1>2, <1>5 DEF Posted, Requests, Services, Known
<1> QED BY <1>4, <1>5

(* Outputs are told from a fault and from a failure. *)
LEMMA OutputsAnswer ==
  /\ \A x : [state |-> x] \notin {Fault, Failure}
  /\ \A x : [at |-> x] \notin {Fault, Failure}
  /\ \A x : [level |-> x] \notin {Fault, Failure}
  /\ \A x : [ok |-> x] \notin {Fault, Failure}
<1>1. DOMAIN Fault = {"fault"} /\ DOMAIN Failure = {"failed"}
  BY DEF Fault, Failure
<1>2. \A x : /\ DOMAIN [state |-> x] = {"state"} /\ DOMAIN [at |-> x] = {"at"}
            /\ DOMAIN [level |-> x] = {"level"} /\ DOMAIN [ok |-> x] = {"ok"}
  OBVIOUS
<1> QED BY <1>1, <1>2

(* A reply is told from the headers of one. *)
LEMMA HeadedIsNoReply ==
  ASSUME NEW r
  PROVE  Headed(r) \notin Replies /\ Headed(r).headed = r
<1>1. DOMAIN Headed(r) = {"headed"} /\ Headed(r).headed = r
  BY DEF Headed
<1>2. ASSUME NEW x \in Replies PROVE DOMAIN x # {"headed"}
  <2>1. CASE x \in [state : {"PLAYING", "PAUSED_PLAYBACK", "STOPPED", "unreported"}]
    BY <2>1
  <2>2. CASE x \in [at : -1 .. Length]
    BY <2>2
  <2>3. CASE x \in [level : 0 .. 100]
    BY <2>3
  <2>4. CASE x \in [ok : {TRUE}]
    BY <2>4
  <2>5. CASE x \in {Fault, Failure}
    BY <2>5 DEF Fault, Failure
  <2> QED BY <2>1, <2>2, <2>3, <2>4, <2>5 DEF Replies
<1> QED BY <1>1, <1>2

(* The answer that headers, or the whole of it, tell. *)
LEMMA WholeParts ==
  /\ \A r \in Replies : Whole(r) = r /\ Whole(Headed(r)) = r
  /\ \A r \in Replies : Headed(r) # Waiting /\ r # Waiting
  /\ Whole(Waiting) = Waiting /\ Waiting \notin Replies
  /\ Fault \in Replies /\ Failure \in Replies
  /\ Whole(Fault) = Fault /\ Whole(Failure) = Failure
<1>1. \A r : Headed(r) \notin Replies /\ Headed(r).headed = r
  BY HeadedIsNoReply
<1>2. \A x \in [headed : Replies] : x = Headed(x.headed)
  BY DEF Headed
<1>3. \A r \in Replies : Headed(r) \in [headed : Replies]
  BY DEF Headed
<1>4. \A r \in Replies : Whole(r) = r /\ Whole(Headed(r)) = r
  BY <1>1, <1>2, <1>3 DEF Whole
<1>5. Whole(Waiting) = Waiting /\ Waiting \notin Replies
  BY DEF Whole, Responses
<1>6. Fault \in Replies /\ Failure \in Replies
  BY DEF Replies
<1> QED BY <1>3, <1>4, <1>5, <1>6 DEF Responses

LEMMA ReplyType ==
  ASSUME DeviceTypeOK, NEW r \in Requests, Known(r)
  PROVE  /\ Reply(r) \in Replies /\ Reply(r) # Fault /\ Reply(r) # Failure
         /\ Reply(r) # Waiting
         /\ r.action.name = "GetPositionInfo" =>
              Reply(r).at = IF "RelTime" \in omits THEN -1 ELSE position
<1>1. Reply(r) = Output(r.action)
  BY DEF Reply
<1>2. Output(r.action) \in Replies \ {Fault, Failure}
  <2>1. CASE r.action.name = "GetTransportInfo"
    <3>1. PICK s \in {"PLAYING", "PAUSED_PLAYBACK", "STOPPED", "unreported"} :
                Output(r.action) = [state |-> s]
      BY <2>1 DEF Output, DeviceTypeOK
    <3>2. [state |-> s] \in Replies
      BY DEF Replies
    <3> QED BY <3>1, <3>2, OutputsAnswer
  <2>2. CASE r.action.name = "GetPositionInfo"
    <3> DEFINE p == IF "RelTime" \in omits THEN -1 ELSE position
    <3>1. Output(r.action) = [at |-> p]
      BY <2>2 DEF Output
    <3>2. p \in -1 .. Length
      BY DEF DeviceTypeOK
    <3> HIDE DEF p
    <3>3. [at |-> p] \in Replies
      BY <3>2 DEF Replies
    <3> QED BY <3>1, <3>3, OutputsAnswer
  <2>3. CASE r.action.name = "GetVolume"
    <3>1. Output(r.action) = [level |-> volume] /\ volume \in 0 .. 100
      BY <2>3 DEF Output, DeviceTypeOK
    <3>2. [level |-> volume] \in Replies
      BY <3>1 DEF Replies
    <3> QED BY <3>1, <3>2, OutputsAnswer
  <2>4. CASE r.action.name \notin {"GetTransportInfo", "GetPositionInfo", "GetVolume"}
    <3>1. Output(r.action) = [ok |-> TRUE]
      BY <2>4 DEF Output
    <3>2. [ok |-> TRUE] \in Replies
      BY DEF Replies
    <3> QED BY <3>1, <3>2, OutputsAnswer
  <2> QED BY <2>1, <2>2, <2>3, <2>4
<1>3. r.action.name = "GetPositionInfo" =>
        Output(r.action).at = IF "RelTime" \in omits THEN -1 ELSE position
  BY DEF Output
<1> QED BY <1>1, <1>2, <1>3, WholeParts

(* What carrying out a request does to the device. *)
LEMMA ServedDoes ==
  ASSUME DeviceTypeOK, NEW r \in Requests, Known(r), Served(r)
  PROVE  /\ loaded' \in {"film", NoUri} /\ (Loaded => Loaded')
         /\ transport' \in {"PLAYING", "PAUSED_PLAYBACK", "STOPPED"}
         /\ position' \in 0 .. Length /\ volume' \in 0 .. 100
         /\ pulls' \in Nat /\ pulls' >= pulls
         /\ r.action.name = "SetAVTransportURI" => Loaded'
         /\ r.action.name = "Play" /\ Loaded => pulls' > 0
         /\ r.action.name = "GetPositionInfo" => position' = position
         /\ Fetchable => Fetchable'
<1>1. Carried(r.action) /\ r.action \in Inputs
  BY DEF Served, Requests
<1>2. /\ r.action.name = "SetAVTransportURI" => r.action.uri = "film"
      /\ r.action.name = "Seek" => r.action.target \in 0 .. Length
      /\ r.action.name = "SetVolume" => r.action.level \in Int
  BY <1>1, InputParts
<1>3. loaded' \in {"film", NoUri} /\ (Loaded => Loaded')
      /\ (r.action.name = "SetAVTransportURI" => Loaded')
  BY <1>1, <1>2 DEF Carried, DeviceTypeOK, Loaded
<1>4. transport' \in {"PLAYING", "PAUSED_PLAYBACK", "STOPPED"}
  BY <1>1 DEF Carried, DeviceTypeOK
<1>5. position' \in 0 .. Length /\ (r.action.name = "GetPositionInfo" => position' = position)
  BY <1>1, <1>2 DEF Carried, DeviceTypeOK
<1>6. volume' \in 0 .. 100
  <2>1. CASE r.action.name = "SetVolume"
    BY <1>1, <1>2, <2>1, ClampedType DEF Carried
  <2>2. CASE r.action.name # "SetVolume"
    BY <1>1, <2>2 DEF Carried, DeviceTypeOK
  <2> QED BY <2>1, <2>2
<1>7. /\ pulls' \in Nat /\ pulls' >= pulls
      /\ r.action.name = "Play" /\ Loaded => pulls' > 0
      /\ Fetchable => Fetchable'
  BY <1>1, <1>3 DEF Carried, DeviceTypeOK, Loaded, Fetchable
<1> QED BY <1>3, <1>4, <1>5, <1>6, <1>7

-----------------------------------------------------------------------------

(* A queue q whose requests are, in order, requests of the old one (the    *)
(* i-th its f[i]-th), none of c open.                                      *)
Thinned(q, f, c) ==
  /\ q \in Seq(Requests) /\ f \in [DOMAIN q -> DOMAIN requests]
  /\ \A i, j \in DOMAIN q : i < j => f[i] < f[j]
  /\ \A i \in DOMAIN q :
       /\ q[i].by = requests[f[i]].by /\ q[i].action = requests[f[i]].action
       /\ q[i].service = requests[f[i]].service
       /\ q[i].open => requests[f[i]].open /\ q[i].by # c

(* What a request that is given up, or sent, leaves true. *)
Told(c) ==
  /\ \A d \in Clients \ {c} : call'[d] = call[d]
  /\ ~Answered(c)'
  /\ call'[c] # Idle /\ call'[c].action = call[c].action
  /\ \A i \in DOMAIN requests' :
       \/ \E j \in DOMAIN requests : /\ requests'[i].by = requests[j].by
                                     /\ requests'[i].action = requests[j].action
       \/ requests'[i].by = c /\ requests'[i].action = call[c].action

LEMMA CallParts ==
  ASSUME RendererTypeOK, NEW c \in Clients, call[c] # Idle
  PROVE  /\ call[c] \in Calls
         /\ call[c].action \in Inputs /\ call[c].left \in 0 .. Retries
         /\ call[c].reply \in Responses \cup {Waiting}
         /\ call[c].left \in Nat
BY DEF RendererTypeOK, Calls

LEMMA RequestParts ==
  ASSUME Queue
  PROVE  /\ requests \in Seq(Requests) /\ Len(requests) \in Nat
         /\ DOMAIN requests = 1 .. Len(requests)
         /\ \A i \in DOMAIN requests :
              /\ requests[i] \in Requests /\ requests[i].by \in Clients
              /\ requests[i].action \in Inputs
<1>1. requests \in Seq(Requests)
  BY DEF Queue, RendererTypeOK, DeviceTypeOK
<1>2. \A i \in 1 .. Len(requests) : requests[i] \in Requests
  BY <1>1, ElementOfSeq
<1> QED BY <1>1, <1>2, LenProperties DEF Requests

LEMMA GivenUpInd ==
  ASSUME Queue, NEW c \in Clients, call[c] # Idle, NEW silent \in BOOLEAN,
         NEW q, NEW f, Thinned(q, f, c), GivenUp(c, silent, q),
         UNCHANGED <<loaded, transport, position, volume, pulls, fetched, omits, awake>>,
         broken' \in 0 .. MaxBroken
  PROVE  Queue' /\ Told(c)
<1> DEFINE new == Posted(c, call[c].action)
<1>1. /\ call[c] \in Calls /\ call[c].action \in Inputs
      /\ call \in [Clients -> Calls \cup {Idle}]
  BY CallParts DEF Queue, RendererTypeOK
<1>2. new \in Requests /\ Known(new) /\ new.by = c /\ new.open
      /\ new.action = call[c].action
  BY <1>1, PostedKnown
<1> HIDE DEF new
<1>3. \A i \in DOMAIN q : Known(q[i])
  BY DEF Queue, Routed, Known, Thinned
<1>4. \A i \in DOMAIN q : q[i].open =>
        /\ q[i].by # c
        /\ call[q[i].by] # Idle /\ call[q[i].by].reply = Waiting
        /\ call[q[i].by].action = q[i].action
        /\ \A j \in DOMAIN q : j > i => q[j].by # q[i].by
  BY DEF Queue, NewestOpen, Thinned
<1>5. \A d \in Clients \ {c} : Answered(d) => \A i \in DOMAIN q : q[i].by # d
  BY DEF Queue, Last, Thinned
<1>6. q \in Seq(Requests)
  BY DEF Thinned
<1>9. \A i \in DOMAIN q : q[i].by \in Clients
  <2>1. \A i \in 1 .. Len(q) : q[i] \in Requests
    BY <1>6, ElementOfSeq
  <2> QED BY <2>1, <1>6, LenProperties DEF Requests
<1>7. CASE MayRetry(silent, call[c].left)
  <2>1. /\ call' = [call EXCEPT ![c].left = @ - 1, ![c].reply = Waiting]
        /\ requests' = Append(q, new)
    BY <1>7 DEF GivenUp, new
  <2>2. call[c].left - 1 \in 0 .. Retries
    BY <1>1, <1>7 DEF MayRetry, Calls
  <2>3. /\ call'[c] \in Calls /\ call'[c] # Idle /\ call'[c].reply = Waiting
        /\ call'[c].action = call[c].action
        /\ \A d \in Clients \ {c} : call'[d] = call[d]
        /\ call' \in [Clients -> Calls \cup {Idle}]
    BY <1>1, <2>1, <2>2 DEF Calls
  <2>4. /\ requests' \in Seq(Requests) /\ Len(requests') = Len(q) + 1
        /\ DOMAIN requests' = 1 .. Len(q) + 1 /\ DOMAIN q = 1 .. Len(q)
        /\ \A i \in DOMAIN q : requests'[i] = q[i]
        /\ requests'[Len(q) + 1] = new /\ Len(q) \in Nat
    BY <2>1, <1>2, <1>6, AppendProperties, LenProperties
  <2>5. NewestOpen'
    <3>1. \A i \in DOMAIN q : q[i].open => call'[q[i].by] = call[q[i].by]
      BY <2>3, <1>4, <1>9
    <3>2. \A i \in DOMAIN q : q[i].open =>
            /\ call'[q[i].by] # Idle /\ call'[q[i].by].reply = Waiting
            /\ call'[q[i].by].action = q[i].action
            /\ q[i].by # c
            /\ \A j \in DOMAIN q : j > i => q[j].by # q[i].by
      BY <1>4, <3>1
    <3>3. ASSUME NEW i \in DOMAIN requests', requests'[i].open
          PROVE  /\ call'[requests'[i].by] # Idle
                 /\ call'[requests'[i].by].reply = Waiting
                 /\ call'[requests'[i].by].action = requests'[i].action
                 /\ \A j \in DOMAIN requests' :
                      j > i => requests'[j].by # requests'[i].by
      <4>1. CASE i \in DOMAIN q
        BY <2>4, <3>2, <3>3, <4>1, <1>2
      <4>2. CASE i = Len(q) + 1
        BY <2>3, <2>4, <4>2, <1>2
      <4> QED BY <2>4, <4>1, <4>2
    <3> QED BY <3>3 DEF NewestOpen
  <2>6. Routed'
    BY <2>4, <1>2, <1>3 DEF Routed, Known
  <2>7. ~Answered(c)'
    BY <2>3, WholeParts DEF Answered, Answer
  <2>8. Last'
    BY <2>3, <2>4, <2>7, <1>2, <1>5 DEF Last, Answered, Answer
  <2>9. \A i \in DOMAIN requests' :
          \/ \E j \in DOMAIN requests : /\ requests'[i].by = requests[j].by
                                        /\ requests'[i].action = requests[j].action
          \/ requests'[i].by = c /\ requests'[i].action = call[c].action
    BY <2>4, <1>2 DEF Thinned
  <2>10. RendererTypeOK'
    BY <2>3, <2>4 DEF Queue, RendererTypeOK, DeviceTypeOK
  <2> QED BY <2>3, <2>5, <2>6, <2>7, <2>8, <2>9, <2>10 DEF Queue, Told
<1>8. CASE ~MayRetry(silent, call[c].left)
  <2>1. /\ call' = [call EXCEPT ![c].reply = Failure]
        /\ requests' = q
    BY <1>8 DEF GivenUp
  <2>2. Failure \in Replies
    BY DEF Replies
  <2>3. /\ call'[c] \in Calls /\ call'[c] # Idle /\ call'[c].reply = Failure
        /\ call'[c].action = call[c].action
        /\ \A d \in Clients \ {c} : call'[d] = call[d]
        /\ call' \in [Clients -> Calls \cup {Idle}]
    BY <1>1, <2>1, <2>2 DEF Calls, Responses
  <2>4. NewestOpen'
    <3>1. \A i \in DOMAIN q : q[i].open => call'[q[i].by] = call[q[i].by]
      BY <2>3, <1>4, <1>9
    <3>2. \A i \in DOMAIN q : q[i].open =>
            /\ call'[q[i].by] # Idle /\ call'[q[i].by].reply = Waiting
            /\ call'[q[i].by].action = q[i].action
            /\ \A j \in DOMAIN q : j > i => q[j].by # q[i].by
      BY <1>4, <3>1
    <3>3. requests' = q
      BY <2>1
    <3> QED BY <3>2, <3>3 DEF NewestOpen
  <2>5. Routed'
    BY <2>1, <1>3 DEF Routed, Known
  <2>6. ~Answered(c)'
    BY <2>3, WholeParts DEF Answered, Answer
  <2>7. Last'
    BY <2>1, <2>3, <2>6, <1>5 DEF Last, Answered, Answer
  <2>8. \A i \in DOMAIN requests' :
          \E j \in DOMAIN requests : /\ requests'[i].by = requests[j].by
                                     /\ requests'[i].action = requests[j].action
    BY <2>1 DEF Thinned
  <2>9. RendererTypeOK'
    BY <2>1, <2>3, <1>6 DEF Queue, RendererTypeOK, DeviceTypeOK
  <2> QED BY <2>3, <2>4, <2>5, <2>6, <2>7, <2>8, <2>9 DEF Queue, Told
<1> QED BY <1>7, <1>8

(* The two queues a failed connection and a time-out leave. *)
LEMMA ClosedThins ==
  ASSUME Queue, NEW c \in Clients
  PROVE  \E f : Thinned(Closed(requests, c), f, c)
<1> DEFINE q == Closed(requests, c)
           f == [i \in 1 .. Len(requests) |-> i]
<1>1. /\ requests \in Seq(Requests) /\ DOMAIN requests = 1 .. Len(requests)
      /\ Len(requests) \in Nat
      /\ \A i \in 1 .. Len(requests) : requests[i] \in Requests
  BY RequestParts
<1>2. DOMAIN q = 1 .. Len(requests)
  BY DEF Closed
<1>3. \A i \in 1 .. Len(requests) :
        /\ q[i] \in Requests
        /\ q[i].by = requests[i].by /\ q[i].action = requests[i].action
        /\ q[i].service = requests[i].service
        /\ q[i].open => requests[i].open /\ q[i].by # c
  BY <1>1 DEF Closed, Requests
<1>4. q \in Seq(Requests)
  <2>1. q \in [1 .. Len(requests) -> Requests]
    BY <1>3 DEF Closed
  <2> QED BY <2>1, <1>1, SeqDef
<1> HIDE DEF q
<1>5. Thinned(q, f, c)
  BY <1>1, <1>2, <1>3, <1>4 DEF Thinned
<1> QED BY <1>5 DEF q

LEMMA WithoutThins ==
  ASSUME Queue, NEW c \in Clients, NEW k \in DOMAIN requests,
         requests[k].by = c, requests[k].open
  PROVE  \E f : Thinned(Without(requests, k), f, c)
<1> DEFINE q == Without(requests, k)
           n == Len(requests) - 1
           f == [i \in 1 .. n |-> IF i < k THEN i ELSE i + 1]
<1>1. /\ requests \in Seq(Requests) /\ DOMAIN requests = 1 .. Len(requests)
      /\ Len(requests) \in Nat
      /\ \A i \in 1 .. Len(requests) : requests[i] \in Requests
  BY RequestParts
<1>2. n \in Nat /\ k \in 1 .. n + 1 /\ Len(requests) = n + 1
  BY <1>1
<1>3. /\ DOMAIN q = 1 .. n
      /\ \A i \in 1 .. n : f[i] \in 1 .. n + 1 /\ q[i] = requests[f[i]]
      /\ \A i \in 1 .. n : f[i] # k
      /\ \A i, j \in 1 .. n : i < j => f[i] < f[j]
      /\ f \in [1 .. n -> 1 .. n + 1]
  BY <1>2 DEF Without
<1>4. q \in Seq(Requests)
  <2>1. q \in [1 .. n -> Requests]
    BY <1>1, <1>2, <1>3 DEF Without
  <2> QED BY <2>1, <1>2, SeqDef
<1>5. \A i \in 1 .. n : requests[f[i]].open => requests[f[i]].by # c
  BY <1>1, <1>2, <1>3 DEF Queue, NewestOpen
<1> HIDE DEF q, f, n
<1>6. Thinned(q, f, c)
  BY <1>1, <1>2, <1>3, <1>4, <1>5 DEF Thinned
<1> QED BY <1>6 DEF q

(* A client sends a request. *)
LEMMA InvokeInd ==
  ASSUME Queue, NEW c \in Clients, NEW a \in Inputs, Invoke(c, a),
         UNCHANGED <<broken, loaded, transport, position, volume, pulls,
                     fetched, omits, awake>>
  PROVE  /\ Queue'
         /\ \A d \in Clients \ {c} : call'[d] = call[d]
         /\ call'[c].action = a /\ call'[c] # Idle /\ ~Answered(c)'
         /\ \A i \in DOMAIN requests' :
              \/ i \in DOMAIN requests /\ requests'[i] = requests[i]
              \/ requests'[i].by = c /\ requests'[i].action = a
<1> DEFINE new == Posted(c, a)
<1>1. new \in Requests /\ Known(new) /\ new.by = c /\ new.open /\ new.action = a
  BY PostedKnown
<1>2. /\ call[c] = Idle /\ requests' = Append(requests, new)
      /\ call' = [call EXCEPT ![c] = [action |-> a, left |-> Retries, reply |-> Waiting]]
  BY DEF Invoke, Queued
<1> HIDE DEF new
<1>3. call \in [Clients -> Calls \cup {Idle}] /\ requests \in Seq(Requests)
  BY DEF Queue, RendererTypeOK, DeviceTypeOK
<1>4. [action |-> a, left |-> Retries, reply |-> Waiting] \in Calls
  BY DEF Calls
<1>5. /\ call'[c] \in Calls /\ call'[c] # Idle /\ call'[c].reply = Waiting
      /\ call'[c].action = a
      /\ \A d \in Clients \ {c} : call'[d] = call[d]
      /\ call' \in [Clients -> Calls \cup {Idle}]
  BY <1>2, <1>3, <1>4
<1>6. /\ requests' \in Seq(Requests) /\ Len(requests') = Len(requests) + 1
      /\ DOMAIN requests' = 1 .. Len(requests) + 1
      /\ DOMAIN requests = 1 .. Len(requests)
      /\ \A i \in DOMAIN requests : requests'[i] = requests[i]
      /\ requests'[Len(requests) + 1] = new /\ Len(requests) \in Nat
      /\ \A i \in DOMAIN requests : requests[i] \in Requests
  BY <1>2, <1>1, <1>3, AppendProperties, LenProperties, ElementOfSeq
<1>7. \A i \in DOMAIN requests : requests[i].open =>
        requests[i].by # c /\ call'[requests[i].by] = call[requests[i].by]
  BY <1>2, <1>5, <1>6 DEF Queue, NewestOpen, Requests
<1>8. NewestOpen'
  BY <1>1, <1>5, <1>6, <1>7 DEF Queue, NewestOpen
<1>9. Routed'
  BY <1>1, <1>6 DEF Queue, Routed, Known
<1>10. ~Answered(c)'
  BY <1>5, WholeParts DEF Answered, Answer
<1>11. Last'
  BY <1>1, <1>5, <1>6, <1>10 DEF Queue, Last, Answered, Answer
<1>12. RendererTypeOK'
  BY <1>5, <1>6 DEF Queue, RendererTypeOK, DeviceTypeOK
<1> QED BY <1>1, <1>5, <1>6, <1>8, <1>9, <1>10, <1>11, <1>12 DEF Queue

(* A client has read its answer. *)
LEMMA DoneInd ==
  ASSUME Queue, NEW c \in Clients, Returned(c), Done(c), UNCHANGED <<device, broken>>
  PROVE  /\ Queue'
         /\ \A d \in Clients \ {c} : call'[d] = call[d]
         /\ call'[c] = Idle
<1>1. call' = [call EXCEPT ![c] = Idle] /\ call \in [Clients -> Calls \cup {Idle}]
  BY DEF Done, Queue, RendererTypeOK
<1>2. /\ \A d \in Clients \ {c} : call'[d] = call[d]
      /\ call'[c] = Idle /\ call' \in [Clients -> Calls \cup {Idle}]
  BY <1>1
<1>3. \A i \in DOMAIN requests : requests[i].by \in Clients
  BY RequestParts
<1>4. \A i \in DOMAIN requests : requests[i].open =>
        requests[i].by # c /\ call'[requests[i].by] = call[requests[i].by]
  BY <1>2, <1>3, WholeParts DEF Queue, NewestOpen, Returned
<1>5. NewestOpen'
  BY <1>4 DEF Queue, NewestOpen, device
<1>6. Routed'
  BY DEF Queue, Routed, device, Known
<1>7. Last'
  BY <1>2 DEF Queue, Last, Answered, Answer, device
<1>8. RendererTypeOK'
  BY <1>2 DEF Queue, RendererTypeOK, DeviceTypeOK, device
<1> QED BY <1>2, <1>5, <1>6, <1>7, <1>8 DEF Queue

(* The device answers its oldest request. *)
LEMMA AnswersInd ==
  ASSUME Queue, NEW reply \in Replies, reply # Waiting, Answers(reply),
         DeviceTypeOK',
         reply = Fault \/ reply = Reply(Head(requests))
  PROVE  /\ Queue'
         /\ \A i \in DOMAIN requests' : i + 1 \in DOMAIN requests /\ requests'[i] = requests[i + 1]
         /\ \A c \in Clients :
              \/ call'[c] = call[c]
              \/ /\ Head(requests).open /\ Head(requests).by = c /\ call[c] # Idle
                 /\ Head(requests).action = call[c].action
                 /\ call'[c] # Idle
                 /\ call'[c].action = call[c].action /\ Answer(c)' = reply
<1> DEFINE r == Head(requests)
<1>1. requests \in Seq(Requests) /\ requests # <<>> /\ requests' = Tail(requests)
      /\ r = requests[1] /\ 1 \in DOMAIN requests
  BY RequestParts, HeadTailProperties, EmptySeq DEF Answers
<1>2. /\ Len(requests) \in Nat \ {0} /\ DOMAIN requests = 1 .. Len(requests)
      /\ requests' \in Seq(Requests)
      /\ DOMAIN requests' = 1 .. Len(requests) - 1
      /\ \A i \in DOMAIN requests' : requests'[i] = requests[i + 1]
      /\ r \in Requests
  BY <1>1, RequestParts, HeadTailProperties, LenProperties
<1>3. call \in [Clients -> Calls \cup {Idle}] /\ r.by \in Clients
  BY <1>2 DEF Queue, RendererTypeOK, Requests
<1>4. \A i \in DOMAIN requests' : i + 1 \in DOMAIN requests /\ i + 1 > 1
  BY <1>2
<1>5. Routed'
  BY <1>2, <1>4 DEF Queue, Routed, Known
<1>6. CASE r.open
  <2>1. call[r.by] # Idle /\ call[r.by].action = r.action
        /\ \A j \in DOMAIN requests : j > 1 => requests[j].by # r.by
    BY <1>1, <1>6 DEF Queue, NewestOpen
  <2>2. PICK come \in {reply, Headed(reply)} :
               call' = [call EXCEPT ![r.by].reply = come]
    BY <1>6 DEF Answers
  <2>8. come \in Responses \cup {Waiting} /\ Whole(come) = reply
    <3>1. Headed(reply) \in [headed : Replies]
      BY DEF Headed
    <3> QED BY <3>1, WholeParts DEF Responses
  <2>9. /\ call'[r.by] \in Calls /\ call'[r.by] # Idle /\ call'[r.by].reply = come
        /\ call'[r.by].action = call[r.by].action
        /\ \A d \in Clients \ {r.by} : call'[d] = call[d]
        /\ call' \in [Clients -> Calls \cup {Idle}]
    BY <1>3, <2>1, <2>2, <2>8 DEF Calls
  <2>3. \A c \in Clients : c = r.by => Answer(c)' = reply
    BY <2>8, <2>9 DEF Answer
  <2>4. \A i \in DOMAIN requests' : requests'[i].by # r.by
    BY <1>2, <1>4, <2>1
  <2>5. NewestOpen'
    <3>1. \A i \in DOMAIN requests' : call'[requests'[i].by] = call[requests'[i].by]
      BY <1>2, <1>4, <2>9, <2>4, RequestParts
    <3>2. \A i \in DOMAIN requests' : requests'[i].open =>
            /\ call[requests'[i].by] # Idle /\ call[requests'[i].by].reply = Waiting
            /\ call[requests'[i].by].action = requests'[i].action
            /\ \A j \in DOMAIN requests' : j > i => requests'[j].by # requests'[i].by
      BY <1>2, <1>4 DEF Queue, NewestOpen
    <3> QED BY <3>1, <3>2 DEF NewestOpen
  <2>6. Last'
    BY <1>2, <1>4, <2>9, <2>4 DEF Queue, Last, Answered, Answer
  <2>7. RendererTypeOK'
    BY <2>9 DEF Queue, RendererTypeOK, Answers
  <2>10. \A c \in Clients :
              \/ call'[c] = call[c]
              \/ /\ r.open /\ r.by = c /\ call[c] # Idle /\ r.action = call[c].action
                 /\ call'[c] # Idle
                 /\ call'[c].action = call[c].action /\ Answer(c)' = reply
    BY <1>6, <2>1, <2>3, <2>9
  <2> QED BY <1>2, <1>4, <1>5, <2>5, <2>6, <2>7, <2>10 DEF Queue
<1>7. CASE ~r.open
  <2>1. call' = call
    BY <1>7 DEF Answers
  <2>2. NewestOpen'
    BY <1>2, <1>4, <2>1 DEF Queue, NewestOpen
  <2>3. Last'
    BY <1>2, <1>4, <2>1 DEF Queue, Last, Answered, Answer
  <2>4. RendererTypeOK'
    BY <2>1 DEF Queue, RendererTypeOK, Answers
  <2> QED BY <1>2, <1>4, <1>5, <2>1, <2>2, <2>3, <2>4 DEF Queue
<1> QED BY <1>6, <1>7

-----------------------------------------------------------------------------

LEMMA RequestType ==
  ASSUME at \in {"load", "play", "seek", "state", "position"}
  PROVE  /\ Request \in Inputs
         /\ Request.name = "Seek" => at = "seek"
         /\ at = "load" => Request.name = "SetAVTransportURI"
         /\ at = "play" => Request.name = "Play"
         /\ at = "position" => Request.name = "GetPositionInfo"
<1>1. CASE at = "load"
  BY <1>1 DEF Request, Inputs
<1>2. CASE at = "play"
  BY <1>2 DEF Request, Inputs
<1>3. CASE at = "seek"
  BY <1>3 DEF Request, Inputs
<1>4. CASE at = "state"
  BY <1>4 DEF Request, Inputs
<1>5. CASE at = "position"
  BY <1>5 DEF Request, Inputs
<1> QED BY <1>1, <1>2, <1>3, <1>4, <1>5

(* A step of the device, or of a connection, keeps what the player relies  *)
(* on, if the film stays and an answer to the player means what it should. *)
LEMMA RendererKeeps ==
  ASSUME Ind, Queue', Fetchable', Remembered, UNCHANGED <<player, commands, omits>>,
         Loaded => Loaded', Playing => Playing', Meant',
         call'[Player] # Idle =>
           call[Player] # Idle /\ call'[Player].action = call[Player].action,
         \A i \in DOMAIN requests' : requests'[i].by = Player =>
           \/ \E j \in DOMAIN requests : /\ requests[j].by = Player
                                         /\ requests'[i].action = requests[j].action
           \/ call[Player] # Idle /\ requests'[i].action = call[Player].action
  PROVE  Ind'
<1>1. been' \subseteq 0 .. Length /\ been \subseteq been'
  BY DEF Remembered, Ind, TypeOK, Queue, RendererTypeOK, DeviceTypeOK
<1>2. TypeOK'
  BY <1>1 DEF Ind, TypeOK, Queue, player
<1>3. Outstanding'
  BY DEF Ind, Outstanding, Request, player
<1>4. Progress'
  BY DEF Ind, Progress, player
<1>5. SeeksWhatPlays'
  <2> SUFFICES ASSUME NEW i \in DOMAIN requests', requests'[i].by = Player,
                      requests'[i].action.name = "Seek"
               PROVE  Playing'
    BY DEF SeeksWhatPlays, Playing, Loaded
  <2>1. CASE \E j \in DOMAIN requests : /\ requests[j].by = Player
                                        /\ requests'[i].action = requests[j].action
    BY <2>1 DEF Ind, SeeksWhatPlays, Playing, Loaded
  <2>2. CASE call[Player] # Idle /\ requests'[i].action = call[Player].action
    <3>1. at = "seek"
      BY <2>2, RequestType DEF Ind, Outstanding
    <3> QED BY <3>1 DEF Ind, Progress
  <2> QED BY <2>1, <2>2
<1>6. Visited'
  BY DEF Remembered, Visited, Loaded
<1>7. NeverFabricated'
  BY <1>1 DEF Ind, NeverFabricated, player
<1> QED BY <1>2, <1>3, <1>4, <1>5, <1>6, <1>7 DEF Ind

(* What an answer means it goes on meaning. *)
LEMMA MeantKeeps ==
  ASSUME Ind, Remembered, UNCHANGED player, Loaded => Loaded', Playing => Playing',
         call'[Player] = call[Player] \/ ~Answered(Player)'
  PROVE  Meant'
<1>1. been \subseteq been'
  BY DEF Remembered
<1>2. CASE ~Answered(Player)'
  BY <1>2 DEF Meant
<1>3. CASE call'[Player] = call[Player]
  <2>1. Answer(Player)' = Answer(Player)
        /\ (Answered(Player)' => Answered(Player))
    BY <1>3 DEF Answered, Answer
  <2> QED BY <1>1, <1>3, <2>1 DEF Ind, Meant, player
<1> QED BY <1>2, <1>3

LEMMA DeviceInd ==
  ASSUME Ind, Pull \/ Advances \/ FilmEnds \/ FallsAsleep, UNCHANGED client,
         Remembered, UNCHANGED <<player, commands>>
  PROVE  Ind'
<1>1. UNCHANGED <<requests, loaded, volume, omits, call, broken>>
  BY DEF Pull, Advances, FilmEnds, FallsAsleep, client
<1>2. DeviceTypeOK /\ Fetchable
  BY DEF Ind, TypeOK, RendererTypeOK
<1>3. /\ transport' \in {"PLAYING", "PAUSED_PLAYBACK", "STOPPED"}
      /\ position' \in 0 .. Length /\ awake' \in BOOLEAN
  <2>1. CASE Pull
    BY <1>2, <2>1 DEF Pull, DeviceTypeOK
  <2>2. CASE Advances
    BY <1>2, <2>2 DEF Advances, DeviceTypeOK
  <2>3. CASE FilmEnds
    BY <1>2, <2>3 DEF FilmEnds, DeviceTypeOK
  <2>4. CASE FallsAsleep
    BY <1>2, <2>4 DEF FallsAsleep, DeviceTypeOK
  <2> QED BY <2>1, <2>2, <2>3, <2>4
<1>4. /\ pulls' \in Nat /\ fetched' \subseteq {"film"}
      /\ Fetchable' /\ (Playing => Playing')
  <2>1. CASE Pull
    <3>1. pulls \in Nat /\ pulls > 0 /\ pulls' = pulls - 1
          /\ fetched' = fetched \cup {loaded} /\ fetched \subseteq {"film"}
      BY <1>2, <2>1 DEF Pull, DeviceTypeOK
    <3>2. loaded = "film" /\ loaded' = loaded
      BY <1>1, <1>2, <3>1 DEF Fetchable, Loaded
    <3>3. fetched' = {"film"}
      BY <3>1, <3>2
    <3> QED BY <3>1, <3>2, <3>3 DEF Fetchable, Playing, Loaded
  <2>2. CASE Advances \/ FilmEnds \/ FallsAsleep
    <3>1. UNCHANGED <<loaded, pulls, fetched>>
      BY <2>2 DEF Advances, FilmEnds, FallsAsleep
    <3> QED BY <1>2, <3>1 DEF DeviceTypeOK, Fetchable, Playing, Loaded
  <2> QED BY <2>1, <2>2
<1>5. Queue'
  <2>1. RendererTypeOK'
    BY <1>1, <1>3, <1>4 DEF Ind, Queue, RendererTypeOK, DeviceTypeOK
  <2>2. NewestOpen' /\ Routed' /\ Last'
    BY <1>1 DEF Ind, Queue, NewestOpen, Routed, Known, Last, Answered,
       Answer
  <2> QED BY <2>1, <2>2 DEF Queue
<1>6. Loaded => Loaded'
  BY <1>1 DEF Loaded
<1>7. Meant'
  BY <1>1, <1>4, <1>6, MeantKeeps
<1> QED BY <1>1, <1>4, <1>5, <1>6, <1>7, RendererKeeps

(* A connection fails, or is silent for too long. *)
LEMMA ConnectionInd ==
  ASSUME Ind, NEW c \in Clients, Breaks(c) \/ TimesOut(c),
         Remembered, UNCHANGED <<player, commands>>
  PROVE  Ind'
<1>1. UNCHANGED <<loaded, transport, position, volume, pulls, fetched, omits, awake>>
      /\ call[c] # Idle /\ broken' \in 0 .. MaxBroken
  <2>1. broken \in 0 .. MaxBroken
    BY DEF Ind, TypeOK, RendererTypeOK
  <2>2. CASE Breaks(c)
    BY <2>1, <2>2 DEF Breaks
  <2>3. CASE TimesOut(c)
    BY <2>1, <2>3 DEF TimesOut, Expires
  <2> QED BY <2>2, <2>3
<1>2. \E q, f : \E silent \in BOOLEAN : Thinned(q, f, c) /\ GivenUp(c, silent, q)
  <2>1. CASE TimesOut(c)
    BY <2>1, ClosedThins DEF TimesOut, Ind
  <2>2. CASE Breaks(c) /\ GivenUp(c, Reading(c), Closed(requests, c))
    <3>1. Reading(c) \in BOOLEAN
      BY DEF Reading
    <3> QED BY <2>2, <3>1, ClosedThins DEF Ind
  <2>3. CASE \E i \in DOMAIN requests :
               /\ requests[i].by = c /\ requests[i].open
               /\ GivenUp(c, FALSE, Without(requests, i))
    BY <2>3, WithoutThins DEF Ind
  <2> QED BY <2>1, <2>2, <2>3 DEF Breaks
<1>3. Queue' /\ Told(c)
  BY <1>1, <1>2, GivenUpInd DEF Ind
<1>4. Fetchable' /\ (Loaded => Loaded') /\ (Playing => Playing')
  BY <1>1 DEF Ind, Fetchable, Loaded, Playing
<1>5. call'[Player] = call[Player] \/ ~Answered(Player)'
  BY <1>3 DEF Told
<1>6. Meant'
  BY <1>4, <1>5, MeantKeeps
<1>7. call'[Player] # Idle =>
        call[Player] # Idle /\ call'[Player].action = call[Player].action
  BY <1>1, <1>3 DEF Told
<1>8. \A i \in DOMAIN requests' : requests'[i].by = Player =>
           \/ \E j \in DOMAIN requests : /\ requests[j].by = Player
                                         /\ requests'[i].action = requests[j].action
           \/ call[Player] # Idle /\ requests'[i].action = call[Player].action
  BY <1>1, <1>3 DEF Told
<1> QED BY <1>1, <1>3, <1>4, <1>6, <1>7, <1>8, RendererKeeps

(* The rest of an answer comes. *)
LEMMA BodyInd ==
  ASSUME Ind, NEW c \in Clients, BodyComes(c), Remembered, UNCHANGED <<player, commands>>
  PROVE  Ind'
<1>1. /\ call[c] # Idle /\ call' = [call EXCEPT ![c].reply = call[c].reply.headed]
      /\ UNCHANGED <<requests, broken, loaded, transport, position, volume, pulls,
                     fetched, omits, awake>>
  BY DEF BodyComes, Reading
<1>2. PICK r \in Replies : call[c].reply = Headed(r) /\ call[c].reply.headed = r
  BY DEF BodyComes, Reading, Headed
<1>3. call \in [Clients -> Calls \cup {Idle}] /\ call[c] \in Calls
  BY <1>1, CallParts DEF Ind, Queue, RendererTypeOK
<1>4. /\ call'[c] \in Calls /\ call'[c] # Idle /\ call'[c].reply = r
      /\ call'[c].action = call[c].action
      /\ \A d \in Clients \ {c} : call'[d] = call[d]
      /\ call' \in [Clients -> Calls \cup {Idle}]
  BY <1>1, <1>2, <1>3 DEF Calls, Responses
<1>5. \A d \in Clients :
        /\ (call'[d] # Idle <=> call[d] # Idle)
        /\ call[d] # Idle =>
             Answer(d)' = Answer(d) /\ call'[d].action = call[d].action
        /\ call[d].reply = Waiting => call'[d] = call[d]
  BY <1>1, <1>2, <1>4, WholeParts DEF Answer
<1>6. \A d \in Clients : Answered(d)' <=> Answered(d)
  BY <1>5 DEF Answered, Answer
<1>7. Queue'
  <2>1. RendererTypeOK'
    BY <1>1, <1>4 DEF Ind, Queue, RendererTypeOK, DeviceTypeOK
  <2>2. NewestOpen'
    <3>1. Queue
      BY DEF Ind
    <3>2. \A i \in DOMAIN requests : requests[i].by \in Clients
      BY <3>1, RequestParts DEF Queue, RendererTypeOK, Requests
    <3>3. \A i \in DOMAIN requests : requests[i].open =>
            call'[requests[i].by] = call[requests[i].by]
      BY <3>1, <3>2, <1>5 DEF Queue, NewestOpen
    <3>4. \A i \in DOMAIN requests : requests[i].open =>
            /\ call'[requests[i].by] # Idle /\ call'[requests[i].by].reply = Waiting
            /\ call'[requests[i].by].action = requests[i].action
            /\ \A j \in DOMAIN requests : j > i => requests[j].by # requests[i].by
      BY <3>1, <3>3 DEF Queue, NewestOpen
    <3>5. requests' = requests
      BY <1>1
    <3> QED BY <3>4, <3>5 DEF NewestOpen
  <2>3. Routed' /\ Last'
    BY <1>1, <1>6 DEF Ind, Queue, Routed, Known, Last
  <2> QED BY <2>1, <2>2, <2>3 DEF Queue
<1>8. Fetchable' /\ (Loaded => Loaded') /\ (Playing => Playing')
  BY <1>1 DEF Ind, Fetchable, Loaded, Playing
<1>9. Meant'
  <2>1. been \subseteq been'
    BY DEF Remembered
  <2>2. Answered(Player)' => Answered(Player) /\ Answer(Player)' = Answer(Player)
    BY <1>5, <1>6 DEF Answered, Answer
  <2> QED BY <1>8, <2>1, <2>2 DEF Ind, Meant, player
<1> QED BY <1>1, <1>5, <1>7, <1>8, <1>9, RendererKeeps

(* The device carries out its oldest request, or declines it. *)
LEMMA ServeInd ==
  ASSUME Ind, Serve \/ Declines, Remembered, UNCHANGED <<player, commands>>
  PROVE  Ind'
<1> DEFINE r == Head(requests)
<1>1. Queue /\ DeviceTypeOK /\ Fetchable
  BY DEF Ind, TypeOK, RendererTypeOK
<1>2. requests # <<>> /\ r \in Requests /\ Known(r) /\ requests' = Tail(requests)
      /\ Tail(requests) \in Seq(Requests)
  <2>1. requests # <<>> /\ requests' = Tail(requests)
    BY DEF Serve, Declines, Answers
  <2>2. r = requests[1] /\ 1 \in DOMAIN requests /\ Tail(requests) \in Seq(Requests)
    BY <1>1, <2>1, RequestParts, HeadTailProperties, EmptySeq
  <2> QED BY <1>1, <2>1, <2>2, RequestParts DEF Queue, Routed
<1>3. UNCHANGED <<fetched, omits, awake>>
  BY DEF Serve, Declines
<1>4. CASE Declines
  <2>1. Answers(Fault) /\ UNCHANGED <<loaded, transport, position, volume, pulls>>
    BY <1>4 DEF Declines
  <2>2. DeviceTypeOK'
    BY <1>1, <1>2, <1>3, <2>1 DEF DeviceTypeOK
  <2>3. Fault \in Replies /\ Fault # Waiting
    BY WholeParts
  <2>4. /\ Queue'
        /\ \A i \in DOMAIN requests' :
             i + 1 \in DOMAIN requests /\ requests'[i] = requests[i + 1]
        /\ \A c \in Clients :
             \/ call'[c] = call[c]
             \/ /\ call[c] # Idle /\ call'[c] # Idle
                /\ call'[c].action = call[c].action /\ Answer(c)' = Fault
    BY <1>1, <2>1, <2>2, <2>3, AnswersInd
  <2>5. Fetchable' /\ (Loaded => Loaded') /\ (Playing => Playing')
    BY <1>1, <1>3, <2>1 DEF Fetchable, Loaded, Playing
  <2>6. call'[Player] = call[Player] \/ ~Answered(Player)'
    BY <2>4, WholeParts DEF Answered
  <2>7. Meant'
    BY <2>5, <2>6, MeantKeeps
  <2> QED BY <1>3, <2>4, <2>5, <2>7, RendererKeeps
<1>5. CASE Serve
  <2>1. Answers(Reply(r)) /\ Served(r)
    BY <1>5 DEF Serve
  <2>2. /\ (Loaded => Loaded') /\ (Fetchable => Fetchable')
        /\ pulls' \in Nat /\ pulls' >= pulls
        /\ r.action.name = "SetAVTransportURI" => Loaded'
        /\ r.action.name = "Play" /\ Loaded => pulls' > 0
        /\ r.action.name = "GetPositionInfo" => position' = position
    BY <1>1, <1>2, <2>1, ServedDoes
  <2>3. DeviceTypeOK'
    BY <1>1, <1>2, <1>3, <2>1, ServedDoes DEF DeviceTypeOK
  <2>4. Fetchable' /\ (Loaded => Loaded') /\ (Playing => Playing')
    <3>1. pulls \in Nat /\ (pulls > 0 => pulls' > 0)
      BY <1>1, <2>2 DEF DeviceTypeOK
    <3> QED BY <1>1, <1>3, <2>2, <3>1 DEF Playing
  <2>5. /\ Reply(r) \in Replies /\ Reply(r) # Waiting
        /\ r.action.name = "GetPositionInfo" =>
             Reply(r).at = IF "RelTime" \in omits THEN -1 ELSE position
    BY <1>1, <1>2, ReplyType
  <2>6. /\ Queue'
        /\ \A i \in DOMAIN requests' :
             i + 1 \in DOMAIN requests /\ requests'[i] = requests[i + 1]
        /\ \A c \in Clients :
             \/ call'[c] = call[c]
             \/ /\ r.action = call[c].action
                /\ call[c] # Idle /\ call'[c] # Idle
                /\ call'[c].action = call[c].action /\ Answer(c)' = Reply(r)
    BY <1>1, <2>1, <2>3, <2>5, AnswersInd
  <2>7. Meant'
    <3>1. CASE call'[Player] = call[Player]
      BY <3>1, <2>4, MeantKeeps
    <3>2. CASE /\ r.action = call[Player].action
               /\ call[Player] # Idle /\ Answer(Player)' = Reply(r)
      <4>1. r.action = Request /\ at \in {"load", "play", "seek", "state", "position"}
        BY <3>2 DEF Ind, Outstanding
      <4>2. at = "load" => Loaded'
        BY <4>1, <2>2, RequestType
      <4>3. at = "play" => Playing'
        <5>1. at = "play" => Loaded
          BY DEF Ind, Progress
        <5> QED BY <4>1, <5>1, <2>2, <2>4, RequestType DEF Playing
      <4>4. at = "position" => Reply(r).at \in {-1} \cup been'
        <5>1. at = "position" => r.action.name = "GetPositionInfo"
          BY <4>1, RequestType
        <5>2. at = "position" => Loaded'
          BY <2>4 DEF Ind, Progress
        <5>3. at = "position" /\ "RelTime" \notin omits => position' \in been'
          BY <5>2, <1>3 DEF Remembered, Loaded
        <5> QED BY <5>1, <5>3, <2>2, <2>5
      <4> QED BY <3>2, <4>2, <4>3, <4>4 DEF Meant, player
    <3> QED BY <2>6, <3>1, <3>2
  <2> QED BY <1>3, <2>4, <2>6, <2>7, RendererKeeps
<1> QED BY <1>4, <1>5

(* The player's own steps. *)
LEMMA AsksInd ==
  ASSUME Ind, Asks
  PROVE  Ind'
<1>1. at \in {"load", "play", "seek", "state", "position"} /\ Invoke(Player, Request)
      /\ UNCHANGED <<broken, loaded, transport, position, volume, pulls, fetched,
                     omits, awake, player, commands, been>>
  BY DEF Asks
<1>2. Request \in Inputs /\ (Request.name = "Seek" => at = "seek")
  BY <1>1, RequestType
<1>3. /\ Queue' /\ ~Answered(Player)' /\ call'[Player].action = Request
      /\ \A i \in DOMAIN requests' :
           \/ i \in DOMAIN requests /\ requests'[i] = requests[i]
           \/ requests'[i].by = Player /\ requests'[i].action = Request
  BY <1>1, <1>2, InvokeInd DEF Ind
<1>4. TypeOK' /\ Fetchable' /\ Visited' /\ NeverFabricated' /\ Progress'
  BY <1>1, <1>3 DEF Ind, TypeOK, Queue, Fetchable, Visited, NeverFabricated,
     Progress, Playing, Loaded, player
<1>5. Outstanding' /\ Meant'
  BY <1>1, <1>3 DEF Outstanding, Meant, Request, player
<1>6. SeeksWhatPlays'
  BY <1>1, <1>2, <1>3 DEF Ind, SeeksWhatPlays, Progress, Playing, Loaded
<1> QED BY <1>3, <1>4, <1>5, <1>6 DEF Ind

LEMMA HearsInd ==
  ASSUME Ind, Hears
  PROVE  Ind'
<1>1. /\ Returned(Player) /\ Done(Player) /\ UNCHANGED <<device, broken, commands, been>>
      /\ at' = Following(Succeeded(Player))
  BY DEF Hears
<1>2. Queue' /\ call'[Player] = Idle
  BY <1>1, DoneInd DEF Ind
<1>3. at \in {"load", "play", "seek", "state", "position"}
  BY <1>1 DEF Ind, Outstanding, Returned
<1>4. seen' \in {"PLAYING", "PAUSED", "STOPPED", "TRANSITIONING", "unreported"}
  BY DEF Hears, PlaybackState, Ind, TypeOK
<1>13. Succeeded(Player) => Answered(Player) /\ Answer(Player) = call[Player].reply
  BY WholeParts DEF Succeeded, Returned, Refused, Answered, Answer
<1>5. at = "position" /\ Succeeded(Player) => call[Player].reply.at \in {-1} \cup been
  BY <1>13 DEF Ind, Meant
<1>6. known' \in {known} \cup been
  BY <1>5 DEF Hears, Believed
<1>7. at' \in {"play", "seek", "state", "position", "pause", "done", "failed"}
  BY <1>1, <1>3 DEF Following, AfterLoad
<1>8. TypeOK'
  BY <1>1, <1>2, <1>4, <1>6, <1>7 DEF Ind, TypeOK, Queue, device
<1>9. NeverFabricated'
  BY <1>1, <1>6 DEF Ind, NeverFabricated
<1>10. Progress'
  <2>1. UNCHANGED <<loaded, pulls, fetched>>
    BY <1>1 DEF device
  <2>2. CASE at = "load"
    BY <1>1, <1>13, <2>1, <2>2 DEF Ind, Meant, Progress, Following, AfterLoad, Loaded
  <2>3. CASE at = "play"
    BY <1>1, <1>13, <2>1, <2>3 DEF Ind, Meant, Progress, Following, Loaded, Playing
  <2>4. CASE at \in {"seek", "state", "position"}
    BY <1>1, <2>1, <2>4 DEF Ind, Progress, Following, Loaded, Playing
  <2> QED BY <1>3, <2>2, <2>3, <2>4
<1>11. Fetchable' /\ Visited' /\ SeeksWhatPlays'
  BY <1>1 DEF Ind, Fetchable, Visited, SeeksWhatPlays, Loaded, device
<1>12. Outstanding' /\ Meant'
  BY <1>2 DEF Outstanding, Meant, Answered, Answer
<1> QED BY <1>2, <1>8, <1>9, <1>10, <1>11, <1>12 DEF Ind

LEMMA QueueStays ==
  ASSUME Queue, UNCHANGED <<device, client>>
  PROVE  Queue'
BY DEF Queue, RendererTypeOK, DeviceTypeOK, NewestOpen, Routed, Known, Last,
   Answered, Answer, device, client

LEMMA PollsInd ==
  ASSUME Ind, PollsAgain
  PROVE  Ind'
<1>1. Queue'
  BY QueueStays DEF Ind, PollsAgain
<1>2. TypeOK'
  BY <1>1 DEF Ind, TypeOK, Queue, PollsAgain
<1>3. Outstanding' /\ Meant'
  BY DEF Ind, Outstanding, Meant, Answered, Answer, PollsAgain, client
<1>4. Fetchable' /\ Visited' /\ SeeksWhatPlays' /\ NeverFabricated' /\ Progress'
  BY DEF Ind, Fetchable, Visited, SeeksWhatPlays, NeverFabricated, Progress,
     Playing, Loaded, PollsAgain, device
<1> QED BY <1>1, <1>2, <1>3, <1>4 DEF Ind

(* The other clients. *)
LEMMA CommandsInd ==
  ASSUME Ind, NEW c \in Clients, Commands(c)
  PROVE  Ind'
<1>1. PICK a \in Commanded : Invoke(c, a)
  BY DEF Commands
<1>2. /\ c # Player /\ a \in Inputs /\ commands' \in 0 .. MaxCommands
      /\ UNCHANGED <<broken, loaded, transport, position, volume, pulls, fetched,
                     omits, awake, player, been>>
  BY DEF Commands, Ind, TypeOK
<1>3. /\ Queue' /\ call'[Player] = call[Player]
      /\ \A i \in DOMAIN requests' :
           \/ i \in DOMAIN requests /\ requests'[i] = requests[i]
           \/ requests'[i].by = c
  BY <1>1, <1>2, InvokeInd DEF Ind
<1>4. TypeOK' /\ Fetchable' /\ Visited' /\ NeverFabricated' /\ Progress'
  BY <1>2, <1>3 DEF Ind, TypeOK, Queue, Fetchable, Visited, NeverFabricated,
     Progress, Playing, Loaded, player
<1>5. Outstanding' /\ Meant'
  BY <1>2, <1>3 DEF Ind, Outstanding, Meant, Request, Answered, Answer,
     Loaded, Playing, player
<1>6. SeeksWhatPlays'
  BY <1>2, <1>3 DEF Ind, SeeksWhatPlays
<1> QED BY <1>3, <1>4, <1>5, <1>6 DEF Ind

LEMMA IsToldInd ==
  ASSUME Ind, NEW c \in Clients, IsTold(c)
  PROVE  Ind'
<1>1. Queue' /\ call'[Player] = call[Player]
      /\ UNCHANGED <<device, broken, player, commands, been>>
  BY DoneInd DEF Ind, IsTold
<1>2. TypeOK' /\ Fetchable' /\ Visited' /\ NeverFabricated' /\ Progress'
  BY <1>1 DEF Ind, TypeOK, Queue, Fetchable, Visited, NeverFabricated,
     Progress, Playing, Loaded, player, device
<1>3. Outstanding' /\ Meant' /\ SeeksWhatPlays'
  BY <1>1 DEF Ind, Outstanding, Meant, Request, Answered, Answer,
     SeeksWhatPlays, Loaded, Playing, player, device
<1> QED BY <1>1, <1>2, <1>3 DEF Ind

-----------------------------------------------------------------------------

LEMMA InitInd == Init => Ind
<1> SUFFICES ASSUME Init PROVE Ind
  OBVIOUS
<1>1. requests = <<>> /\ DOMAIN requests = {} /\ requests \in Seq(Requests)
  BY EmptySeq DEF Init, DeviceInit
<1>2. call = [c \in Clients |-> Idle]
  BY DEF Init, RendererInit
<1>3. RendererTypeOK
  BY <1>1, <1>2 DEF Init, DeviceInit, RendererInit, RendererTypeOK, DeviceTypeOK
<1>4. Queue
  BY <1>1, <1>3 DEF Queue, NewestOpen, Routed, Last
<1>5. TypeOK /\ Fetchable
  BY <1>3 DEF Init, DeviceInit, TypeOK, Fetchable
<1>6. Outstanding /\ Meant /\ Progress
  BY <1>2 DEF Init, Outstanding, Meant, Answered, Answer, Progress
<1>7. SeeksWhatPlays /\ Visited /\ NeverFabricated
  BY <1>1 DEF Init, DeviceInit, SeeksWhatPlays, Visited, Loaded, NeverFabricated
<1> QED BY <1>4, <1>5, <1>6, <1>7 DEF Ind

LEMMA StepInd == Ind /\ [Next]_vars => Ind'
<1> SUFFICES ASSUME Ind, [Next]_vars PROVE Ind'
  OBVIOUS
<1>1. CASE Asks \/ Hears \/ PollsAgain
  BY <1>1, AsksInd, HearsInd, PollsInd
<1>2. ASSUME NEW c \in Clients, Commands(c) \/ IsTold(c) PROVE Ind'
  BY <1>2, CommandsInd, IsToldInd
<1>3. CASE RendererSteps
  BY <1>3, ServeInd, DeviceInd, ConnectionInd, BodyInd DEF RendererSteps
<1>4. CASE UNCHANGED vars
  <2>1. UNCHANGED <<device, client, player, commands, been>>
    BY <1>4 DEF vars
  <2>2. Queue'
    BY <2>1, QueueStays DEF Ind
  <2>3. TypeOK' /\ Fetchable' /\ Visited' /\ NeverFabricated' /\ Progress'
    BY <2>1, <2>2 DEF Ind, TypeOK, Queue, Fetchable, Visited, NeverFabricated,
       Progress, Playing, Loaded, player, device
  <2>4. Outstanding' /\ Meant' /\ SeeksWhatPlays'
    BY <2>1 DEF Ind, Outstanding, Meant, Request, Answered, Answer,
       SeeksWhatPlays, Loaded, Playing, player, device, client
  <2> QED BY <2>2, <2>3, <2>4 DEF Ind
<1> QED BY <1>1, <1>2, <1>3, <1>4 DEF Next

LEMMA Invariance == Spec => []Ind
BY InitInd, StepInd, PTL DEF Spec

-----------------------------------------------------------------------------

(* Every variable keeps to its type. *)
THEOREM Typing == Spec => []TypeOK
<1>1. Ind => TypeOK
  BY DEF Ind
<1> QED BY <1>1, Invariance, PTL

(* Whatever is lost, retried or declined, and however many clients there   *)
(* are: when an action is answered, nothing its client asked before, and   *)
(* no copy of it, is still to be carried out (Renderer.ts:244-263).        *)
THEOREM AnswersAreLast == Spec => []LastWord
<1>1. Ind => LastWord
  <2>1. ASSUME NEW c \in Clients, Succeeded(c) PROVE Answered(c)
    BY <2>1, WholeParts DEF Succeeded, Returned, Refused, Answered, Answer
  <2> QED BY <2>1 DEF Ind, Queue, Last, LastWord
<1> QED BY <1>1, Invariance, PTL

(* The player moves the film only when the renderer has it and plays       *)
(* (cast.ts:540-543).                                                      *)
THEOREM OnlyPlayingIsMoved == Spec => []SeeksWhatPlays
<1>1. Ind => SeeksWhatPlays
  BY DEF Ind
<1> QED BY <1>1, Invariance, PTL

(* The place to resume from is never made up, whatever the renderer leaves *)
(* out of its answers (cast.ts:569-577).                                   *)
THEOREM PositionsAreReal == Spec => []NeverFabricated
<1>1. Ind => NeverFabricated
  BY DEF Ind
<1> QED BY <1>1, Invariance, PTL
=============================================================================
