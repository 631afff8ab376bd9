------------------------- MODULE CastSessionProofs -------------------------
(* Proofs about CastSession, for every set of fibers and applications.     *)
EXTENDS CastSession, TLAPS

(* Every variable of CastSession keeps its type (Session.ts makeOver's     *)
(* Refs, and the wire between sender and receiver).                        *)
THEOREM Typing == Spec => []TypeOK
<1> USE CastSessionAssumption DEF TypeOK, Option, Destinations
<1>1. Init => TypeOK
  <2> SUFFICES ASSUME Init PROVE TypeOK
    OBVIOUS
  <2>1. outbox \in Seq(Requests \cup Controls)
    BY DEF Init, Controls
  <2>2. call \in [Fibers -> Option(Requests)]
    BY DEF Init
  <2>3. usedApps \in SUBSET Apps /\ playing \in BOOLEAN
    BY DEF Init
  <2>4. inbox \in Seq(Replies) /\ heard \in Seq(Requests)
    <3>1. inbox = <<>> /\ heard = <<>>
      BY DEF Init
    <3>2. QED
      BY <3>1
  <2>5. lost \in BOOLEAN
    BY DEF Init
  <2>6. QED
    BY <2>1, <2>2, <2>3, <2>4, <2>5 DEF Init
<1>2. TypeOK /\ [Next]_vars => TypeOK'
  <2> SUFFICES ASSUME TypeOK, [Next]_vars PROVE TypeOK'
    OBVIOUS
  <2> USE DEF ids, sender, ending, receiver
  <2>1. CASE Launch
    BY <2>1 DEF Launch, Issue, NextRequestId, Requests
  <2>2. CASE Join
    BY <2>2 DEF Join, Issue, NextRequestId, Requests
  <2>3. CASE LaunchReady
    BY <2>3 DEF LaunchReady, OpenConnection, Sent, Controls
  <2>4. CASE JoinReady
    <3>1. outbox' \in Seq(Requests \cup Controls)
      BY <2>4 DEF JoinReady, OpenConnection, Sent, Controls
    <3>2. QED
      BY <2>4, <3>1 DEF JoinReady, OpenConnection, Issue, NextRequestId, Requests
  <2>5. CASE AttachTimesOut
    BY <2>5 DEF AttachTimesOut
  <2>6. ASSUME NEW f \in Fibers, Write(f) PROVE TypeOK'
    BY <2>6 DEF Write, Sent
  <2>7. ASSUME NEW f \in Fibers, Load(f) PROVE TypeOK'
    BY <2>7 DEF Load, Free, Issue, NextRequestId, Requests
  <2>8. ASSUME NEW f \in Fibers, MediaCommand(f) PROVE TypeOK'
    BY <2>8 DEF MediaCommand, Free, Issue, NextRequestId, Requests
  <2>9. ASSUME NEW f \in Fibers, SetVolume(f) PROVE TypeOK'
    BY <2>9 DEF SetVolume, Free, Issue, NextRequestId, Requests
  <2>10. ASSUME NEW f \in Fibers, StopReceiver(f) PROVE TypeOK'
    BY <2>10 DEF StopReceiver, Free, Issue, NextRequestId, Requests
  <2>11. CASE Route
    <3>1. Head(inbox) \in Replies /\ inbox' \in Seq(Replies)
      BY <2>11 DEF Route
    <3>2. transportId' \in Option(Apps) /\ sessionId' \in Option(Apps)
            /\ mediaSessionId' \in Option(Apps)
      BY <2>11, <3>1 DEF Route, TransportAfter, SessionAfter,
                         MediaSessionAfter, Known, Replies
    <3>3. outbox' \in Seq(Requests \cup Controls)
      BY <2>11 DEF Route, Sent, Controls
    <3>4. QED
      BY <2>11, <3>1, <3>2, <3>3 DEF Route
  <2>12. CASE Pump /\ ~Route
    BY <2>12 DEF Pump, PumpEnds, PumpFails
  <2>13. CASE Reader
    BY <2>13 DEF Reader, Watch, ReaderTold
  <2>14. CASE HearConnect
    <3>1. Head(outbox) \in Requests \cup Controls
      BY <2>14 DEF HearConnect
    <3>2. QED
      BY <2>14, <3>1 DEF HearConnect, Requests, Controls
  <2>15. CASE HearPong
    BY <2>15 DEF HearPong
  <2>16. ASSUME NEW m, Hear(m)
         PROVE  /\ m \in Requests
                /\ outbox' \in Seq(Requests \cup Controls)
                /\ heard' \in Seq(Requests)
    <3>1. m \in Requests \cup Controls
      BY <2>16 DEF Hear
    <3>2. m \in Requests
      BY <2>16, <3>1 DEF Hear, Controls
    <3>3. QED
      BY <2>16, <3>2 DEF Hear
  <2>17. CASE HearUnconnected
    BY <2>17, <2>16 DEF HearUnconnected
  <2>18. CASE HearStale
    BY <2>18, <2>16 DEF HearStale
  <2>19. CASE HearLaunch
    <3>1. app' \in Option(Apps) /\ usedApps' \in SUBSET Apps
            /\ playing' \in BOOLEAN
      BY <2>19 DEF HearLaunch
    <3>2. inbox' \in Seq(Replies)
      BY <2>19, <3>1 DEF HearLaunch, ReceiverStatus, Replies
    <3>3. QED
      BY <2>19, <2>16, <3>1, <3>2 DEF HearLaunch
  <2>20. CASE HearReceiverRequest
    <3>1. app' \in Option(Apps) /\ playing' \in BOOLEAN
      BY <2>20 DEF HearReceiverRequest
    <3>2. inbox' \in Seq(Replies)
      BY <2>20, <3>1 DEF HearReceiverRequest, ReceiverStatus, Replies
    <3>3. QED
      BY <2>20, <2>16, <3>1, <3>2 DEF HearReceiverRequest
  <2>21. CASE HearMedia
    <3>1. playing' \in BOOLEAN
      BY <2>21 DEF HearMedia
    <3>2. \E r \in Replies : inbox' = Append(inbox, r)
      BY <2>21, <3>1 DEF HearMedia, MediaStatus, Replies
    <3>3. inbox' \in Seq(Replies)
      BY <3>2
    <3>4. QED
      BY <2>21, <2>16, <3>1, <3>3 DEF HearMedia
  <2>22. CASE Ping
    BY <2>22 DEF Ping, Replies
  <2>23. CASE AppReplaced
    <3>1. app' \in Option(Apps) /\ usedApps' \in SUBSET Apps
      BY <2>23 DEF AppReplaced
    <3>2. inbox' \in Seq(Replies)
      BY <2>23, <3>1 DEF AppReplaced, ReceiverStatus, Replies
    <3>3. QED
      BY <2>23, <3>1, <3>2 DEF AppReplaced
  <2>24. CASE LinkEnds
    BY <2>24 DEF LinkEnds
  <2>25. CASE UNCHANGED vars
    BY <2>25 DEF vars
  <2>26. QED
    BY <2>1, <2>2, <2>3, <2>4, <2>5, <2>6, <2>7, <2>8, <2>9, <2>10, <2>11,
       <2>12, <2>13, <2>14, <2>15, <2>17, <2>18, <2>19, <2>20, <2>21, <2>22,
       <2>23, <2>24, <2>25
    DEF Next, Sender, Pump, Device
<1>3. QED
  BY <1>1, <1>2, PTL DEF Spec

-----------------------------------------------------------------------------
(* Request ids.  NoIdTwice alone is not inductive: an id is also at risk   *)
(* while a fiber holds it and while it waits on the wire.                  *)

IsRequest(m) == m.type \notin {"CONNECT", "PONG"}

IdsIssued ==
  /\ \A i \in DOMAIN heard : heard[i].id < requestId
  /\ \A i \in DOMAIN outbox : IsRequest(outbox[i]) => outbox[i].id < requestId
  /\ \A f \in Fibers : call[f] # None => call[f].id < requestId

IdsApart ==
  /\ \A i \in DOMAIN heard, j \in DOMAIN outbox :
       IsRequest(outbox[j]) => heard[i].id # outbox[j].id
  /\ \A i, j \in DOMAIN outbox :
       i # j /\ IsRequest(outbox[i]) /\ IsRequest(outbox[j])
         => outbox[i].id # outbox[j].id
  /\ \A f \in Fibers, i \in DOMAIN heard :
       call[f] # None => call[f].id # heard[i].id
  /\ \A f \in Fibers, i \in DOMAIN outbox :
       call[f] # None /\ IsRequest(outbox[i]) => call[f].id # outbox[i].id
  /\ \A f, g \in Fibers :
       f # g /\ call[f] # None /\ call[g] # None => call[f].id # call[g].id

IdInv == IdsIssued /\ NoIdTwice /\ IdsApart

(* A step that writes at most a CONNECT or a PONG. *)
WritesControl ==
  outbox' = outbox \/ \E c \in Controls : outbox' = Append(outbox, c)

LEMMA ControlsAreNotRequests ==
  /\ \A c \in Controls : ~IsRequest(c)
  /\ \A m \in Requests : IsRequest(m)
  /\ \A to \in Destinations :
       /\ [to |-> to, type |-> "CONNECT"] \in Controls
       /\ [to |-> to, type |-> "PONG"] \in Controls
BY DEF IsRequest, Controls, Requests

(* What a step that writes at most a control leaves of the requests.       *)
LEMMA ControlsLeaveRequests ==
  ASSUME TypeOK, WritesControl
  PROVE  \A i \in DOMAIN outbox' : IsRequest(outbox'[i]) =>
           i \in DOMAIN outbox /\ outbox'[i] = outbox[i]
<1>1. CASE outbox' = outbox
  BY <1>1
<1>2. ASSUME NEW c \in Controls, outbox' = Append(outbox, c)
      PROVE  \A i \in DOMAIN outbox' : IsRequest(outbox'[i]) =>
               i \in DOMAIN outbox /\ outbox'[i] = outbox[i]
  <2>1. \A i \in DOMAIN outbox' :
          \/ i \in DOMAIN outbox /\ outbox'[i] = outbox[i]
          \/ outbox'[i] = c
    BY <1>2 DEF TypeOK
  <2>2. QED
    BY <2>1, ControlsAreNotRequests
<1>3. QED
  BY <1>1, <1>2 DEF WritesControl

LEMMA RequestIdsAreNat ==
  ASSUME TypeOK
  PROVE  /\ \A i \in DOMAIN heard : heard[i].id \in Nat
         /\ \A i \in DOMAIN outbox :
              IsRequest(outbox[i]) => outbox[i].id \in Nat
         /\ \A g \in Fibers : call[g] # None => call[g].id \in Nat
<1>1. \A m \in Requests : m.id \in Nat
  BY DEF Requests
<1>2. \A i \in DOMAIN heard : heard[i] \in Requests
  BY DEF TypeOK
<1>3. \A i \in DOMAIN outbox : IsRequest(outbox[i]) => outbox[i] \in Requests
  BY ControlsAreNotRequests DEF TypeOK
<1>4. \A g \in Fibers : call[g] # None => call[g] \in Requests
  BY DEF TypeOK, Option
<1>5. QED
  BY <1>1, <1>2, <1>3, <1>4

(* Issuing a request keeps the ids apart: its id is the counter's, which   *)
(* nothing holds yet.                                                      *)
LEMMA IssueKeepsIds ==
  ASSUME TypeOK, IdInv, NEW f \in Fibers, NEW to, NEW type, NEW of,
         Issue(f, to, type, of), UNCHANGED heard, WritesControl
  PROVE  IdInv'
<1>1. requestId' = requestId + 1 /\ requestId \in Nat
  BY DEF Issue, NextRequestId, TypeOK
<1>2. /\ call'[f].id = requestId
      /\ \A g \in Fibers : g # f => call'[g] = call[g]
  BY DEF Issue, TypeOK
<1>3. /\ Len(outbox) \in Nat
      /\ \A i \in DOMAIN outbox' : IsRequest(outbox'[i]) =>
           i \in DOMAIN outbox /\ outbox'[i] = outbox[i]
  BY ControlsLeaveRequests DEF TypeOK
<1>4. /\ \A i \in DOMAIN heard : heard[i].id \in Nat
      /\ \A i \in DOMAIN outbox : IsRequest(outbox[i]) => outbox[i].id \in Nat
      /\ \A g \in Fibers : call[g] # None => call[g].id \in Nat
  BY RequestIdsAreNat
<1>5. IdsIssued'
  BY <1>1, <1>2, <1>3, <1>4 DEF IdInv, IdsIssued
<1>6. NoIdTwice'
  BY DEF IdInv, NoIdTwice
<1>7. IdsApart'
  BY <1>1, <1>2, <1>3, <1>4 DEF IdInv, IdsIssued, IdsApart
<1>8. QED
  BY <1>5, <1>6, <1>7 DEF IdInv

(* So does a step that issues nothing, writes no request and reads none.   *)
LEMMA QuietKeepsIds ==
  ASSUME TypeOK, IdInv, requestId' \in {requestId, requestId + 1},
         UNCHANGED <<call, heard>>,
         \/ WritesControl
         \/ outbox # <<>> /\ outbox' = Tail(outbox)
  PROVE  IdInv'
<1>1. /\ \A i \in DOMAIN heard : heard[i].id \in Nat
      /\ \A i \in DOMAIN outbox : IsRequest(outbox[i]) => outbox[i].id \in Nat
      /\ \A g \in Fibers : call[g] # None => call[g].id \in Nat
  BY RequestIdsAreNat
<1>2. requestId \in Nat /\ Len(outbox) \in Nat
  BY DEF TypeOK
<1>3. CASE WritesControl
  <2>1. \A i \in DOMAIN outbox' : IsRequest(outbox'[i]) =>
          i \in DOMAIN outbox /\ outbox'[i] = outbox[i]
    BY <1>3, ControlsLeaveRequests
  <2>2. QED
    BY <1>1, <1>2, <2>1 DEF IdInv, IdsIssued, NoIdTwice, IdsApart
<1>4. CASE outbox # <<>> /\ outbox' = Tail(outbox)
  <2>1. \A i \in DOMAIN outbox' :
          i + 1 \in DOMAIN outbox /\ outbox'[i] = outbox[i + 1]
    BY <1>4 DEF TypeOK
  <2>2. \A i \in DOMAIN outbox' : i \in Nat
    BY <1>4 DEF TypeOK
  <2>3. QED
    BY <1>1, <1>2, <2>1, <2>2 DEF IdInv, IdsIssued, NoIdTwice, IdsApart
<1>5. QED
  BY <1>3, <1>4

(* Writing moves an id from a fiber to the wire.                           *)
LEMMA WriteKeepsIds ==
  ASSUME TypeOK, IdInv, NEW f \in Fibers, Write(f)
  PROVE  IdInv'
<1>1. /\ call[f] # None
      /\ call'[f] = None
      /\ \A g \in Fibers : g # f => call'[g] = call[g]
      /\ UNCHANGED <<requestId, heard>>
  BY DEF Write, ids, receiver, TypeOK
<1>2. CASE outbox' = outbox
  BY <1>1, <1>2 DEF IdInv, IdsIssued, NoIdTwice, IdsApart
<1>3. CASE outbox' = Append(outbox, call[f])
  <2>1. \A i \in DOMAIN outbox' :
          \/ i \in DOMAIN outbox /\ outbox'[i] = outbox[i]
          \/ i = Len(outbox) + 1 /\ outbox'[i] = call[f]
    BY <1>3 DEF TypeOK
  <2>2. IdsIssued'
    BY <1>1, <2>1 DEF IdInv, IdsIssued
  <2>3. NoIdTwice'
    BY <1>1 DEF IdInv, NoIdTwice
  <2>4. IdsApart'
    BY <1>1, <2>1 DEF IdInv, IdsApart
  <2>5. QED
    BY <2>2, <2>3, <2>4 DEF IdInv
<1>4. QED
  BY <1>2, <1>3 DEF Write, Sent

(* Hearing moves an id from the wire to the receiver.                      *)
LEMMA HearKeepsIds ==
  ASSUME TypeOK, IdInv, NEW m, Hear(m), UNCHANGED <<requestId, call>>
  PROVE  IdInv'
<1>1. /\ outbox # <<>>
      /\ m = outbox[1]
      /\ IsRequest(outbox[1])
      /\ 1 \in DOMAIN outbox
  BY DEF Hear, TypeOK, IsRequest
<1>2. /\ \A i \in DOMAIN outbox' :
           i \in Nat /\ i + 1 \in DOMAIN outbox /\ outbox'[i] = outbox[i + 1]
  BY <1>1 DEF Hear, TypeOK
<1>3. \A i \in DOMAIN heard' :
        \/ i \in DOMAIN heard /\ heard'[i] = heard[i]
        \/ i = Len(heard) + 1 /\ heard'[i] = outbox[1]
  <2>1. m \in Requests
    BY <1>1, ControlsAreNotRequests DEF TypeOK
  <2>2. QED
    BY <1>1, <2>1 DEF Hear, TypeOK
<1>4. IdsIssued'
  BY <1>1, <1>2, <1>3 DEF IdInv, IdsIssued
<1>5. NoIdTwice'
  BY <1>1, <1>3 DEF IdInv, NoIdTwice, IdsApart
<1>6. IdsApart'
  <2>1. \A i \in Nat : i + 1 = 1 => i = 0
    OBVIOUS
  <2>2. \A i \in DOMAIN outbox' : i + 1 # 1
    BY <1>1 DEF Hear, TypeOK
  <2>3. \A i \in DOMAIN heard', j \in DOMAIN outbox' :
          IsRequest(outbox'[j]) => heard'[i].id # outbox'[j].id
    BY <1>1, <1>2, <1>3, <2>2 DEF IdInv, IdsApart
  <2>4. \A i, j \in DOMAIN outbox' :
          i # j /\ IsRequest(outbox'[i]) /\ IsRequest(outbox'[j])
            => outbox'[i].id # outbox'[j].id
    BY <1>2 DEF IdInv, IdsApart
  <2>5. \A f \in Fibers, i \in DOMAIN heard' :
          call[f] # None => call[f].id # heard'[i].id
    BY <1>1, <1>3 DEF IdInv, IdsApart
  <2>6. \A f \in Fibers, i \in DOMAIN outbox' :
          call[f] # None /\ IsRequest(outbox'[i]) => call[f].id # outbox'[i].id
    BY <1>2 DEF IdInv, IdsApart
  <2>7. QED
    BY <2>3, <2>4, <2>5, <2>6 DEF IdInv, IdsApart
<1>7. QED
  BY <1>4, <1>5, <1>6 DEF IdInv

(* No two requests the receiver reads carry the same id, whatever the      *)
(* fibers and however their writes interleave (Session.ts nextRequestId).  *)
THEOREM FreshIds == Spec => []NoIdTwice
<1>1. Init => IdInv
  BY DEF Init, IdInv, IdsIssued, NoIdTwice, IdsApart, IsRequest
<1>2. TypeOK /\ IdInv /\ [Next]_vars => IdInv'
  <2> SUFFICES ASSUME TypeOK, IdInv, [Next]_vars PROVE IdInv'
    OBVIOUS
  <2> USE CastSessionAssumption DEF ids, sender, ending, receiver
  <2>1. CASE Launch
    BY <2>1, IssueKeepsIds DEF Launch, WritesControl
  <2>2. CASE Join
    BY <2>2, IssueKeepsIds DEF Join, WritesControl
  <2>3. ASSUME NEW to \in Destinations, OpenConnection(to) PROVE WritesControl
    BY <2>3, ControlsAreNotRequests DEF OpenConnection, Sent, WritesControl
  <2>4. CASE LaunchReady
    <3>1. transportId \in Destinations
      BY <2>4 DEF LaunchReady, TypeOK, Option, Destinations
    <3>2. WritesControl
      BY <2>4, <2>3, <3>1 DEF LaunchReady
    <3>3. QED
      BY <2>4, <3>2, QuietKeepsIds DEF LaunchReady
  <2>5. CASE JoinReady
    <3>1. transportId \in Destinations
      BY <2>5 DEF JoinReady, TypeOK, Option, Destinations
    <3>2. WritesControl
      BY <2>5, <2>3, <3>1 DEF JoinReady
    <3>3. QED
      BY <2>5, <3>2, IssueKeepsIds DEF JoinReady
  <2>6. CASE AttachTimesOut
    BY <2>6, QuietKeepsIds DEF AttachTimesOut, WritesControl
  <2>7. ASSUME NEW f \in Fibers, Write(f) PROVE IdInv'
    BY <2>7, WriteKeepsIds
  <2>8. ASSUME NEW f \in Fibers, Load(f) PROVE IdInv'
    BY <2>8, IssueKeepsIds DEF Load, WritesControl
  <2>9. ASSUME NEW f \in Fibers, MediaCommand(f) PROVE IdInv'
    BY <2>9, IssueKeepsIds, QuietKeepsIds
    DEF MediaCommand, NextRequestId, WritesControl
  <2>10. ASSUME NEW f \in Fibers, SetVolume(f) PROVE IdInv'
    BY <2>10, IssueKeepsIds DEF SetVolume, WritesControl
  <2>11. ASSUME NEW f \in Fibers, StopReceiver(f) PROVE IdInv'
    BY <2>11, IssueKeepsIds, QuietKeepsIds
    DEF StopReceiver, NextRequestId, WritesControl
  <2>12. CASE Route
    <3>1. WritesControl
      BY <2>12, ControlsAreNotRequests
      DEF Route, Sent, WritesControl, Destinations
    <3>2. QED
      BY <2>12, <3>1, QuietKeepsIds DEF Route
  <2>13. CASE PumpEnds \/ PumpFails \/ Reader
    BY <2>13, QuietKeepsIds
    DEF PumpEnds, PumpFails, Reader, Watch, ReaderTold, WritesControl
  <2>14. CASE HearConnect \/ HearPong
    BY <2>14, QuietKeepsIds DEF HearConnect, HearPong
  <2>15. CASE HearUnconnected
    BY <2>15, HearKeepsIds DEF HearUnconnected
  <2>16. CASE HearStale
    BY <2>16, HearKeepsIds DEF HearStale
  <2>17. CASE HearLaunch
    BY <2>17, HearKeepsIds DEF HearLaunch
  <2>18. CASE HearReceiverRequest
    BY <2>18, HearKeepsIds DEF HearReceiverRequest
  <2>19. CASE HearMedia
    BY <2>19, HearKeepsIds DEF HearMedia
  <2>20. CASE Ping \/ AppReplaced \/ LinkEnds
    BY <2>20, QuietKeepsIds DEF Ping, AppReplaced, LinkEnds, WritesControl
  <2>21. CASE UNCHANGED vars
    BY <2>21, QuietKeepsIds DEF vars, WritesControl
  <2>22. QED
    BY <2>1, <2>2, <2>4, <2>5, <2>6, <2>7, <2>8, <2>9, <2>10, <2>11, <2>12,
       <2>13, <2>14, <2>15, <2>16, <2>17, <2>18, <2>19, <2>20, <2>21
    DEF Next, Sender, Pump, Device
<1>3. IdInv => NoIdTwice
  BY DEF IdInv
<1>4. QED
  BY <1>1, <1>2, <1>3, Typing, PTL DEF Spec

-----------------------------------------------------------------------------
(* Connections.  OpenedIsHeard needs to know where each CONNECT is: either *)
(* the receiver has had it, or it is on the wire ahead of every request    *)
(* to the same destination.                                                *)

Connect(d) == [to |-> d, type |-> "CONNECT"]

(* The CONNECT for d is the k-th message on the wire and nothing to d      *)
(* overtakes it.                                                           *)
Leads(k, d) ==
  /\ k \in DOMAIN outbox
  /\ outbox[k] = Connect(d)
  /\ \A i \in DOMAIN outbox : i < k /\ IsRequest(outbox[i]) => outbox[i].to # d

WireInv ==
  /\ Receiver \in connected
  /\ joined \subseteq connected
  /\ \A i \in DOMAIN outbox :
       outbox[i].type = "CONNECT" => outbox[i].to \in connected
  /\ link = "open" =>
       \A d \in connected : d \in joined \/ \E k \in DOMAIN outbox : Leads(k, d)
  /\ OpenedIsHeard

(* Every request a fiber holds, the wire carries or the receiver has read. *)
Requested ==
  {r \in {call[f] : f \in Fibers} : r # None}
    \cup {r \in {outbox[i] : i \in DOMAIN outbox} : IsRequest(r)}
    \cup {heard[i] : i \in DOMAIN heard}

(* Until the session is attached only the receiver itself is addressed;    *)
(* then one application at most is ever opened.                            *)
StageInv ==
  /\ attach # "attached" =>
       /\ connected = {Receiver}
       /\ ignored = {}
       /\ \A r \in Requested : r.to = Receiver
  /\ \A a, b \in connected \cap Apps : a = b

NamesItsOwn(r) == r.to \in connected \cap Apps => r.of \in {None, r.to}

(* Whose sessions the sender can know: a media status comes only from an   *)
(* application it has opened, and the two ids of an application travel     *)
(* together.                                                               *)
NameInv ==
  /\ sessionId = transportId
  /\ mediaSessionId \in connected \cup {None}
  /\ \A i \in DOMAIN inbox :
       inbox[i].type = "MEDIA_STATUS" => inbox[i].of \in connected \cup {None}
  /\ \A r \in Requested : NamesItsOwn(r)

ConnInv == WireInv /\ StageInv /\ NameInv

(* Where a message that is on the wire after a step was before it.         *)
LEMMA WireSteps ==
  ASSUME TypeOK
  PROVE  /\ Len(outbox) \in Nat
         /\ outbox # <<>> =>
              /\ 1 \in DOMAIN outbox
              /\ Head(outbox) = outbox[1]
              /\ Len(Tail(outbox)) = Len(outbox) - 1
              /\ \A i \in DOMAIN Tail(outbox) :
                   /\ i \in Nat \ {0}
                   /\ i + 1 \in DOMAIN outbox
                   /\ Tail(outbox)[i] = outbox[i + 1]
              /\ \A k \in DOMAIN outbox :
                   k # 1 => /\ k - 1 \in DOMAIN Tail(outbox)
                            /\ Tail(outbox)[k - 1] = outbox[k]
         /\ \A x \in Requests \cup Controls :
              /\ Len(Append(outbox, x)) = Len(outbox) + 1
              /\ Append(outbox, x)[Len(outbox) + 1] = x
              /\ \A i \in DOMAIN outbox :
                   /\ i \in DOMAIN Append(outbox, x)
                   /\ i < Len(outbox) + 1
                   /\ Append(outbox, x)[i] = outbox[i]
              /\ \A i \in DOMAIN Append(outbox, x) :
                   i \in DOMAIN outbox \/ i = Len(outbox) + 1
BY DEF TypeOK

(* A CONNECT keeps its lead when something is written behind it, and when  *)
(* something ahead of it is read.                                          *)
LEMMA LeadKept ==
  ASSUME TypeOK, NEW d, NEW k, Leads(k, d)
  PROVE  /\ outbox' = outbox => Leads(k, d)'
         /\ \A x \in Requests \cup Controls :
              outbox' = Append(outbox, x) => Leads(k, d)'
         /\ outbox # <<>> /\ outbox' = Tail(outbox) /\ k # 1
              => Leads(k - 1, d)'
<1>1. outbox' = outbox => Leads(k, d)'
  BY DEF Leads
<1>2. ASSUME NEW x \in Requests \cup Controls, outbox' = Append(outbox, x)
      PROVE  Leads(k, d)'
  <2>1. k \in DOMAIN outbox /\ k \in Nat
    BY DEF Leads, TypeOK
  <2>2. \A i \in DOMAIN outbox' : i < k => i \in DOMAIN outbox
    BY <1>2, <2>1, WireSteps
  <2>3. QED
    BY <1>2, <2>1, <2>2, WireSteps DEF Leads
<1>3. ASSUME outbox # <<>>, outbox' = Tail(outbox), k # 1
      PROVE  Leads(k - 1, d)'
  <2>1. k \in DOMAIN outbox /\ k \in Nat
    BY DEF Leads, TypeOK
  <2>2. k - 1 \in DOMAIN outbox' /\ outbox'[k - 1] = Connect(d)
    BY <1>3, <2>1, WireSteps DEF Leads
  <2>3. \A i \in DOMAIN outbox' : i < k - 1 => i + 1 < k
    BY <1>3, <2>1, WireSteps
  <2>4. QED
    BY <1>3, <2>2, <2>3, WireSteps DEF Leads, Connect
<1>4. QED
  BY <1>1, <1>2, <1>3

(* WireInv through a step that changes neither connections nor what the    *)
(* receiver has read, and writes at most a request or a PONG.              *)
LEMMA WritingKeepsWire ==
  ASSUME TypeOK, WireInv, UNCHANGED <<connected, joined, ignored>>,
         link' # "open" \/ link' = link,
         \/ outbox' = outbox
         \/ \E x \in Requests \cup Controls :
              x.type # "CONNECT" /\ outbox' = Append(outbox, x)
  PROVE  WireInv'
<1>1. \A i \in DOMAIN outbox' :
        outbox'[i].type = "CONNECT" => outbox'[i].to \in connected
  BY WireSteps DEF WireInv
<1>2. link' = "open" =>
        \A d \in connected : d \in joined \/ \E k \in DOMAIN outbox' : Leads(k, d)'
  <2>1. \A d, k : Leads(k, d) => k \in DOMAIN outbox' /\ Leads(k, d)'
    BY LeadKept DEF Leads
  <2>2. QED
    BY <2>1 DEF WireInv
<1>3. QED
  BY <1>1, <1>2 DEF WireInv, OpenedIsHeard

(* WireInv through the opening of a connection.                            *)
LEMMA OpeningKeepsWire ==
  ASSUME TypeOK, WireInv, StageInv, attach # "attached",
         NEW to \in Apps, OpenConnection(to),
         UNCHANGED <<joined, ignored, link>>
  PROVE  WireInv'
<1> USE CastSessionAssumption
<1>1. /\ connected = {Receiver} /\ ignored = {}
      /\ connected' = {Receiver, to} /\ to \notin connected
  BY DEF StageInv, OpenConnection
<1>2. Connect(to) \in Controls
  BY DEF Connect, Controls, Destinations
<1>3. CASE link = "open"
  <2>1. outbox' = Append(outbox, Connect(to))
    BY <1>1, <1>3 DEF OpenConnection, Sent, Connect
  <2>2. \A i \in DOMAIN outbox' :
          outbox'[i].type = "CONNECT" => outbox'[i].to \in connected'
    BY <1>1, <1>2, <2>1, WireSteps DEF WireInv, Connect
  <2>3. \A i \in DOMAIN outbox : IsRequest(outbox[i]) => outbox[i].to = Receiver
    BY DEF StageInv, Requested
  <2>4. \E n \in DOMAIN outbox' : Leads(n, to)'
    <3>1. PICK n \in Nat : n = Len(outbox) + 1
      BY WireSteps
    <3>2. n \in DOMAIN outbox' /\ outbox'[n] = Connect(to)
      BY <1>2, <2>1, <3>1, WireSteps
    <3>3. \A i \in DOMAIN outbox' : i < n =>
            i \in DOMAIN outbox /\ outbox'[i] = outbox[i]
      BY <1>2, <2>1, <3>1, WireSteps
    <3>4. to # Receiver
      BY <1>1
    <3>5. Leads(n, to)'
      BY <2>3, <3>2, <3>3, <3>4 DEF Leads, Connect
    <3>6. QED
      BY <3>2, <3>5
  <2>5. \A k : Leads(k, Receiver) => k \in DOMAIN outbox' /\ Leads(k, Receiver)'
    BY <1>2, <2>1, LeadKept DEF Leads
  <2>6. \A d \in connected' : d \in joined \/ \E k \in DOMAIN outbox' : Leads(k, d)'
    <3>1. Receiver \in joined \/ \E k \in DOMAIN outbox : Leads(k, Receiver)
      BY <1>3 DEF WireInv
    <3>2. QED
      BY <1>1, <2>4, <2>5, <3>1
  <2>7. QED
    BY <1>1, <2>2, <2>6 DEF WireInv, OpenedIsHeard
<1>4. CASE link # "open"
  <2>1. outbox' = outbox
    BY <1>4 DEF OpenConnection, Sent
  <2>2. QED
    BY <1>1, <1>4, <2>1 DEF WireInv, OpenedIsHeard
<1>5. QED
  BY <1>3, <1>4

(* WireInv through the reading of one message.                             *)
LEMMA ReadingKeepsWire ==
  ASSUME TypeOK, WireInv, UNCHANGED <<connected, link>>, link = "open",
         outbox # <<>>, outbox' = Tail(outbox),
         \/ /\ outbox[1].type = "CONNECT"
            /\ joined' = joined \cup {outbox[1].to}
            /\ UNCHANGED ignored
         \/ /\ outbox[1].type # "CONNECT"
            /\ UNCHANGED joined
            /\ \/ UNCHANGED ignored
               \/ /\ IsRequest(outbox[1])
                  /\ outbox[1].to \notin joined
                  /\ ignored' = ignored \cup {outbox[1]}
  PROVE  WireInv'
<1>1. /\ joined' \subseteq connected
      /\ \A i \in DOMAIN outbox' :
           outbox'[i].type = "CONNECT" => outbox'[i].to \in connected
  BY WireSteps DEF WireInv
<1>2. \A d \in connected :
        d \in joined' \/ \E k \in DOMAIN outbox' : Leads(k, d)'
  <2> SUFFICES ASSUME NEW d \in connected, d \notin joined'
               PROVE  \E k \in DOMAIN outbox' : Leads(k, d)'
    OBVIOUS
  <2>1. PICK k \in DOMAIN outbox : Leads(k, d)
    BY DEF WireInv
  <2>2. k # 1
    BY <2>1 DEF Leads, Connect
  <2>3. Leads(k - 1, d)'
    BY <2>1, <2>2, LeadKept
  <2>4. QED
    BY <2>3 DEF Leads
<1>3. OpenedIsHeard'
  <2>1. CASE UNCHANGED ignored
    BY <2>1 DEF WireInv, OpenedIsHeard
  <2>2. CASE /\ IsRequest(outbox[1])
             /\ outbox[1].to \notin joined
             /\ ignored' = ignored \cup {outbox[1]}
    <3>1. outbox[1].to \notin connected
      <4> SUFFICES ASSUME outbox[1].to \in connected PROVE FALSE
        OBVIOUS
      <4>1. PICK k \in DOMAIN outbox : Leads(k, outbox[1].to)
        BY <2>2 DEF WireInv
      <4>2. k \in Nat \ {0} /\ 1 \in DOMAIN outbox
        BY WireSteps DEF TypeOK
      <4>3. k = 1
        BY <2>2, <4>1, <4>2 DEF Leads
      <4>4. QED
        BY <2>2, <4>1, <4>3 DEF Leads, Connect, IsRequest
    <3>2. QED
      BY <2>2, <3>1 DEF WireInv, OpenedIsHeard
  <2>3. QED
    BY <2>1, <2>2
<1>4. QED
  BY <1>1, <1>2, <1>3 DEF WireInv

(* What the requests in being after a step were before it.                 *)
LEMMA RequestedAfterQuiet ==
  ASSUME TypeOK, UNCHANGED <<call, heard>>,
         WritesControl \/ (outbox # <<>> /\ outbox' = Tail(outbox))
  PROVE  Requested' \subseteq Requested
<1>1. \A i \in DOMAIN outbox' : IsRequest(outbox'[i]) =>
        \E j \in DOMAIN outbox : outbox'[i] = outbox[j]
  <2>1. CASE WritesControl
    BY <2>1, ControlsLeaveRequests
  <2>2. CASE outbox # <<>> /\ outbox' = Tail(outbox)
    BY <2>2, WireSteps
  <2>3. QED
    BY <2>1, <2>2
<1>2. QED
  BY <1>1 DEF Requested

LEMMA RequestedAfterIssue ==
  ASSUME TypeOK, NEW f \in Fibers, NEW to, NEW type, NEW of,
         Issue(f, to, type, of), UNCHANGED heard, WritesControl
  PROVE  \A r \in Requested' : r \in Requested \/ (r.to = to /\ r.of = of)
<1>1. \A i \in DOMAIN outbox' : IsRequest(outbox'[i]) =>
        i \in DOMAIN outbox /\ outbox'[i] = outbox[i]
  BY ControlsLeaveRequests
<1>2. \A g \in Fibers : \/ call'[g] = call[g]
                        \/ call'[g].to = to /\ call'[g].of = of
  BY DEF Issue, TypeOK
<1>3. QED
  BY <1>1, <1>2 DEF Requested

LEMMA RequestedAfterWrite ==
  ASSUME TypeOK, NEW f \in Fibers, Write(f)
  PROVE  Requested' \subseteq Requested
<1>1. /\ call[f] # None
      /\ call'[f] = None
      /\ \A g \in Fibers : g # f => call'[g] = call[g]
      /\ heard' = heard
  BY DEF Write, receiver, TypeOK
<1>2. call[f] \in Requests
  BY <1>1 DEF TypeOK, Option
<1>3. \A i \in DOMAIN outbox' :
        outbox'[i] = call[f] \/ \E j \in DOMAIN outbox : outbox'[i] = outbox[j]
  BY <1>2, WireSteps DEF Write, Sent
<1>4. QED
  BY <1>1, <1>3 DEF Requested

LEMMA RequestedAfterHear ==
  ASSUME TypeOK, NEW m, Hear(m), UNCHANGED call
  PROVE  /\ m \in Requested
         /\ m \in Requests
         /\ Requested' \subseteq Requested
<1>1. /\ m = outbox[1] /\ 1 \in DOMAIN outbox /\ IsRequest(m)
      /\ outbox # <<>> /\ outbox' = Tail(outbox)
  BY WireSteps DEF Hear, IsRequest
<1>2. m \in Requests
  BY <1>1, ControlsAreNotRequests DEF TypeOK
<1>3. \A i \in DOMAIN heard' :
        heard'[i] = m \/ \E j \in DOMAIN heard : heard'[i] = heard[j]
  BY <1>2 DEF Hear, TypeOK
<1>4. \A i \in DOMAIN outbox' : \E j \in DOMAIN outbox : outbox'[i] = outbox[j]
  BY <1>1, WireSteps
<1>5. m \in Requested
  BY <1>1 DEF Requested
<1>6. Requested' \subseteq Requested
  BY <1>3, <1>4, <1>5 DEF Requested
<1>7. QED
  BY <1>2, <1>5, <1>6

(* A media status can be added only by an application that is joined.      *)
LEMMA AnswersKeepNames ==
  ASSUME TypeOK, NameInv, NEW r \in Replies, inbox' = Append(inbox, r),
         r.type = "MEDIA_STATUS" => r.of \in connected \cup {None}
  PROVE  \A i \in DOMAIN inbox' :
           inbox'[i].type = "MEDIA_STATUS" => inbox'[i].of \in connected \cup {None}
<1>1. \A i \in DOMAIN inbox' :
        inbox'[i] = r \/ (i \in DOMAIN inbox /\ inbox'[i] = inbox[i])
  BY DEF TypeOK
<1>2. QED
  BY <1>1 DEF NameInv

(* StageInv and NameInv through a step that opens no connection.           *)
LEMMA OthersKeepNames ==
  ASSUME StageInv, NameInv, UNCHANGED <<connected, ids>>,
         attach = "attached" => attach' = "attached",
         attach # "attached" => ignored' = {},
         \A r \in Requested' :
           \/ r \in Requested
           \/ (attach # "attached" => r.to = Receiver) /\ NamesItsOwn(r),
         \A i \in DOMAIN inbox' :
           inbox'[i].type = "MEDIA_STATUS" => inbox'[i].of \in connected \cup {None}
  PROVE  StageInv' /\ NameInv'
<1>1. StageInv'
  BY DEF StageInv
<1>2. \A r \in Requested' : NamesItsOwn(r)
  BY DEF NameInv
<1>3. \A r : NamesItsOwn(r) => NamesItsOwn(r)'
  BY DEF NamesItsOwn
<1>4. NameInv'
  BY <1>2, <1>3 DEF NameInv, ids
<1>5. QED
  BY <1>1, <1>4

(* Reading a request: the wire, then the names.                            *)
LEMMA HearKeepsConn ==
  ASSUME TypeOK, ConnInv, NEW m, Hear(m),
         UNCHANGED <<connected, ids, attach, call, link, joined>>,
         \/ UNCHANGED ignored
         \/ m.to \notin joined /\ ignored' = ignored \cup {m},
         \/ inbox' = inbox
         \/ \E r \in Replies :
              /\ inbox' = Append(inbox, r)
              /\ r.type = "MEDIA_STATUS" => r.of \in connected \cup {None}
  PROVE  ConnInv'
<1>1. /\ outbox # <<>> /\ outbox' = Tail(outbox) /\ link = "open"
      /\ m = outbox[1] /\ IsRequest(outbox[1]) /\ outbox[1].type # "CONNECT"
  BY WireSteps DEF Hear, IsRequest
<1>2. WireInv'
  BY <1>1, ReadingKeepsWire DEF ConnInv
<1>3. m \in Requested /\ Requested' \subseteq Requested
  BY RequestedAfterHear
<1>4. attach # "attached" => ignored' = {}
  BY <1>2, <1>3 DEF ConnInv, StageInv, WireInv, OpenedIsHeard
<1>5. \A i \in DOMAIN inbox' :
        inbox'[i].type = "MEDIA_STATUS" => inbox'[i].of \in connected \cup {None}
  BY AnswersKeepNames DEF ConnInv, NameInv
<1>6. StageInv' /\ NameInv'
  BY <1>3, <1>4, <1>5, OthersKeepNames DEF ConnInv
<1>7. QED
  BY <1>2, <1>6 DEF ConnInv

(* Opening a connection, with or without a request of its own behind it.   *)
LEMMA OpeningKeepsConn ==
  ASSUME TypeOK, ConnInv, attach # "attached", NEW to \in Apps,
         OpenConnection(to), attach' = "attached",
         UNCHANGED <<ids, joined, ignored, link, inbox>>,
         \A r \in Requested' : r \in Requested \/ r.of = None
  PROVE  ConnInv'
<1> USE CastSessionAssumption
<1>1. /\ connected = {Receiver}
      /\ connected' = {Receiver, to}
  BY DEF ConnInv, StageInv, OpenConnection
<1>2. WireInv'
  BY OpeningKeepsWire DEF ConnInv
<1>3. StageInv'
  BY <1>1 DEF StageInv
<1>4. \A r \in Requested' : NamesItsOwn(r)'
  BY <1>1 DEF ConnInv, StageInv, NamesItsOwn
<1>5. NameInv'
  BY <1>1, <1>4 DEF ConnInv, NameInv, ids
<1>6. QED
  BY <1>2, <1>3, <1>5 DEF ConnInv

(* Every other step of the sender: it issues, writes or does neither.      *)
LEMMA SendingKeepsConn ==
  ASSUME TypeOK, ConnInv,
         UNCHANGED <<connected, ids, joined, ignored, inbox>>,
         link' # "open" \/ link' = link,
         attach = "attached" => attach' = "attached",
         \/ outbox' = outbox
         \/ \E x \in Requests \cup Controls :
              x.type # "CONNECT" /\ outbox' = Append(outbox, x),
         \A r \in Requested' :
           \/ r \in Requested
           \/ (attach # "attached" => r.to = Receiver) /\ NamesItsOwn(r)
  PROVE  ConnInv'
<1>1. WireInv'
  BY WritingKeepsWire DEF ConnInv
<1>2. StageInv' /\ NameInv'
  <2>1. attach # "attached" => ignored' = {}
    BY DEF ConnInv, StageInv
  <2>2. \A i \in DOMAIN inbox' :
          inbox'[i].type = "MEDIA_STATUS" => inbox'[i].of \in connected \cup {None}
    BY DEF ConnInv, NameInv
  <2>3. QED
    BY <2>1, <2>2, OthersKeepNames DEF ConnInv
<1>3. QED
  BY <1>1, <1>2 DEF ConnInv

LEMMA InitConn == Init => ConnInv
<1> USE CastSessionAssumption
<1> SUFFICES ASSUME Init PROVE ConnInv
  OBVIOUS
<1>1. /\ DOMAIN outbox = {1} /\ outbox[1] = Connect(Receiver)
      /\ connected = {Receiver} /\ joined = {} /\ ignored = {}
      /\ heard = <<>> /\ inbox = <<>>
      /\ sessionId = None /\ transportId = None /\ mediaSessionId = None
      /\ \A f \in Fibers : call[f] = None
  BY DEF Init, Connect
<1>2. Leads(1, Receiver)
  BY <1>1 DEF Leads
<1>3. WireInv
  BY <1>1, <1>2 DEF WireInv, OpenedIsHeard, Connect
<1>4. Requested = {}
  BY <1>1 DEF Requested, IsRequest, Connect
<1>5. StageInv
  BY <1>1, <1>4 DEF StageInv
<1>6. NameInv
  BY <1>1, <1>4 DEF NameInv
<1>7. QED
  BY <1>3, <1>5, <1>6 DEF ConnInv

(* A fiber that issues a request to the receiver itself, or one to the     *)
(* transport that names that transport's sessions.                         *)
LEMMA IssuingKeepsConn ==
  ASSUME TypeOK, ConnInv, NEW f \in Fibers, NEW to, NEW type, NEW of,
         Issue(f, to, type, of), UNCHANGED <<connected, ids, ending, link,
                                             outbox, inbox, receiver>>,
         attach = "attached" => attach' = "attached",
         attach # "attached" => to = Receiver,
         to \in connected \cap Apps => of \in {None, to}
  PROVE  ConnInv'
<1>1. \A r \in Requested' : r \in Requested \/ (r.to = to /\ r.of = of)
  BY RequestedAfterIssue DEF receiver, WritesControl
<1>2. \A r : r.to = to /\ r.of = of => NamesItsOwn(r)
  BY DEF NamesItsOwn
<1>3. QED
  BY <1>1, <1>2, SendingKeepsConn DEF receiver, ids

LEMMA SenderKeepsConn ==
  ASSUME TypeOK, ConnInv, Sender PROVE ConnInv'
<1> USE CastSessionAssumption DEF ids, ending, receiver
<1>1. CASE Launch
  BY <1>1, IssuingKeepsConn DEF Launch
<1>2. CASE Join
  BY <1>2, IssuingKeepsConn DEF Join
<1>3. CASE LaunchReady
  <2>1. transportId \in Apps
    BY <1>3 DEF LaunchReady, TypeOK, Option
  <2>2. Requested' \subseteq Requested
    <3>1. Connect(transportId) \in Controls
      BY <2>1 DEF Connect, Controls, Destinations
    <3>2. WritesControl
      BY <1>3, <3>1
      DEF LaunchReady, OpenConnection, Sent, WritesControl, Connect
    <3>3. QED
      BY <1>3, <3>2, RequestedAfterQuiet DEF LaunchReady
  <2>3. QED
    BY <1>3, <2>1, <2>2, OpeningKeepsConn DEF LaunchReady
<1>4. CASE JoinReady
  <2>1. transportId \in Apps
    BY <1>4 DEF JoinReady, TypeOK, Option
  <2>2. \A r \in Requested' : r \in Requested \/ r.of = None
    <3>1. Connect(transportId) \in Controls
      BY <2>1 DEF Connect, Controls, Destinations
    <3>2. WritesControl
      BY <1>4, <3>1
      DEF JoinReady, OpenConnection, Sent, WritesControl, Connect
    <3>3. QED
      BY <1>4, <3>2, RequestedAfterIssue DEF JoinReady
  <2>3. QED
    BY <1>4, <2>1, <2>2, OpeningKeepsConn DEF JoinReady
<1>5. CASE AttachTimesOut
  <2>1. Requested' \subseteq Requested
    BY <1>5, RequestedAfterQuiet DEF AttachTimesOut, WritesControl
  <2>2. QED
    BY <1>5, <2>1, SendingKeepsConn DEF AttachTimesOut
<1>6. ASSUME NEW f \in Fibers, Write(f) PROVE ConnInv'
  <2>1. call[f] \in Requests
    BY <1>6 DEF Write, TypeOK, Option
  <2>2. call[f].type # "CONNECT"
    BY <2>1 DEF Requests
  <2>3. Requested' \subseteq Requested
    BY <1>6, RequestedAfterWrite
  <2>4. QED
    BY <1>6, <2>1, <2>2, <2>3, SendingKeepsConn DEF Write, Sent
<1>7. ASSUME NEW f \in Fibers, Load(f) PROVE ConnInv'
  <2>1. sessionId = transportId
    BY DEF ConnInv, NameInv
  <2>2. QED
    BY <1>7, <2>1, IssuingKeepsConn DEF Load, Free
<1>8. ASSUME NEW f \in Fibers, SetVolume(f) PROVE ConnInv'
  BY <1>8, IssuingKeepsConn DEF SetVolume, Free
<1>9. ASSUME NEW f \in Fibers, UNCHANGED <<call, attach, connected, ids,
               ending, link, outbox, inbox, receiver>>
      PROVE  ConnInv'
  <2>1. Requested' \subseteq Requested
    BY <1>9, RequestedAfterQuiet DEF WritesControl
  <2>2. QED
    BY <1>9, <2>1, SendingKeepsConn
<1>10. ASSUME NEW f \in Fibers, MediaCommand(f) PROVE ConnInv'
  <2>1. transportId \in connected \cap Apps => mediaSessionId \in {None, transportId}
    <3>1. mediaSessionId \in connected \cup {None} /\ mediaSessionId \in Option(Apps)
      BY DEF ConnInv, NameInv, TypeOK
    <3>2. QED
      BY <3>1 DEF ConnInv, StageInv, Option
  <2>2. CASE mediaSessionId = None
    BY <1>10, <2>2, <1>9 DEF MediaCommand
  <2>3. CASE mediaSessionId # None
    BY <1>10, <2>1, <2>3, IssuingKeepsConn DEF MediaCommand, Free
  <2>4. QED
    BY <2>2, <2>3
<1>11. ASSUME NEW f \in Fibers, StopReceiver(f) PROVE ConnInv'
  <2>1. CASE sessionId = None
    BY <1>11, <2>1, <1>9 DEF StopReceiver
  <2>2. CASE sessionId # None
    BY <1>11, <2>2, IssuingKeepsConn DEF StopReceiver, Free
  <2>3. QED
    BY <2>1, <2>2
<1>12. QED
  BY <1>1, <1>2, <1>3, <1>4, <1>5, <1>6, <1>7, <1>8, <1>10, <1>11 DEF Sender

LEMMA RouteKeepsConn ==
  ASSUME TypeOK, ConnInv, Route PROVE ConnInv'
<1> USE CastSessionAssumption DEF receiver
<1>1. /\ inbox # <<>> /\ Head(inbox) = inbox[1] /\ 1 \in DOMAIN inbox
      /\ \A i \in DOMAIN inbox' :
           i + 1 \in DOMAIN inbox /\ inbox'[i] = inbox[i + 1]
  BY DEF Route, TypeOK
<1>2. Connect(Receiver) \in Controls /\ [to |-> Receiver, type |-> "PONG"] \in Controls
  BY DEF Connect, Controls, Destinations
<1>3. /\ \/ outbox' = outbox
         \/ outbox' = Append(outbox, [to |-> Receiver, type |-> "PONG"])
      /\ UNCHANGED <<connected, attach, call, link, joined, ignored, heard>>
  BY DEF Route, Sent
<1>4. WireInv'
  <2>1. [to |-> Receiver, type |-> "PONG"].type # "CONNECT"
    OBVIOUS
  <2>2. QED
    BY <1>2, <1>3, <2>1, WritingKeepsWire DEF ConnInv
<1>5. Requested' \subseteq Requested
  BY <1>2, <1>3, RequestedAfterQuiet DEF WritesControl
<1>6. StageInv'
  BY <1>3, <1>5 DEF ConnInv, StageInv
<1>7. sessionId' = transportId'
  BY DEF Route, TransportAfter, SessionAfter, ConnInv, NameInv
<1>8. mediaSessionId' \in connected \cup {None}
  BY <1>1 DEF Route, MediaSessionAfter, Known, ConnInv, NameInv
<1>9. \A i \in DOMAIN inbox' :
        inbox'[i].type = "MEDIA_STATUS" => inbox'[i].of \in connected \cup {None}
  BY <1>1 DEF ConnInv, NameInv
<1>10. \A r \in Requested' : NamesItsOwn(r)'
  BY <1>3, <1>5 DEF ConnInv, NameInv, NamesItsOwn
<1>11. NameInv'
  BY <1>3, <1>7, <1>8, <1>9, <1>10 DEF NameInv
<1>12. QED
  BY <1>4, <1>6, <1>11 DEF ConnInv

LEMMA DeviceKeepsConn ==
  ASSUME TypeOK, ConnInv, Device PROVE ConnInv'
<1> USE CastSessionAssumption DEF ids, sender, ending, receiver
<1>1. CASE HearConnect \/ HearPong
  <2>1. /\ outbox # <<>> /\ outbox' = Tail(outbox) /\ link = "open"
        /\ Head(outbox) = outbox[1]
    BY <1>1, WireSteps DEF HearConnect, HearPong
  <2>2. WireInv'
    BY <1>1, <2>1, ReadingKeepsWire DEF HearConnect, HearPong, ConnInv
  <2>3. Requested' \subseteq Requested
    BY <1>1, <2>1, RequestedAfterQuiet DEF HearConnect, HearPong
  <2>4. StageInv' /\ NameInv'
    <3>1. UNCHANGED <<connected, ids, attach, ignored, inbox>>
      BY <1>1 DEF HearConnect, HearPong
    <3>2. attach # "attached" => ignored' = {}
      BY <3>1 DEF ConnInv, StageInv
    <3>3. \A i \in DOMAIN inbox' : inbox'[i].type = "MEDIA_STATUS" =>
            inbox'[i].of \in connected \cup {None}
      BY <3>1 DEF ConnInv, NameInv
    <3>4. QED
      BY <2>3, <3>1, <3>2, <3>3, OthersKeepNames DEF ConnInv
  <2>5. QED
    BY <2>2, <2>4 DEF ConnInv
<1>2. CASE HearUnconnected
  BY <1>2, HearKeepsConn DEF HearUnconnected
<1>3. CASE HearStale
  BY <1>3, HearKeepsConn DEF HearStale
<1>4. \A a \in Option(Apps) : /\ ReceiverStatus(a) \in Replies
                             /\ ReceiverStatus(a).type # "MEDIA_STATUS"
  BY DEF ReceiverStatus, Replies
<1>5. CASE HearLaunch
  <2>1. app' \in Option(Apps)
    BY <1>5 DEF HearLaunch, TypeOK, Option
  <2>2. QED
    BY <1>5, <1>4, <2>1, HearKeepsConn DEF HearLaunch
<1>6. CASE HearReceiverRequest
  <2>1. app' \in Option(Apps)
    BY <1>6 DEF HearReceiverRequest, TypeOK, Option
  <2>2. QED
    BY <1>6, <1>4, <2>1, HearKeepsConn DEF HearReceiverRequest
<1>7. CASE HearMedia
  <2>1. app \in connected
    BY <1>7 DEF HearMedia, ConnInv, WireInv
  <2>2. PICK m : Hear(m)
    BY <1>7 DEF HearMedia
  <2>3. \E r \in Replies : /\ inbox' = Append(inbox, r)
                           /\ r.type = "MEDIA_STATUS" =>
                                r.of \in connected \cup {None}
    <3>1. /\ MediaStatus(app) \in Replies /\ MediaStatus(None) \in Replies
          /\ [type |-> "LOAD_FAILED"] \in Replies
          /\ MediaStatus(app).of = app /\ MediaStatus(None).of = None
      BY DEF MediaStatus, Replies, TypeOK, Option
    <3>2. \/ inbox' = Append(inbox, [type |-> "LOAD_FAILED"])
          \/ inbox' = Append(inbox, MediaStatus(app))
          \/ inbox' = Append(inbox, MediaStatus(None))
      BY <1>7 DEF HearMedia
    <3>3. QED
      BY <2>1, <3>1, <3>2
  <2>4. UNCHANGED <<connected, ids, attach, call, link, joined, ignored>>
    BY <1>7 DEF HearMedia
  <2>5. QED
    BY <2>2, <2>3, <2>4, HearKeepsConn
<1>8. ASSUME NEW r \in Replies, r.type # "MEDIA_STATUS",
             inbox' = Append(inbox, r),
             UNCHANGED <<sender, link, outbox, joined, heard, ignored>>
      PROVE  ConnInv'
  <2>1. WireInv'
    BY <1>8, WritingKeepsWire DEF ConnInv
  <2>2. Requested' \subseteq Requested
    BY <1>8, RequestedAfterQuiet DEF WritesControl
  <2>3. attach # "attached" => ignored' = {}
    BY <1>8 DEF ConnInv, StageInv
  <2>4. \A i \in DOMAIN inbox' : inbox'[i].type = "MEDIA_STATUS" =>
          inbox'[i].of \in connected \cup {None}
    BY <1>8, AnswersKeepNames DEF ConnInv
  <2>5. StageInv' /\ NameInv'
    BY <1>8, <2>2, <2>3, <2>4, OthersKeepNames DEF ConnInv
  <2>6. QED
    BY <2>1, <2>5 DEF ConnInv
<1>9. CASE Ping
  <2>1. [type |-> "PING"] \in Replies /\ [type |-> "PING"].type # "MEDIA_STATUS"
    BY DEF Replies
  <2>2. QED
    BY <1>9, <2>1, <1>8 DEF Ping
<1>10. CASE AppReplaced
  <2>1. app' \in Option(Apps)
    BY <1>10 DEF AppReplaced, Option
  <2>2. QED
    BY <1>10, <1>4, <1>8, <2>1 DEF AppReplaced
<1>11. CASE LinkEnds
  <2>1. link' # "open"
    BY <1>11 DEF LinkEnds
  <2>2. Requested' \subseteq Requested
    BY <1>11, RequestedAfterQuiet DEF LinkEnds, WritesControl
  <2>3. QED
    BY <1>11, <2>1, <2>2, SendingKeepsConn DEF LinkEnds
<1>12. QED
  BY <1>1, <1>2, <1>3, <1>5, <1>6, <1>7, <1>9, <1>10, <1>11 DEF Device

LEMMA StepKeepsConn == TypeOK /\ ConnInv /\ [Next]_vars => ConnInv'
<1> SUFFICES ASSUME TypeOK, ConnInv, [Next]_vars PROVE ConnInv'
  OBVIOUS
<1>1. ASSUME UNCHANGED <<sender, link, outbox, inbox, receiver>>
      PROVE  ConnInv'
  BY <1>1 DEF ConnInv, WireInv, OpenedIsHeard, Leads, StageInv, NameInv,
              NamesItsOwn, Requested, sender, ids, receiver
<1>2. CASE PumpEnds \/ PumpFails \/ Reader
  BY <1>1, <1>2 DEF PumpEnds, PumpFails, Reader, Watch, ReaderTold
<1>3. CASE UNCHANGED vars
  BY <1>1, <1>3 DEF vars
<1>4. QED
  BY <1>2, <1>3, SenderKeepsConn, RouteKeepsConn, DeviceKeepsConn
  DEF Next, Pump

(* What is addressed to a destination the sender has opened is never       *)
(* dropped for want of a CONNECT (Session.ts openConnection).              *)
THEOREM OpenedDestinationsHear == Spec => []OpenedIsHeard
<1>1. ConnInv => OpenedIsHeard
  BY DEF ConnInv, WireInv
<1>2. QED
  BY <1>1, InitConn, StepKeepsConn, Typing, PTL DEF Spec

(* A request to an opened application names that application's sessions    *)
(* and no other's (Session.ts load, mediaCommand).                         *)
THEOREM RequestsNameOneApplication == Spec => []OneApplication
<1>1. ConnInv => OneApplication
  BY DEF ConnInv, NameInv, NamesItsOwn, Requested, OneApplication
<1>2. QED
  BY <1>1, InitConn, StepKeepsConn, Typing, PTL DEF Spec
=============================================================================
