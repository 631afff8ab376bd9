------------------------------ MODULE HapHttp ------------------------------
(***************************************************************************)
(* The keep-alive HTTP client AirPlay speaks through                       *)
(* (platform/src/hap-http-client.ts), the frames it is wrapped in once     *)
(* encryption is on (airplay/src/EncryptedSession.ts), and the transport   *)
(* of the receiver.  One caller makes one request after another; an answer *)
(* carries nothing that says which request it is for.                      *)
(*                                                                         *)
(* A message travels in parts of at most 1024 bytes.  Encrypted, each part *)
(* is a frame sealed under the sender's counter, and a frame is two units  *)
(* of the stream, so that a TCP chunk may end inside it; in the clear a    *)
(* part is one unit.                                                       *)
(***************************************************************************)
EXTENDS Naturals, Sequences, FiniteSets, Functions, FiniteSetsExt

CONSTANTS
  Requests,    \* what may be requested
  Long,        \* those of them whose messages take two parts
  NoReply, FailedReply,  \* what is not an answer
  MaxTimeouts, \* how many requests may time out
  MaxSilent    \* how many requests the receiver may leave unanswered

Statuses == {200, 403}
Parts == 1 .. 2
Answers == [n : Nat, status : Statuses, of : Parts]

ASSUME HapHttpAssumption ==
  /\ Long \subseteq Requests
  /\ MaxTimeouts \in Nat
  /\ MaxSilent \in Nat
  /\ NoReply # FailedReply
  /\ {NoReply, FailedReply} \cap Answers = {}

VARIABLES
  encrypted,   \* whether enableEncryption has been called
  writeNonce, readNonce,          \* the client's counters
  buffer,      \* units received and not yet taken apart
  plaintext,   \* parts decrypted and not yet a whole message
  waiters,     \* the requests whose deferred awaits an answer, oldest first
  ready,       \* answers nobody was waiting for
  asked,       \* how many requests have been made
  waiting,     \* whether the last one is still awaited
  reply,       \* what its deferred holds: NoReply, an answer or FailedReply
  last,        \* the last request that returned, and whose answer it got
  toPeer, toClient,               \* the two directions of the connection
  link,        \* "up" or "failed"
  peerEncrypted, peerWrite, peerRead,  \* the receiver's side of the session
  timeouts,    \* how many requests have timed out
  unanswered,  \* history: the requests the receiver has left unanswered
  forged       \* history: whether a frame failed to open at either end

session == <<encrypted, writeNonce, readNonce>>
client == <<buffer, plaintext, waiters, ready>>
caller == <<asked, waiting, reply, last>>
peer == <<peerEncrypted, peerWrite, peerRead>>
counters == <<timeouts, unanswered>>
hapVars == <<session, client, caller, toPeer, toClient, link, peer, counters, forged>>

Units == [a : Answers, part : Parts, nonce : Nat, half : 0 .. 2]
Messages == [n : Nat, what : Requests, nonces : Seq(Nat)]

(* The waiters are those of the requests that timed out, and the current   *)
(* one's. *)
HapTypeOK ==
  /\ encrypted \in BOOLEAN /\ peerEncrypted \in BOOLEAN
  /\ {writeNonce, readNonce, peerWrite, peerRead, asked} \subseteq Nat
  /\ buffer \in Seq(Units) /\ plaintext \in Seq(Units) /\ toClient \in Seq(Units)
  /\ waiters \in Seq(1 .. asked)
  /\ Len(waiters) <= timeouts + (IF waiting THEN 1 ELSE 0)
  /\ ready \in Seq(Answers)
  /\ waiting \in BOOLEAN
  /\ reply \in Answers \cup {NoReply, FailedReply}
  /\ last \in [n : Nat, got : Nat]
  /\ toPeer \in Seq(Messages)
  /\ link \in {"up", "failed"}
  /\ timeouts \in 0 .. MaxTimeouts
  /\ unanswered \subseteq 1 .. asked /\ Cardinality(unanswered) <= MaxSilent
  /\ forged \in BOOLEAN

(* A connection whose session both ends know, or do not, from the start.   *)
HapInit(known) ==
  /\ encrypted = known /\ peerEncrypted = known
  /\ writeNonce = 0 /\ readNonce = 0 /\ peerWrite = 0 /\ peerRead = 0
  /\ buffer = <<>> /\ plaintext = <<>> /\ waiters = <<>> /\ ready = <<>>
  /\ asked = 0 /\ waiting = FALSE /\ reply = NoReply
  /\ last = [n |-> 0, got |-> 0]
  /\ toPeer = <<>> /\ toClient = <<>> /\ link = "up"
  /\ timeouts = 0 /\ unanswered = {} /\ forged = FALSE

PartsOf(what) == IF what \in Long THEN 2 ELSE 1

-----------------------------------------------------------------------------
(* encryptMessage and decryptAvailable *)

(* As Nonces, had the counter been one of messages.                        *)
Nonces_PerMessage(what, counter) == [i \in 1 .. PartsOf(what) |-> counter]

(* A frame is sealed under a counter of frames. *)
Nonces(what, counter) == [i \in 1 .. PartsOf(what) |-> counter + i - 1]

Frames(b) == Len(b) \div 2

(* What is not yet a full frame is left over. *)
Rest(b) == SubSeq(b, 2 * Frames(b) + 1, Len(b))

Opens(b) == \A i \in 1 .. Frames(b) : b[2 * i].nonce = readNonce + i - 1

Decrypted(b) == [i \in 1 .. Frames(b) |-> b[2 * i]]

-----------------------------------------------------------------------------
(* tryParseHttp, over all the messages a text holds *)

(* Where a message ends whose parts are all there. *)
Ends(text) ==
  {i \in DOMAIN text :
     LET u == text[i] IN
     /\ u.part = u.a.of
     /\ u.part <= i
     /\ \A p \in 1 .. u.part : /\ text[i - u.part + p].a = u.a
                               /\ text[i - u.part + p].part = p}

(* Which of the messages ends at e, and the messages in their order.       *)
Rank(text, e) == Cardinality({d \in Ends(text) : d <= e})

Whole(text) ==
  [k \in 1 .. Cardinality(Ends(text)) |->
     text[CHOOSE e \in Ends(text) : Rank(text, e) = k].a]

(* As Unparsed, had nothing but whole messages been expected.              *)
Unparsed_Dropped(text) == <<>>

Unparsed(text) == SubSeq(text, Max({0} \cup Ends(text)) + 1, Len(text))

(* takeWaiter, for k answers *)
StillWaiting(k) == SubSeq(waiters, k + 1, Len(waiters))

(* deliver, for each answer: to the oldest waiter, or for the next request. *)
Deliver(answers) ==
  LET k == IF Len(answers) < Len(waiters) THEN Len(answers) ELSE Len(waiters) IN
  /\ waiters' = StillWaiting(k)
  /\ ready' = ready \o SubSeq(answers, k + 1, Len(answers))
  /\ reply' = IF waiting /\ \E i \in 1 .. k : waiters[i] = asked
                THEN answers[CHOOSE i \in 1 .. k : waiters[i] = asked]
                ELSE reply

FailWaiters ==
  /\ waiters' = <<>>
  /\ reply' = IF waiting /\ asked \in Range(waiters) THEN FailedReply ELSE reply
  /\ UNCHANGED ready

(* drainBuffer over b: what can be decrypted is, and what is whole is      *)
(* delivered.  A frame that does not open has used up its counter, and the *)
(* buffer stays. *)
Drain(b) ==
  IF ~encrypted
    THEN /\ buffer' = Unparsed(b)
         /\ Deliver(Whole(b))
         /\ UNCHANGED <<plaintext, readNonce, forged>>
    ELSE IF Opens(b)
           THEN LET text == plaintext \o Decrypted(b) IN
                /\ buffer' = Rest(b)
                /\ readNonce' = readNonce + Frames(b)
                /\ plaintext' = Unparsed(text)
                /\ Deliver(Whole(text))
                /\ UNCHANGED forged
           ELSE /\ buffer' = b
                /\ readNonce' = readNonce + 1
                /\ forged' = TRUE
                /\ FailWaiters
                /\ UNCHANGED plaintext

(* The drain fiber takes a chunk: any beginning of what has come. *)
OnChunk ==
  /\ \E k \in 1 .. Len(toClient) :
       /\ Drain(buffer \o SubSeq(toClient, 1, k))
       /\ toClient' = SubSeq(toClient, k + 1, Len(toClient))
  /\ UNCHANGED <<encrypted, writeNonce, asked, waiting, last, toPeer, link, peer, counters>>

-----------------------------------------------------------------------------
(* request.  Both of its beginnings drain what the buffer holds, which is  *)
(* less than a frame or a message: onChunk has drained it before. *)

(* An answer nobody waited for is returned, and nothing sent. *)
Cached ==
  /\ ~waiting
  /\ ready # <<>>
  /\ ready' = Tail(ready)
  /\ asked' = asked + 1
  /\ last' = [n |-> asked + 1, got |-> Head(ready).n]
  /\ UNCHANGED <<session, buffer, plaintext, waiters, waiting, reply, toPeer, toClient,
                 link, peer, counters, forged>>

(* The message is sealed, a waiter put at the end, and the message written. *)
Issue(what) ==
  /\ ~waiting
  /\ ready = <<>>
  /\ asked' = asked + 1
  /\ waiting' = TRUE
  /\ reply' = NoReply
  /\ waiters' = Append(waiters, asked + 1)
  /\ writeNonce' = IF encrypted THEN writeNonce + PartsOf(what) ELSE writeNonce
  /\ toPeer' = IF link = "up"
                 THEN Append(toPeer,
                        [n |-> asked + 1, what |-> what,
                         nonces |-> IF encrypted THEN Nonces(what, writeNonce) ELSE <<>>])
                 ELSE toPeer
  /\ UNCHANGED <<encrypted, readNonce, buffer, plaintext, ready, last, toClient, link, peer,
                 counters, forged>>

Return(got) ==
  /\ waiting' = FALSE
  /\ reply' = NoReply
  /\ last' = [n |-> asked, got |-> got]
  /\ UNCHANGED <<writeNonce, readNonce, buffer, plaintext, ready, asked, toPeer, toClient,
                 link, forged>>

(* The deferred holds an answer; the caller may turn encryption on next.   *)
Answered(on) ==
  /\ waiting
  /\ reply \in Answers
  /\ Return(reply.n)
  /\ encrypted' = (encrypted \/ on)
  /\ UNCHANGED <<waiters, peer, counters>>

Failed ==
  /\ waiting
  /\ reply = FailedReply
  /\ Return(0)
  /\ UNCHANGED <<encrypted, waiters, peer, counters>>

(* As WaitersAfterTimeout, had a request that times out taken its waiter   *)
(* away. *)
WaitersAfterTimeout_Removed == SelectSeq(waiters, LAMBDA w : w # asked)

(* timeoutOrElse fails the request, and its waiter stays. *)
WaitersAfterTimeout == waiters

TimedOut ==
  /\ waiting
  /\ timeouts < MaxTimeouts
  /\ timeouts' = timeouts + 1
  /\ waiters' = WaitersAfterTimeout
  /\ Return(0)
  /\ UNCHANGED <<encrypted, peer, unanswered>>

-----------------------------------------------------------------------------
(* The receiver's transport, and the connection. *)

Sealed(a) ==
  [u \in 1 .. 2 * a.of |->
     LET i == (u + 1) \div 2 IN
     [a |-> a, part |-> i, nonce |-> peerWrite + i - 1, half |-> u - 2 * (i - 1)]]

InTheClear(a) == [i \in 1 .. a.of |-> [a |-> a, part |-> i, nonce |-> 0, half |-> 0]]

PeerOpens(m) ==
  m.nonces = IF peerEncrypted THEN [i \in 1 .. PartsOf(m.what) |-> peerRead + i - 1]
                              ELSE <<>>

(* It opens the next request and leaves it unanswered, or answers it with  *)
(* a status, and turns encryption on after the answer when `on` is set. *)
Handle(status, on) ==
  LET m == Head(toPeer)
      a == [n |-> m.n, status |-> status, of |-> PartsOf(m.what)]
  IN  /\ toPeer # <<>> /\ PeerOpens(m)
      /\ toPeer' = Tail(toPeer)
      /\ peerRead' = IF peerEncrypted THEN peerRead + PartsOf(m.what) ELSE peerRead
      /\ \/ /\ toClient' = toClient \o IF peerEncrypted THEN Sealed(a) ELSE InTheClear(a)
            /\ peerWrite' = IF peerEncrypted THEN peerWrite + a.of ELSE peerWrite
            /\ peerEncrypted' = (peerEncrypted \/ on)
            /\ UNCHANGED unanswered
         \/ /\ Cardinality(unanswered) < MaxSilent
            /\ unanswered' = unanswered \cup {m.n}
            /\ UNCHANGED <<toClient, peerWrite, peerEncrypted>>
      /\ UNCHANGED <<session, client, caller, link, timeouts, forged>>

(* A connection that ends loses what has not arrived; what has arrived is  *)
(* still drained.  When it ends with an error the waiters are told, and    *)
(* not when it is closed in order.  A receiver that cannot open a frame    *)
(* ends it. *)
LinkFails ==
  /\ link = "up"
  /\ link' = "failed"
  /\ forged' = (forged \/ (toPeer # <<>> /\ ~PeerOpens(Head(toPeer))))
  /\ toPeer' = <<>>
  /\ \E k \in 0 .. Len(toClient) : toClient' = SubSeq(toClient, 1, k)
  /\ FailWaiters \/ UNCHANGED <<waiters, ready, reply>>
  /\ UNCHANGED <<session, buffer, plaintext, asked, waiting, last, peer, counters>>

-----------------------------------------------------------------------------
(* While the connection is up, a request that returns an answer returns    *)
(* its own: never the late answer to one that timed out, although nothing  *)
(* but the order tells them apart. *)
OwnAnswer == link = "up" => last.got \in {0, last.n}

(* No frame has failed to open at the end it was sent to.                  *)
FramesOpen == ~forged

(* When everything the receiver has answered has come, nobody is left      *)
(* waiting: no part of an answer stays behind in a buffer, and no answer   *)
(* goes to a request that has returned before the current one gets its     *)
(* own. *)
Delivered == link = "up" /\ toPeer = <<>> /\ toClient = <<>>
NoneStranded == Delivered /\ unanswered = {} => (waiting => reply # NoReply)

(* The same for a request that was answered, when another was not.  (One   *)
(* answer that never comes, and every later one goes to the request before *)
(* its own.) *)
RecoversFromSilence ==
  Delivered /\ asked \notin unanswered => (waiting => reply # NoReply)

=============================================================================
