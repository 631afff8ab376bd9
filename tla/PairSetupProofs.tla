-------------------------- MODULE PairSetupProofs --------------------------
(***************************************************************************)
(* Proofs about PairSetup, for any number of runs, any codes and any limit *)
(* on attempts: its types, the lock-out, that nobody is blamed for a code  *)
(* that was right, and that the two sides agree on who has paired.         *)
(***************************************************************************)
EXTENDS PairSetup, FiniteSetTheorems, TLAPS

USE PairSetupAssumption

(* c has read an M2, or is about to, and its M3 has not been handled: the  *)
(* accessory's exchange is c's. *)
Holder(c) ==
  \/ step[c] = "M2" /\ answer[c] # Nothing /\ Usable(answer[c])
  \/ step[c] = "pin"
  \/ request[c] # Nothing /\ request[c].step = 3

(* A holder has the number of the exchange that is under way. *)
Current(c) ==
  /\ Holder(c) => at = 3
  /\ step[c] = "M2" /\ answer[c] # Nothing /\ Usable(answer[c])
       => answer[c].b = exchanges
  /\ step[c] = "pin" => salt[c] = exchanges
  /\ request[c] # Nothing /\ request[c].step = 3 => key[c].b = exchanges

(* What c has sent is what its step says, made with its own key. *)
Sent(c) ==
  request[c] # Nothing =>
    /\ answer[c] = Nothing
    /\ request[c].step = 1 => step[c] \in {"M2", "gone"}
    /\ request[c].step = 3 => step[c] \in {"M4", "gone"} /\ key[c].a = c
    /\ request[c].step = 5 => step[c] \in {"M6", "gone"}
    /\ request[c].step \in {3, 5} => key[c] \in Keys /\ request[c].key = key[c]

(* What an answer means: Authentication is a wrong code or a bad signature, *)
(* an M6 a pairing that is kept. *)
Means(c) ==
  answer[c] # Nothing =>
    /\ step[c] \in Waiting
    /\ answer[c].error = "Authentication" => Wrong(c) \/ c \in Broken
    /\ answer[c].step = 6 /\ answer[c].error = "none" => c \in introduced

(* The key is there once M3 is sent, and someone who was told or kept can   *)
(* no longer change it. *)
Settled(c) ==
  /\ step[c] \in {"M4", "M6"} => key[c] \in Keys
  /\ step[c] = "wrongCode" => Wrong(c) \/ c \in Broken
  /\ step[c] = "paired" => c \in introduced
  /\ c \in introduced =>
       /\ step[c] \in {"M6", "paired", "wrongCode", "failed", "gone"}
       /\ key[c] \in Keys /\ key[c].code = Code

Accessory ==
  /\ at # 1 => failed < Limit
  /\ at = 5 => session \in Keys /\ session.code = Code
  /\ at # 5 => session = NoKey

Local(c) == Current(c) /\ Sent(c) /\ Means(c) /\ Settled(c)

OneHolder == \A c, d \in Controllers : Holder(c) /\ Holder(d) => c = d

Ind ==
  /\ TypeOK
  /\ Accessory
  /\ OneHolder
  /\ \A c \in Controllers : Local(c)

LEMMA InitInd == Init => Ind
BY DEF Init, Ind, TypeOK, Accessory, OneHolder, Local, Current, Sent, Means,
       Settled, Holder, Waiting

(* The messages are of their type. *)
LEMMA MessageTypes ==
  /\ M1 \in Requests
  /\ \A k \in Keys : M3(k) \in Requests /\ M5(k) \in Requests
  /\ \A n \in Nat : M2(n) \in Answers
  /\ \A k \in Keys \cup {NoKey} : M4(k) \in Answers /\ M6(k) \in Answers
  /\ \A s \in {2, 4, 6}, e \in {"MaxTries", "Authentication"} : Refusal(s, e) \in Answers
  /\ ServerError \in Answers
BY DEF M1, M3, M5, M2, M4, M6, Refusal, ServerError, Requests, Answers

LEMMA ReplyTypes ==
  ASSUME TypeOK, NEW c \in Controllers, NEW m \in Answers, Reply(c, m)
  PROVE  /\ request' \in [Controllers -> Requests \cup {Nothing}]
         /\ answer' \in [Controllers -> Answers \cup {Nothing}]
         /\ step' = step /\ transient' = transient /\ again' = again
         /\ salt' = salt /\ key' = key
         /\ request'[c] = Nothing
         /\ answer'[c] = IF step[c] \in Waiting THEN m ELSE Nothing
         /\ \A d \in Controllers \ {c} : request'[d] = request[d] /\ answer'[d] = answer[d]
BY DEF Reply, TypeOK, controller

(* A failure of respond changes nothing but the answer. *)
LEMMA FailInd ==
  ASSUME Ind, NEW c \in Controllers, request[c] # Nothing, Fail(c)
  PROVE  Ind'
<1>1. Reply(c, ServerError) /\ ServerError \in Answers
  BY MessageTypes DEF Fail
<1>2. TypeOK'
  BY <1>1, ReplyTypes DEF Ind, TypeOK, Fail, accessory
<1>3. Accessory'
  BY DEF Ind, Fail, accessory, Accessory
<1>4. ASSUME NEW d \in Controllers PROVE Local(d)'
  BY <1>1, ReplyTypes DEF Ind, Local, Current, Sent, Means, Settled, Holder, Usable,
     Wrong, Fail, accessory, ServerError, Waiting
<1>5. OneHolder'
  BY <1>1, ReplyTypes DEF Ind, OneHolder, Holder, Usable, Fail, accessory, ServerError
<1> QED BY <1>2, <1>3, <1>4, <1>5 DEF Ind

(* M1 begins an exchange when there is none, and is refused by a lock-out. *)
LEMMA HandleM1Ind ==
  ASSUME Ind, NEW c \in Controllers, request[c] # Nothing, request[c].step = 1,
         at = 1, HandleM1(c)
  PROVE  Ind'
<1>0. \A d \in Controllers : ~Holder(d)
  BY DEF Ind, Local, Current
<1>1. CASE Exhausted
  <2>1. Reply(c, Refusal(2, "MaxTries")) /\ Refusal(2, "MaxTries") \in Answers
    BY <1>1, MessageTypes DEF HandleM1, Refuse
  <2>2. TypeOK' /\ Accessory'
    BY <1>1, <2>1, ReplyTypes DEF Ind, TypeOK, HandleM1, Refuse, Accessory
  <2>3. ASSUME NEW d \in Controllers PROVE Local(d)' /\ ~Holder(d)'
    BY <1>0, <1>1, <2>1, ReplyTypes DEF Ind, Local, Current, Sent, Means, Settled,
       Holder, Usable, Wrong, HandleM1, Refuse, Refusal, Waiting
  <2> QED BY <2>2, <2>3 DEF Ind, OneHolder
<1>2. CASE ~Exhausted
  <2>1. Reply(c, M2(exchanges + 1)) /\ M2(exchanges + 1) \in Answers
    BY <1>2, MessageTypes DEF HandleM1, Begin, Ind, TypeOK
  <2>2. TypeOK' /\ Accessory'
    BY <1>2, <2>1, ReplyTypes DEF Ind, TypeOK, HandleM1, Begin, Accessory, Exhausted
  <2>3. ASSUME NEW d \in Controllers, d # c PROVE Local(d)' /\ ~Holder(d)'
    BY <1>0, <1>2, <2>1, <2>3, ReplyTypes DEF Ind, Local, Current, Sent, Means, Settled,
       Holder, Usable, Wrong, HandleM1, Begin, Waiting
  <2>4. Local(c)'
    BY <1>0, <1>2, <2>1, ReplyTypes DEF Ind, Local, Current, Sent, Means, Settled,
       Holder, Usable, Wrong, HandleM1, Begin, M2, Waiting
  <2> QED BY <2>2, <2>3, <2>4 DEF Ind, OneHolder
<1> QED BY <1>1, <1>2

(* M3 is the holder's: right, it opens the way to M5; wrong, it counts. *)
LEMMA HandleM3Ind ==
  ASSUME Ind, NEW c \in Controllers, request[c] # Nothing, request[c].step = 3,
         at = 3, HandleM3(c, request[c].key)
  PROVE  Ind'
<1> DEFINE k == key[c]
<1>1. /\ step[c] \in {"M4", "gone"} /\ k \in Keys /\ request[c].key = k
      /\ k.a = c /\ k.b = exchanges
  BY DEF Ind, Local, Sent, Current
<1>2. \A d \in Controllers \ {c} : ~Holder(d)
  BY DEF Ind, OneHolder, Holder
<1>3. ServerKey(k) = [code |-> Code, a |-> c, b |-> exchanges] /\ ServerKey(k) \in Keys
  BY <1>1 DEF ServerKey, Keys, Ind, TypeOK
<1>4. k = [code |-> k.code, a |-> k.a, b |-> k.b]
  BY <1>1 DEF Keys
<1>5. CASE k = ServerKey(k)
  <2>1. Reply(c, M4(k)) /\ M4(k) \in Answers
    BY <1>1, <1>5, MessageTypes DEF HandleM3
  <2>2. at' = 5 /\ session' = k /\ failed' = 0 /\ exchanges' = exchanges
        /\ stored' = stored /\ introduced' = introduced
    BY <1>1, <1>5 DEF HandleM3
  <2>3. TypeOK' /\ Accessory'
    BY <1>1, <1>3, <1>5, <2>1, <2>2, ReplyTypes DEF Ind, TypeOK, Accessory
  <2>4. ASSUME NEW d \in Controllers, d # c PROVE Local(d)' /\ ~Holder(d)'
    BY <1>2, <2>1, <2>2, <2>4, ReplyTypes DEF Ind, Local, Current, Sent, Means, Settled,
       Holder, Usable, Wrong, Waiting
  <2>5. Local(c)' /\ ~Holder(c)'
    BY <1>1, <2>1, <2>2, ReplyTypes DEF Ind, Local, Current, Sent, Means, Settled,
       Holder, Usable, Wrong, M4, Waiting
  <2> QED BY <2>3, <2>4, <2>5 DEF Ind, OneHolder
<1>6. CASE k # ServerKey(k)
  <2>1. Reply(c, Refusal(4, "Authentication")) /\ Refusal(4, "Authentication") \in Answers
    BY <1>1, <1>6, MessageTypes DEF HandleM3, Refuse
  <2>2. at' = 1 /\ session' = NoKey /\ failed' = failed + 1 /\ exchanges' = exchanges
        /\ stored' = stored /\ introduced' = introduced
    BY <1>1, <1>6 DEF HandleM3, Refuse
  <2>3. Wrong(c)
    <3>1. k.code # Code
      BY <1>1, <1>3, <1>4, <1>6
    <3>2. NoKey \notin Keys
      BY DEF Keys
    <3> QED BY <1>1, <3>1, <3>2 DEF Wrong
  <2>4. failed < Limit
    BY DEF Ind, Accessory
  <2>5. TypeOK' /\ Accessory'
    BY <2>1, <2>2, <2>4, ReplyTypes DEF Ind, TypeOK, Accessory
  <2>6. ASSUME NEW d \in Controllers, d # c PROVE Local(d)' /\ ~Holder(d)'
    BY <1>2, <2>1, <2>2, <2>6, ReplyTypes DEF Ind, Local, Current, Sent, Means, Settled,
       Holder, Usable, Wrong, Waiting
  <2>7. Local(c)' /\ ~Holder(c)'
    BY <1>1, <2>1, <2>2, <2>3, ReplyTypes DEF Ind, Local, Current, Sent, Means, Settled,
       Holder, Usable, Wrong, Refusal, Waiting
  <2> QED BY <2>5, <2>6, <2>7 DEF Ind, OneHolder
<1> QED BY <1>5, <1>6

(* M5 under the session's key keeps the pairing, or is refused for its     *)
(* signature; under any other it fails. *)
LEMMA HandleM5Ind ==
  ASSUME Ind, NEW c \in Controllers, request[c] # Nothing, request[c].step = 5,
         at = 5, HandleM5(c, request[c].key)
  PROVE  Ind'
<1>1. CASE Fail(c)
  BY <1>1, FailInd
<1> SUFFICES ASSUME ~Fail(c) PROVE Ind'
  BY <1>1
<1>2. /\ step[c] \in {"M6", "gone"} /\ key[c] \in Keys /\ key[c] = session
      /\ session \in Keys /\ session.code = Code
  BY DEF Ind, Local, Sent, Accessory, HandleM5
<1>3. \A d \in Controllers : ~Holder(d)
  BY DEF Ind, Local, Current
<1>4. CASE c \in Broken
  <2>1. Reply(c, Refusal(6, "Authentication")) /\ Refusal(6, "Authentication") \in Answers
    BY <1>4, MessageTypes DEF HandleM5, Refuse
  <2>2. at' = 1 /\ session' = NoKey /\ failed' = failed /\ exchanges' = exchanges
        /\ stored' = stored /\ introduced' = introduced
    BY <1>4 DEF HandleM5, Refuse, Uncounted
  <2>3. TypeOK' /\ Accessory'
    BY <2>1, <2>2, ReplyTypes DEF Ind, TypeOK, Accessory
  <2>4. ASSUME NEW d \in Controllers PROVE Local(d)' /\ ~Holder(d)'
    BY <1>2, <1>3, <1>4, <2>1, <2>2, ReplyTypes DEF Ind, Local, Current, Sent, Means,
       Settled, Holder, Usable, Wrong, Refusal, Waiting
  <2> QED BY <2>3, <2>4 DEF Ind, OneHolder
<1>5. CASE c \notin Broken
  <2>1. Reply(c, M6(session)) /\ M6(session) \in Answers
    BY <1>2, <1>5, MessageTypes DEF HandleM5
  <2>2. at' = 1 /\ session' = NoKey /\ failed' = failed /\ exchanges' = exchanges
        /\ stored' = c /\ introduced' = introduced \cup {c}
    BY <1>5 DEF HandleM5
  <2>3. TypeOK' /\ Accessory'
    BY <2>1, <2>2, ReplyTypes DEF Ind, TypeOK, Accessory
  <2>4. ASSUME NEW d \in Controllers PROVE Local(d)' /\ ~Holder(d)'
    BY <1>2, <1>3, <2>1, <2>2, ReplyTypes DEF Ind, Local, Current, Sent, Means,
       Settled, Holder, Usable, Wrong, M6, Waiting
  <2> QED BY <2>3, <2>4 DEF Ind, OneHolder
<1> QED BY <1>4, <1>5

LEMMA RespondInd ==
  ASSUME Ind, NEW c \in Controllers, Respond(c)
  PROVE  Ind'
<1>1. request[c] # Nothing
  BY DEF Respond
<1>2. CASE Fail(c)
  BY <1>1, <1>2, FailInd
<1>3. CASE request[c].step = 1 /\ at = 1 /\ HandleM1(c)
  BY <1>1, <1>3, HandleM1Ind
<1>4. CASE request[c].step = 3 /\ at = 3 /\ HandleM3(c, request[c].key)
  BY <1>1, <1>4, HandleM3Ind
<1>5. CASE request[c].step = 5 /\ at = 5 /\ HandleM5(c, request[c].key)
  BY <1>1, <1>5, HandleM5Ind
<1> QED BY <1>2, <1>3, <1>4, <1>5 DEF Respond, Expected

(* A controller's own step disturbs no other controller and not the        *)
(* accessory. *)
LEMMA OthersKeep ==
  ASSUME Ind, NEW c \in Controllers, NEW d \in Controllers, d # c,
         UNCHANGED accessory,
         step'[d] = step[d], salt'[d] = salt[d], key'[d] = key[d],
         request'[d] = request[d], answer'[d] = answer[d]
  PROVE  Local(d)' /\ (Holder(d)' <=> Holder(d))
BY DEF Ind, Local, Current, Sent, Means, Settled, Holder, Usable, Wrong, accessory

(* So it is enough that it keeps its own invariant and becomes a holder    *)
(* only if it was one, or nobody was. *)
LEMMA ControllerInd ==
  ASSUME Ind, NEW c \in Controllers, UNCHANGED accessory, TypeOK', Local(c)',
         Holder(c)' => Holder(c),
         \A d \in Controllers \ {c} :
           /\ step'[d] = step[d] /\ salt'[d] = salt[d] /\ key'[d] = key[d]
           /\ request'[d] = request[d] /\ answer'[d] = answer[d]
  PROVE  Ind'
<1>1. \A d \in Controllers \ {c} : Local(d)' /\ (Holder(d)' <=> Holder(d))
  BY OthersKeep
<1>2. OneHolder'
  BY <1>1 DEF Ind, OneHolder
<1>3. Accessory'
  BY DEF Ind, Accessory, accessory
<1> QED BY <1>1, <1>2, <1>3 DEF Ind

LEMMA StartInd ==
  ASSUME Ind, NEW c \in Controllers, NEW t \in BOOLEAN, NEW r \in BOOLEAN, Start(c, t, r)
  PROVE  Ind'
<1>1. UNCHANGED accessory
  BY DEF Start, Send
<1>2. TypeOK'
  BY MessageTypes DEF Ind, TypeOK, Start, Send, Waiting, accessory
<1>3. request'[c] = M1 /\ answer'[c] = Nothing /\ step'[c] = "M2" /\ key'[c] = key[c]
  BY DEF Ind, TypeOK, Start, Send
<1>4. Local(c)' /\ ~Holder(c)'
  BY <1>1, <1>3 DEF Ind, Local, Current, Sent, Means, Settled, Holder, Usable, Wrong,
     Start, M1, accessory, Waiting
<1>5. \A d \in Controllers \ {c} :
        /\ step'[d] = step[d] /\ salt'[d] = salt[d] /\ key'[d] = key[d]
        /\ request'[d] = request[d] /\ answer'[d] = answer[d]
  BY DEF Ind, TypeOK, Start, Send
<1> QED BY <1>1, <1>2, <1>4, <1>5, ControllerInd

LEMMA ReadM2Ind ==
  ASSUME Ind, NEW c \in Controllers, ReadM2(c)
  PROVE  Ind'
<1>1. UNCHANGED accessory
  BY DEF ReadM2
<1>2. answer[c] \in Answers /\ answer[c].b \in Nat /\ Holder(c)
  BY DEF Ind, TypeOK, ReadM2, Answers, Holder
<1>3. TypeOK'
  BY <1>2 DEF Ind, TypeOK, ReadM2, Waiting, accessory
<1>4. /\ answer'[c] = Nothing /\ step'[c] = "pin" /\ key'[c] = key[c]
      /\ request'[c] = request[c] /\ salt'[c] = answer[c].b
  BY DEF Ind, TypeOK, ReadM2
<1>5. Local(c)'
  BY <1>1, <1>2, <1>4 DEF Ind, Local, Current, Sent, Means, Settled, Holder, Usable,
     Wrong, ReadM2, accessory, Waiting
<1>6. \A d \in Controllers \ {c} :
        /\ step'[d] = step[d] /\ salt'[d] = salt[d] /\ key'[d] = key[d]
        /\ request'[d] = request[d] /\ answer'[d] = answer[d]
  BY DEF Ind, TypeOK, ReadM2
<1> QED BY <1>1, <1>2, <1>3, <1>5, <1>6, ControllerInd

LEMMA RetryM1Ind ==
  ASSUME Ind, NEW c \in Controllers, RetryM1(c)
  PROVE  Ind'
<1>1. UNCHANGED accessory
  BY DEF RetryM1, Send
<1>2. TypeOK'
  BY MessageTypes DEF Ind, TypeOK, RetryM1, Send, accessory
<1>3. request'[c] = M1 /\ answer'[c] = Nothing /\ step'[c] = "M2" /\ key'[c] = key[c]
  BY DEF Ind, TypeOK, RetryM1, M2Empty, Send
<1>4. Local(c)' /\ ~Holder(c)'
  BY <1>1, <1>3 DEF Ind, Local, Current, Sent, Means, Settled, Holder, Usable, Wrong,
     RetryM1, M2Empty, M1, accessory, Waiting
<1>5. \A d \in Controllers \ {c} :
        /\ step'[d] = step[d] /\ salt'[d] = salt[d] /\ key'[d] = key[d]
        /\ request'[d] = request[d] /\ answer'[d] = answer[d]
  BY DEF Ind, TypeOK, RetryM1, Send
<1> QED BY <1>1, <1>2, <1>4, <1>5, ControllerInd

LEMMA EnterPinInd ==
  ASSUME Ind, NEW c \in Controllers, NEW code \in Codes, EnterPin(c, code)
  PROVE  Ind'
<1> DEFINE k == [code |-> code, a |-> c, b |-> salt[c]]
<1>1. UNCHANGED accessory
  BY DEF EnterPin, Send
<1>2. k \in Keys
  BY DEF Keys, Ind, TypeOK
<1>3. TypeOK'
  BY <1>2, MessageTypes DEF Ind, TypeOK, EnterPin, Send, Waiting, accessory
<1>4. request'[c] = M3(k) /\ answer'[c] = Nothing /\ step'[c] = "M4" /\ key'[c] = k
  BY DEF Ind, TypeOK, EnterPin, Send
<1>5. Holder(c) /\ at = 3 /\ salt[c] = exchanges /\ c \notin introduced
  BY DEF Ind, Local, Current, Settled, Holder, EnterPin
<1>6. Local(c)'
  BY <1>1, <1>2, <1>4, <1>5 DEF Local, Current, Sent, Means, Settled, Holder,
     Wrong, M3, accessory
<1>7. \A d \in Controllers \ {c} :
        /\ step'[d] = step[d] /\ salt'[d] = salt[d] /\ key'[d] = key[d]
        /\ request'[d] = request[d] /\ answer'[d] = answer[d]
  BY DEF Ind, TypeOK, EnterPin, Send
<1> QED BY <1>1, <1>3, <1>5, <1>6, <1>7, ControllerInd

LEMMA ReadM4Ind ==
  ASSUME Ind, NEW c \in Controllers, ReadM4(c)
  PROVE  Ind'
<1>1. UNCHANGED accessory
  BY DEF ReadM4, Send
<1>2. key[c] \in Keys /\ request[c] = Nothing /\ c \notin introduced
  BY DEF Ind, Local, Settled, Sent, ReadM4
<1>3. TypeOK'
  BY <1>2, MessageTypes DEF Ind, TypeOK, ReadM4, Send, Waiting, accessory
<1>4. /\ request'[c] = M5(key[c]) /\ answer'[c] = Nothing /\ step'[c] = "M6"
      /\ key'[c] = key[c]
  BY DEF Ind, TypeOK, ReadM4, Send
<1>5. Local(c)' /\ ~Holder(c)'
  BY <1>1, <1>2, <1>4 DEF Local, Current, Sent, Means, Settled, Holder, Wrong, M5,
     accessory
<1>6. \A d \in Controllers \ {c} :
        /\ step'[d] = step[d] /\ salt'[d] = salt[d] /\ key'[d] = key[d]
        /\ request'[d] = request[d] /\ answer'[d] = answer[d]
  BY DEF Ind, TypeOK, ReadM4, Send
<1> QED BY <1>1, <1>3, <1>5, <1>6, ControllerInd

(* The ends: what the run has read by then justifies how it ends. *)
LEMMA EndInd ==
  ASSUME Ind, NEW c \in Controllers, NEW how \in Ended, End(c, how),
         step[c] \in {"M2", "M4", "M6"}, answer[c] # Nothing,
         how = "paired" => c \in introduced,
         how = "wrongCode" => Wrong(c) \/ c \in Broken,
         c \in introduced => how \in {"paired", "wrongCode", "failed"}
  PROVE  Ind'
<1>1. UNCHANGED accessory
  BY DEF End
<1>2. TypeOK'
  BY DEF Ind, TypeOK, End, accessory, Ended
<1>3. /\ request'[c] = request[c] /\ answer'[c] = Nothing /\ step'[c] = how
      /\ key'[c] = key[c] /\ request[c] = Nothing
  BY DEF Ind, TypeOK, End, Local, Sent
<1>4. Local(c)' /\ ~Holder(c)'
  BY <1>1, <1>3 DEF Ind, Local, Current, Sent, Means, Settled, Holder, Wrong,
     accessory, Ended
<1>5. \A d \in Controllers \ {c} :
        /\ step'[d] = step[d] /\ salt'[d] = salt[d] /\ key'[d] = key[d]
        /\ request'[d] = request[d] /\ answer'[d] = answer[d]
  BY DEF Ind, TypeOK, End
<1> QED BY <1>1, <1>2, <1>4, <1>5, ControllerInd

LEMMA EndsInd ==
  ASSUME Ind, NEW c \in Controllers,
         NoM2(c) \/ StopAtM4(c) \/ ReadM6(c) \/ Refused(c)
  PROVE  Ind'
<1>0. c \in introduced => step[c] \notin {"M2", "M4"}
  BY DEF Ind, Local, Settled
<1>1. CASE NoM2(c)
  BY <1>0, <1>1, EndInd DEF NoM2, M2Empty, Ended
<1>2. CASE StopAtM4(c)
  BY <1>0, <1>2, EndInd DEF StopAtM4, Ended
<1>3. CASE ReadM6(c)
  <2>1. c \in introduced
    BY <1>3 DEF ReadM6, Accepts, M6, Ind, Local, Means
  <2> QED BY <1>3, <2>1, EndInd DEF ReadM6, Ended
<1>4. CASE Refused(c)
  <2>1. answer[c].error = "Authentication" => Wrong(c) \/ c \in Broken
    BY <1>4 DEF Refused, Ind, Local, Means
  <2> QED BY <1>0, <1>4, <2>1, EndInd DEF Refused, Ended
<1> QED BY <1>1, <1>2, <1>3, <1>4

LEMMA QuitInd ==
  ASSUME Ind, NEW c \in Controllers, Quit(c)
  PROVE  Ind'
<1>1. UNCHANGED accessory
  BY DEF Quit
<1>2. TypeOK'
  BY DEF Ind, TypeOK, Quit, accessory, Ended
<1>3. /\ request'[c] \in {request[c], Nothing} /\ answer'[c] = Nothing
      /\ step'[c] = "gone" /\ key'[c] = key[c]
  BY DEF Ind, TypeOK, Quit
<1>4. Local(c)' /\ (Holder(c)' => Holder(c))
  BY <1>1, <1>3 DEF Ind, Local, Current, Sent, Means, Settled, Holder, Wrong, accessory
<1>5. \A d \in Controllers \ {c} :
        /\ step'[d] = step[d] /\ salt'[d] = salt[d] /\ key'[d] = key[d]
        /\ request'[d] = request[d] /\ answer'[d] = answer[d]
  BY DEF Ind, TypeOK, Quit
<1> QED BY <1>1, <1>2, <1>4, <1>5, ControllerInd

LEMMA NextInd == Ind /\ [Next]_vars => Ind'
<1> SUFFICES ASSUME Ind, [Next]_vars PROVE Ind'
  OBVIOUS
<1>1. CASE UNCHANGED vars
  BY <1>1 DEF Ind, TypeOK, Accessory, OneHolder, Local, Current, Sent, Means, Settled,
     Holder, Wrong, vars, accessory, controller
<1>2. ASSUME NEW c \in Controllers, Respond(c) PROVE Ind'
  BY <1>2, RespondInd
<1>3. ASSUME NEW c \in Controllers, NEW t \in BOOLEAN, NEW r \in BOOLEAN, Start(c, t, r)
      PROVE  Ind'
  BY <1>3, StartInd
<1>4. ASSUME NEW c \in Controllers, ReadM2(c) PROVE Ind'
  BY <1>4, ReadM2Ind
<1>5. ASSUME NEW c \in Controllers, RetryM1(c) PROVE Ind'
  BY <1>5, RetryM1Ind
<1>6. ASSUME NEW c \in Controllers, NEW code \in Codes, EnterPin(c, code) PROVE Ind'
  BY <1>6, EnterPinInd
<1>7. ASSUME NEW c \in Controllers, ReadM4(c) PROVE Ind'
  BY <1>7, ReadM4Ind
<1>8. ASSUME NEW c \in Controllers, NoM2(c) \/ StopAtM4(c) \/ ReadM6(c) \/ Refused(c)
      PROVE  Ind'
  BY <1>8, EndsInd
<1>9. ASSUME NEW c \in Controllers, Quit(c) PROVE Ind'
  BY <1>9, QuitInd
<1> QED BY <1>1, <1>2, <1>3, <1>4, <1>5, <1>6, <1>7, <1>8, <1>9 DEF Next

LEMMA Invariance == Spec => []Ind
<1> QED BY InitInd, NextInd, PTL DEF Spec

(* Every value keeps its type, and the count of wrong codes never passes   *)
(* the limit (Accessory/Attempts.ts). *)
THEOREM Typing == Spec => []TypeOK
<1>1. Ind => TypeOK
  BY DEF Ind
<1> QED BY <1>1, Invariance, PTL

(* Who is told that the code was wrong typed a wrong one, whoever else was *)
(* pairing, left or came back meanwhile (Accessory.ts prove). *)
THEOREM NobodyIsBlamedFalsely == Spec => []NoFalseBlame
<1>1. Ind => NoFalseBlame
  BY DEF Ind, Local, Settled, NoFalseBlame
<1> QED BY <1>1, Invariance, PTL

(* A controller that is paired is known to the accessory, which knows only *)
(* those that had the code (Accessory.ts introduce, Controller/Finish.ts). *)
THEOREM PairingIsMutual == Spec => []Agreement
<1>1. NoKey \notin Keys
  BY DEF Keys
<1>2. Ind => Agreement
  BY <1>1 DEF Ind, Local, Settled, Agreement
<1> QED BY <1>2, Invariance, PTL

(* After the last wrong code allowed, no exchange is begun any more and    *)
(* the count stays (Accessory/Attempts.ts exhausted). *)
THEOREM LockOutIsForGood == Spec => LockedOut
<1> DEFINE Frozen == UNCHANGED <<failed, exchanges, stored>>
<1>1. ASSUME Ind, [Next]_vars, failed >= Limit PROVE Frozen
  <2>1. at = 1
    BY <1>1 DEF Ind, Accessory, TypeOK
  <2>2. ASSUME NEW c \in Controllers, Respond(c) PROVE Frozen
    BY <1>1, <2>1, <2>2 DEF Respond, Expected, HandleM1, Exhausted, Fail, accessory
  <2>3. ASSUME UNCHANGED accessory PROVE Frozen
    BY <2>3 DEF accessory
  <2> QED BY <1>1, <2>2, <2>3 DEF Next, vars, Start, ReadM2, RetryM1, NoM2, EnterPin,
             StopAtM4, ReadM4, ReadM6, Refused, Quit, Send, End
<1>2. Ind /\ [Next]_vars => [failed >= Limit => Frozen]_vars
  BY <1>1
<1> QED BY <1>2, Invariance, PTL DEF Spec, LockedOut

-----------------------------------------------------------------------------
(* Counting.  A controller's only key is the one it makes of what is typed. *)
Unkeyed == \A c \in Controllers : step[c] \in {"idle", "M2", "pin"} => key[c] = NoKey

(* Those whose wrong code the accessory has had: each can be counted once.  *)
Spent == {c \in Controllers : Wrong(c) /\ (request[c] # Nothing => request[c].step # 3)}

Counted == failed <= Cardinality(Spent)

(* Nobody's wrong code is taken back. *)
LEMMA SpentStays ==
  ASSUME Ind, Unkeyed, [Next]_vars
  PROVE  Unkeyed' /\ Spent \subseteq Spent'
<1>1. NoKey \notin Keys
  BY DEF Keys
<1>2. CASE UNCHANGED vars
  BY <1>2 DEF Unkeyed, Spent, Wrong, vars, controller
<1>3. ASSUME NEW c \in Controllers, Respond(c) PROVE Unkeyed' /\ Spent \subseteq Spent'
  <2>1. /\ request' = [request EXCEPT ![c] = Nothing] /\ step' = step /\ key' = key
    BY <1>3 DEF Respond, HandleM1, Begin, HandleM3, HandleM5, Refuse, Fail, Reply, controller
  <2> QED BY <2>1 DEF Unkeyed, Spent, Wrong, Ind, TypeOK
<1>4. ASSUME NEW c \in Controllers, NEW code \in Codes, EnterPin(c, code)
      PROVE  Unkeyed' /\ Spent \subseteq Spent'
  <2>1. c \notin Spent /\ step'[c] = "M4"
    BY <1>4 DEF Spent, Wrong, Unkeyed, EnterPin, Ind, TypeOK
  <2>2. \A d \in Controllers \ {c} :
          step'[d] = step[d] /\ key'[d] = key[d] /\ request'[d] = request[d]
    BY <1>4 DEF EnterPin, Send, Ind, TypeOK
  <2> QED BY <2>1, <2>2 DEF Unkeyed, Spent, Wrong
<1>5. ASSUME NEW c \in Controllers, key' = key,
             step[c] \in {"idle", "M2", "pin"} \/ step'[c] \notin {"idle", "M2", "pin"},
             request'[c] \in {request[c], Nothing, M1, M5(key[c])},
             \A d \in Controllers \ {c} : step'[d] = step[d] /\ request'[d] = request[d]
      PROVE  Unkeyed' /\ Spent \subseteq Spent'
  BY <1>5 DEF Unkeyed, Spent, Wrong, M1, M5
<1>6. ASSUME NEW c \in Controllers, NEW t \in BOOLEAN, NEW r \in BOOLEAN, Start(c, t, r)
      PROVE  Unkeyed' /\ Spent \subseteq Spent'
  BY <1>5, <1>6 DEF Start, Send, Ind, TypeOK
<1>7. ASSUME NEW c \in Controllers, ReadM2(c) \/ RetryM1(c) \/ ReadM4(c)
      PROVE  Unkeyed' /\ Spent \subseteq Spent'
  BY <1>5, <1>7 DEF ReadM2, RetryM1, M2Empty, ReadM4, Send, Ind, TypeOK
<1>8. ASSUME NEW c \in Controllers, NoM2(c) \/ StopAtM4(c) \/ ReadM6(c) \/ Refused(c)
      PROVE  Unkeyed' /\ Spent \subseteq Spent'
  BY <1>5, <1>8 DEF NoM2, StopAtM4, ReadM6, Refused, M2Empty, End, Ind, TypeOK
<1>9. ASSUME NEW c \in Controllers, Quit(c) PROVE Unkeyed' /\ Spent \subseteq Spent'
  BY <1>5, <1>9 DEF Quit, Ind, TypeOK
<1> QED BY <1>2, <1>3, <1>4, <1>6, <1>7, <1>8, <1>9 DEF Next

(* Whoever is counted has not been counted before. *)
LEMMA CountsAnother ==
  ASSUME Ind, [Next]_vars
  PROVE  \/ failed' \in {failed, 0}
         \/ failed' = failed + 1 /\ \E c \in Controllers : c \in Spent' \ Spent
<1>1. ASSUME NEW c \in Controllers, request[c] # Nothing, request[c].step = 3, at = 3,
             HandleM3(c, request[c].key), failed' \notin {failed, 0}
      PROVE  failed' = failed + 1 /\ c \in Spent' \ Spent
  <2>1. /\ key[c] \in Keys /\ key[c] = request[c].key
        /\ key[c].a = c /\ key[c].b = exchanges /\ key[c] # ServerKey(key[c])
        /\ failed' = failed + 1
    BY <1>1 DEF Ind, Local, Sent, Current, Holder, HandleM3
  <2>2. key[c] = [code |-> key[c].code, a |-> key[c].a, b |-> key[c].b]
    BY <2>1 DEF Keys
  <2>3. key[c].code # Code /\ key[c] # NoKey
    BY <2>1, <2>2 DEF ServerKey, Keys
  <2>4. key' = key /\ request'[c] = Nothing
    BY <1>1, <2>1 DEF HandleM3, Refuse, Reply, controller, Ind, TypeOK
  <2> QED BY <1>1, <2>1, <2>3, <2>4 DEF Spent, Wrong
<1>2. ASSUME NEW c \in Controllers, Respond(c), failed' \notin {failed, 0}
      PROVE  failed' = failed + 1 /\ c \in Spent' \ Spent
  BY <1>1, <1>2 DEF Respond, Expected, HandleM1, Begin, HandleM5, Uncounted, Fail, accessory
<1>3. ASSUME UNCHANGED accessory PROVE failed' = failed
  BY <1>3 DEF accessory
<1> QED BY <1>2, <1>3 DEF Next, vars, Start, ReadM2, RetryM1, NoM2, EnterPin, StopAtM4,
           ReadM4, ReadM6, Refused, Quit, Send, End

LEMMA CountedStays ==
  ASSUME Ind, Unkeyed, Counted, [Next]_vars
  PROVE  Counted'
<1>1. /\ Spent \subseteq Spent'
      /\ IsFiniteSet(Spent) /\ IsFiniteSet(Spent')
  BY SpentStays, FS_Subset DEF Spent
<1>2. Cardinality(Spent) \in Nat /\ Cardinality(Spent') \in Nat
      /\ Cardinality(Spent) <= Cardinality(Spent') /\ failed \in Nat
  BY <1>1, FS_Subset, FS_CardinalityType DEF Ind, TypeOK
<1>3. ASSUME NEW c \in Spent' \ Spent PROVE Cardinality(Spent) + 1 <= Cardinality(Spent')
  <2>1. IsFiniteSet(Spent \cup {c}) /\ Cardinality(Spent \cup {c}) = Cardinality(Spent) + 1
    BY <1>1, <1>3, FS_AddElement
  <2>2. Spent \cup {c} \subseteq Spent'
    BY <1>1, <1>3
  <2> QED BY <1>1, <2>1, <2>2, FS_Subset
<1> QED BY <1>2, <1>3, CountsAnother DEF Counted

(* A wrong code is the only thing that counts: the count never exceeds the *)
(* number of controllers that typed one (Accessory.ts prove, introduce).   *)
THEOREM OnlyWrongCodesAreCounted == Spec => []OnlyWrongCodesCount
<1>1. Init => Unkeyed /\ Counted
  <2>1. ASSUME Init PROVE Unkeyed
    BY <2>1 DEF Init, Unkeyed
  <2>2. ASSUME Init PROVE Spent = {} /\ failed = 0
    BY <2>2 DEF Init, Spent, Wrong
  <2> QED BY <2>1, <2>2, FS_EmptySet DEF Counted
<1>2. Ind /\ Unkeyed /\ Counted /\ [Next]_vars => Unkeyed' /\ Counted'
  BY SpentStays, CountedStays
<1>3. Ind /\ Counted => OnlyWrongCodesCount
  <2> SUFFICES ASSUME Ind, Counted PROVE OnlyWrongCodesCount
    OBVIOUS
  <2> DEFINE Typed == {c \in Controllers : Wrong(c)}
  <2>1. Spent \subseteq Typed /\ IsFiniteSet(Typed)
    BY FS_Subset DEF Spent
  <2>2. Cardinality(Spent) \in Nat /\ Cardinality(Typed) \in Nat
        /\ Cardinality(Spent) <= Cardinality(Typed) /\ failed \in Nat
    BY <2>1, FS_Subset, FS_CardinalityType DEF Ind, TypeOK
  <2> QED BY <2>2 DEF Counted, OnlyWrongCodesCount
<1> QED BY <1>1, <1>2, <1>3, Invariance, PTL DEF Spec

=============================================================================
