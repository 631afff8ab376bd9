----------------------------- MODULE PairSetup -----------------------------
(***************************************************************************)
(* AirPlay pair setup: the runs of `cast play` that pair (cast.ts and      *)
(* airplay/src/PairSetup/Controller) and the accessory they share          *)
(* (PairSetup/Accessory.ts, behind the emulator's /pair-setup).            *)
(*                                                                         *)
(* Cryptography is abstracted to what it distinguishes.  A key is the code *)
(* it was made with and the two ephemeral values, `a` of the controller    *)
(* and `b` of the accessory; a proof is the key it is made over, and what  *)
(* was sealed under a key opens under that key only.                       *)
(***************************************************************************)
EXTENDS Naturals, FiniteSets

CONSTANTS
  Controllers,    \* the runs of a command that pairs: each has its identity
  Broken,         \* those of them whose signature does not verify
  Codes,          \* what may be typed
  Code,           \* the code on the screen
  TransientCode,  \* what a run types by itself when it pairs transiently
  Limit,          \* attemptLimit
  Nobody, Nothing, NoKey

ASSUME PairSetupAssumption ==
  /\ IsFiniteSet(Controllers)
  /\ Broken \subseteq Controllers
  /\ {Code, TransientCode} \subseteq Codes
  /\ Limit \in Nat \ {0}
  /\ Nobody \notin Controllers
  /\ NoKey \notin [code : Codes, a : Controllers, b : Nat]

VARIABLES
  at,          \* the request the accessory awaits: 1, 3 or 5
  exchanges,   \* how many it has begun: the last one's number is its `b`
  session,     \* the key M4 has accepted, while it awaits M5
  failed,      \* consecutive wrong codes
  stored,      \* whose pairing it keeps
  introduced,  \* history: everyone whose pairing it has kept
  step,        \* step[c]: what controller c waits for, or how it ended
  transient,   \* transient[c]: whether c asked for a transient pairing
  again,       \* again[c]: whether c may still send its M1 a second time
  salt,        \* salt[c]: the `b` of the M2 c has read, 0 before
  key,         \* key[c]: the key c has computed
  request,     \* request[c]: what c has sent and the accessory not handled
  answer       \* answer[c]: what the accessory has answered and c not read

accessory == <<at, exchanges, session, failed, stored, introduced>>
controller == <<step, transient, again, salt, key>>
vars == <<accessory, controller, request, answer>>

Keys == [code : Codes, a : Controllers, b : Nat]
Requests == [step : {1, 3, 5}, key : Keys \cup {NoKey}]
Answers == [step : {0, 2, 4, 6}, error : {"none", "MaxTries", "Authentication"},
            b : Nat, key : Keys \cup {NoKey}]
Waiting == {"M2", "pin", "M4", "M6"}
Ended == {"paired", "transient", "wrongCode", "failed", "gone"}

TypeOK ==
  /\ at \in {1, 3, 5}
  /\ exchanges \in Nat
  /\ session \in Keys \cup {NoKey}
  /\ failed \in 0 .. Limit
  /\ stored \in Controllers \cup {Nobody}
  /\ introduced \subseteq Controllers
  /\ step \in [Controllers -> {"idle"} \cup Waiting \cup Ended]
  /\ transient \in [Controllers -> BOOLEAN]
  /\ again \in [Controllers -> BOOLEAN]
  /\ salt \in [Controllers -> Nat]
  /\ key \in [Controllers -> Keys \cup {NoKey}]
  /\ request \in [Controllers -> Requests \cup {Nothing}]
  /\ answer \in [Controllers -> Answers \cup {Nothing}]

Init ==
  /\ at = 1
  /\ exchanges = 0
  /\ session = NoKey
  /\ failed = 0
  /\ stored = Nobody
  /\ introduced = {}
  /\ step = [c \in Controllers |-> "idle"]
  /\ transient = [c \in Controllers |-> FALSE]
  /\ again = [c \in Controllers |-> FALSE]
  /\ salt = [c \in Controllers |-> 0]
  /\ key = [c \in Controllers |-> NoKey]
  /\ request = [c \in Controllers |-> Nothing]
  /\ answer = [c \in Controllers |-> Nothing]

M1 == [step |-> 1, key |-> NoKey]
M3(k) == [step |-> 3, key |-> k]
M5(k) == [step |-> 5, key |-> k]

M2(b) == [step |-> 2, error |-> "none", b |-> b, key |-> NoKey]
M4(k) == [step |-> 4, error |-> "none", b |-> 0, key |-> k]
M6(k) == [step |-> 6, error |-> "none", b |-> 0, key |-> k]
Refusal(s, e) == [step |-> s, error |-> e, b |-> 0, key |-> NoKey]
ServerError == [step |-> 0, error |-> "none", b |-> 0, key |-> NoKey]

-----------------------------------------------------------------------------
(* The accessory.  It handles one request at a time, whoever sends it. *)

(* The answer goes out on the connection the request came by. *)
Reply(c, reply) ==
  /\ request' = [request EXCEPT ![c] = Nothing]
  /\ answer' = [answer EXCEPT ![c] = IF step[c] \in Waiting THEN reply ELSE Nothing]
  /\ UNCHANGED controller

(* refuse: the exchange ends, and the answer says why. *)
Refuse(c, s, e) == at' = 1 /\ session' = NoKey /\ Reply(c, Refusal(s, e))

(* As Exhausted, had it been `>`.                                          *)
Exhausted_Over == failed > Limit

(* Attempts.exhausted: with a limit of three, the third wrong code is the  *)
(* last one allowed. *)
Exhausted == failed >= Limit

(* begin: a fresh `b`, and M2. *)
Begin(c) ==
  /\ at' = 3
  /\ exchanges' = exchanges + 1
  /\ Reply(c, M2(exchanges + 1))
  /\ UNCHANGED <<session, failed, stored, introduced>>

HandleM1(c) ==
  IF Exhausted THEN /\ Refuse(c, 2, "MaxTries")
                    /\ UNCHANGED <<exchanges, failed, stored, introduced>>
               ELSE Begin(c)

(* The key srp.verify computes from what M3 brings: A is the sender's. *)
ServerKey(k) == [code |-> Code, a |-> k.a, b |-> exchanges]

(* prove: the attempts are forgotten when the code was right, counted when *)
(* it was wrong. *)
HandleM3(c, k) ==
  IF k = ServerKey(k)
    THEN /\ at' = 5
         /\ session' = ServerKey(k)
         /\ failed' = 0
         /\ Reply(c, M4(ServerKey(k)))
         /\ UNCHANGED <<exchanges, stored, introduced>>
    ELSE /\ Refuse(c, 4, "Authentication")
         /\ failed' = failed + 1
         /\ UNCHANGED <<exchanges, stored, introduced>>

(* respond's failures: /pair-setup answers 500 and the state stays.        *)
Fail(c) == Reply(c, ServerError) /\ UNCHANGED accessory

(* As Uncounted, had a bad signature been counted as an attempt.           *)
Uncounted_Counted == failed' = failed + 1

(* "deliberately *not* counted as an attempt" *)
Uncounted == failed' = failed

(* introduce: M5 opens under the session's key or the request fails; its   *)
(* signature verifies or is refused; the pairing is stored. *)
HandleM5(c, k) ==
  \/ k # session /\ Fail(c)
  \/ /\ k = session
     /\ IF c \in Broken
          THEN /\ Refuse(c, 6, "Authentication")
               /\ Uncounted
               /\ UNCHANGED <<exchanges, stored, introduced>>
          ELSE /\ stored' = c
               /\ introduced' = introduced \cup {c}
               /\ at' = 1
               /\ session' = NoKey
               /\ Reply(c, M6(session))
               /\ UNCHANGED <<exchanges, failed>>

(* As Expected, had a fresh M1 been welcome at any step.                   *)
Expected_FreshM1(s) == s \in {1, at}

(* expect: the step the request announces is the one awaited. *)
Expected(s) == s = at

(* respond *)
Respond(c) ==
  /\ request[c] # Nothing
  /\ LET s == request[c].step
         k == request[c].key IN
        \/ ~Expected(s) /\ Fail(c)
        \/ Expected(s) /\ s = 1 /\ HandleM1(c)
        \/ Expected(s) /\ s = 3 /\ HandleM3(c, k)
        \/ Expected(s) /\ s = 5 /\ HandleM5(c, k)

-----------------------------------------------------------------------------
(* A controller: one run of `cast play` with no pairing stored. *)

Send(c, m) ==
  /\ request' = [request EXCEPT ![c] = m]
  /\ answer' = [answer EXCEPT ![c] = Nothing]
  /\ UNCHANGED accessory

End(c, how) ==
  /\ step' = [step EXCEPT ![c] = how]
  /\ answer' = [answer EXCEPT ![c] = Nothing]
  /\ UNCHANGED <<accessory, transient, again, salt, key, request>>

(* What /info says decides t, what /pair-pin-start answers r: a run that   *)
(* was blocked there sends its M1 again when M2 is no use. *)
Start(c, t, r) ==
  /\ step[c] = "idle"
  /\ t => ~r
  /\ step' = [step EXCEPT ![c] = "M2"]
  /\ transient' = [transient EXCEPT ![c] = t]
  /\ again' = [again EXCEPT ![c] = r]
  /\ Send(c, M1)
  /\ UNCHANGED <<salt, key>>

(* A status of 200 and 16 bytes: a refusal has fewer. *)
Usable(m) == m.step = 2 /\ m.error = "none"

(* The M2 is there, and kept until the code is. *)
ReadM2(c) ==
  /\ step[c] = "M2" /\ answer[c] # Nothing
  /\ Usable(answer[c])
  /\ step' = [step EXCEPT ![c] = "pin"]
  /\ salt' = [salt EXCEPT ![c] = answer[c].b]
  /\ answer' = [answer EXCEPT ![c] = Nothing]
  /\ UNCHANGED <<accessory, transient, again, key, request>>

M2Empty(c) == step[c] = "M2" /\ answer[c] # Nothing /\ ~Usable(answer[c])

RetryM1(c) ==
  /\ M2Empty(c)
  /\ again[c]
  /\ again' = [again EXCEPT ![c] = FALSE]
  /\ Send(c, M1)
  /\ UNCHANGED <<step, transient, salt, key>>

NoM2(c) ==
  /\ M2Empty(c)
  /\ ~again[c]
  /\ End(c, "failed")

(* The code is typed, or fixed when the pairing is transient; M3. *)
EnterPin(c, code) ==
  /\ step[c] = "pin"
  /\ transient[c] => code = TransientCode
  /\ step' = [step EXCEPT ![c] = "M4"]
  /\ LET k == [code |-> code, a |-> c, b |-> salt[c]]
     IN  key' = [key EXCEPT ![c] = k] /\ Send(c, M3(k))
  /\ UNCHANGED <<transient, again, salt>>

(* A transient pairing is over, whatever M4 says. *)
StopAtM4(c) ==
  /\ step[c] = "M4" /\ answer[c] # Nothing
  /\ transient[c]
  /\ End(c, "transient")

(* As Accepts, had M6 been opened and its refusal read by nobody.          *)
Accepts_AnyM6(c, s) == answer[c].step = s /\ (s = 4 => answer[c] = M4(key[c]))

(* refusal, expectState, and the proof or the tag under the key we share.  *)
Accepts(c, s) == answer[c] = IF s = 4 THEN M4(key[c]) ELSE M6(key[c])

(* m5 *)
ReadM4(c) ==
  /\ step[c] = "M4" /\ answer[c] # Nothing
  /\ ~transient[c]
  /\ Accepts(c, 4)
  /\ step' = [step EXCEPT ![c] = "M6"]
  /\ Send(c, M5(key[c]))
  /\ UNCHANGED <<transient, again, salt, key>>

(* finish, and the pairing is stored. *)
ReadM6(c) ==
  /\ step[c] = "M6" /\ answer[c] # Nothing
  /\ Accepts(c, 6)
  /\ End(c, "paired")

(* fromWire: Authentication is a wrong code, at whichever step. *)
Refused(c) ==
  /\ answer[c] # Nothing
  /\ \/ step[c] = "M4" /\ ~transient[c] /\ ~Accepts(c, 4)
     \/ step[c] = "M6" /\ ~Accepts(c, 6)
  /\ End(c, IF answer[c].error = "Authentication" THEN "wrongCode" ELSE "failed")

(* The run ends before its exchange does: interrupted at the prompt, timed *)
(* out or cut off.  What it has sent may still arrive. *)
Quit(c) ==
  /\ step[c] \in Waiting
  /\ step' = [step EXCEPT ![c] = "gone"]
  /\ answer' = [answer EXCEPT ![c] = Nothing]
  /\ request' \in {request, [request EXCEPT ![c] = Nothing]}
  /\ UNCHANGED <<accessory, transient, again, salt, key>>

Next ==
  \E c \in Controllers :
    \/ Respond(c)
    \/ \E t, r \in BOOLEAN : Start(c, t, r)
    \/ ReadM2(c)
    \/ RetryM1(c)
    \/ NoM2(c)
    \/ \E code \in Codes : EnterPin(c, code)
    \/ StopAtM4(c)
    \/ ReadM4(c)
    \/ ReadM6(c)
    \/ Refused(c)
    \/ Quit(c)

Spec == Init /\ [][Next]_vars

-----------------------------------------------------------------------------
Wrong(c) == key[c] # NoKey /\ key[c].code # Code

(* Attempts.ts: consecutive wrong codes are counted up to the limit, and   *)
(* from there on nothing changes any more: no exchange is begun, even with *)
(* the right code, and the count is not forgotten. *)
LockedOut == [][failed >= Limit => UNCHANGED <<failed, exchanges, stored>>]_vars

(* A wrong code is the only thing that counts: not a bad signature, and    *)
(* not a request that comes out of turn. *)
OnlyWrongCodesCount == failed <= Cardinality({c \in Controllers : Wrong(c)})

(* Who is told that the code was wrong has typed a wrong one: the exchange *)
(* a controller is in cannot be taken over while its user reads the screen.*)
NoFalseBlame ==
  \A c \in Controllers \ Broken : step[c] = "wrongCode" => Wrong(c)

(* A controller that ends up paired is one the accessory has kept, and     *)
(* whoever it has kept knew the code. *)
Agreement ==
  \A c \in Controllers :
    /\ step[c] = "paired" => c \in introduced
    /\ c \in introduced => key[c] # NoKey /\ key[c].code = Code

(* Errors.ts: a request that cannot be processed resets the session, "and  *)
(* the procedure is abandoned". *)
Abandoned ==
  [][\A c \in Controllers :
       answer[c] = Nothing /\ answer'[c] = ServerError => at' = 1]_vars

(* M4 tells whether the accessory holds the key: a transient pairing that  *)
(* went well has one it holds.  (It does not look.) *)
TransientProved ==
  \A c \in Controllers : step[c] = "transient" => key[c].code = Code

=============================================================================
