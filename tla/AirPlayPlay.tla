---------------------------- MODULE AirPlayPlay ----------------------------
(***************************************************************************)
(* `cast play` on an AirPlay receiver (apps/cli/src/AirPlayPlay.ts): the   *)
(* requests it makes over the paired connection, each chosen by what the   *)
(* ones before it returned, and what the receiver makes of them.           *)
(***************************************************************************)
EXTENDS HapHttp

CONSTANT MaxFeedback   \* how many times /feedback is posted: 45

VARIABLES
  kind,       \* the receiver and the pairing: [mac, transient, mfi]
  pc,         \* the request in progress or next, or how it ended
  feedback,   \* how many times /feedback was posted
  heard,      \* what the receiver has been asked
  accepted,   \* what it answered with 200
  declined    \* history: whether it turned pair-verify down in an answer of 200

script == <<kind, pc, feedback>>
receiver == <<heard, accepted, declined>>
vars == <<hapVars, script, receiver>>

Verify == {"verify M1", "verify M3"}
Labels == Verify \cup {"auth-setup", "SETUP NTP", "SETUP remote", "RECORD", "info",
  "SETUP 130", "play", "rate", "insert", "dateRange", "itemEnd", "setRate", "feedback"}

ASSUME AirPlayPlayAssumption ==
  /\ Labels \subseteq Requests
  /\ MaxFeedback \in Nat \ {0}

(* A transient pairing is one with a Mac (cast.ts). *)
Kinds == {k \in [mac : BOOLEAN, transient : BOOLEAN, mfi : BOOLEAN] : k.transient => k.mac}

TypeOK ==
  /\ HapTypeOK
  /\ kind \in Kinds
  /\ pc \in Labels \cup {"failed", "over"}
  /\ feedback \in 0 .. MaxFeedback
  /\ heard \subseteq Labels
  /\ accepted \subseteq heard
  /\ declined \in BOOLEAN

(* After pair-verify, or at once when the pairing is transient.            *)
FirstEncrypted(k) == IF k.mac THEN "info" ELSE "SETUP NTP"
AfterAuth(k) == IF k.transient THEN FirstEncrypted(k) ELSE "verify M1"

Init ==
  /\ kind \in Kinds
  /\ pc = IF kind.mfi THEN "auth-setup" ELSE AfterAuth(kind)
  /\ feedback = 0
  /\ heard = {} /\ accepted = {} /\ declined = FALSE
  /\ HapInit(kind.transient /\ ~kind.mfi)

-----------------------------------------------------------------------------
(* As AfterSetup, had RECORD been sent whatever SETUP returned.            *)
AfterSetup_Always(status) == "RECORD"

(* "not sending RECORD" *)
AfterSetup(status) == IF status = 200 THEN "RECORD" ELSE "info"

(* "not sending setProperty/setRate" *)
AfterInsert(status) == IF status = 200 THEN "dateRange" ELSE "feedback"

(* What follows a request that returned a status, 0 when it failed: what   *)
(* comes before encryption has no catchHttp around it. *)
Following(status) ==
  CASE pc = "auth-setup"   -> IF status = 0 THEN "failed" ELSE AfterAuth(kind)
    [] pc = "verify M1"    -> IF status = 200 THEN "verify M3" ELSE "failed"
    [] pc = "verify M3"    -> IF status = 200 THEN FirstEncrypted(kind) ELSE "failed"
    [] pc = "SETUP NTP"    -> IF status = 200 THEN AfterSetup(status) ELSE "SETUP remote"
    [] pc = "SETUP remote" -> AfterSetup(status)
    [] pc = "RECORD"       -> "info"
    [] pc = "info"         -> IF kind.mac THEN "play" ELSE "SETUP 130"
    [] pc = "play"         -> "rate"
    [] pc = "SETUP 130"    -> "insert"
    [] pc = "insert"       -> AfterInsert(status)
    [] pc = "dateRange"    -> "itemEnd"
    [] pc = "itemEnd"      -> "setRate"
    [] pc \in {"rate", "setRate"} -> "feedback"
    [] pc = "feedback"     -> IF feedback + 1 < MaxFeedback THEN "feedback" ELSE "over"

Goes(status) ==
  /\ pc' = Following(status)
  /\ feedback' = IF pc = "feedback" THEN feedback + 1 ELSE feedback
  /\ UNCHANGED <<kind, receiver>>

(* enableEncryption comes between the last request in the clear and the    *)
(* first that is not.  Of pair-verify's last answer the status and the     *)
(* length are looked at, and never its items: an Error among them is not   *)
(* seen. *)
TurnsOn(status) ==
  \/ pc = "verify M3" /\ status = 200
  \/ pc = "auth-setup" /\ kind.transient

Request ==
  /\ pc \in Labels
  /\ \/ Issue(pc) /\ UNCHANGED <<script, receiver>>
     \/ Cached /\ Goes(Head(ready).status)

Answer == Answered(TurnsOn(reply.status)) /\ Goes(reply.status)

(* catchHttp: a request that failed counts as one of status 0. *)
Failure == (Failed \/ TimedOut) /\ Goes(0)

-----------------------------------------------------------------------------
Chunk == OnChunk /\ UNCHANGED <<script, receiver>>
Fails == LinkFails /\ UNCHANGED <<script, receiver>>

(* The receiver does what it is asked, or refuses.  A refusal of           *)
(* pair-verify may also be an answer of 200 whose items hold an Error. *)
Receive ==
  \E status \in Statuses, refuses \in BOOLEAN :
    LET what == Head(toPeer).what IN
    /\ toPeer # <<>>
    /\ refuses => what = "verify M3" /\ status = 200
    /\ Handle(status, \/ what = "verify M3" /\ status = 200 /\ ~refuses
                      \/ what = "auth-setup" /\ kind.transient)
    /\ heard' = heard \cup {what}
    /\ accepted' = IF status = 200 THEN accepted \cup {what} ELSE accepted
    /\ declined' = (declined \/ refuses)
    /\ UNCHANGED script

Next == Request \/ Answer \/ Failure \/ Chunk \/ Fails \/ Receive

Spec == Init /\ [][Next]_vars

-----------------------------------------------------------------------------
(* The receiver is not told to RECORD before it has accepted a SETUP, nor  *)
(* to play at a rate before it has accepted the item: what the player      *)
(* believes of the receiver is so, although answers may be late. *)
NothingUnasked ==
  /\ "RECORD" \in heard => {"SETUP NTP", "SETUP remote"} \cap accepted # {}
  /\ "setRate" \in heard => "insert" \in accepted

(* Every frame opens at the end it was sent to: the counters of the two    *)
(* ends stay in step whatever is late, long or cut in pieces -- unless the *)
(* receiver turned pair-verify down in a way the player does not look at.  *)
SealsOpen == ~declined => FramesOpen

(* That way ends the play: refuted.  The player seals what it says next    *)
(* for a receiver that knows of no session. *)
RefusalEnds == declined => pc \in {"verify M3", "failed"}

=============================================================================
