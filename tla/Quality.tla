------------------------------ MODULE Quality ------------------------------
(***************************************************************************)
(* The adaptive quality controller (packages/quality): one loop that ticks *)
(* and acts on the phase it finds, while statuses report stalls and the    *)
(* player restarts the stream.                                             *)
(*                                                                         *)
(* Time is counted in ticks and held as ages, each cut off one past the    *)
(* longest window it is compared with.  Capacities are whole numbers, so   *)
(* the factors of Signals.ts round.                                        *)
(***************************************************************************)
EXTENDS Integers, Sequences, FiniteSets

CONSTANTS
  Bitrates,      \* the ladder's bitrates, lowest first
  InitialIndex,  \* the rung it starts on
  Rates,         \* what a burst may be measured at, 0 among them
  Nil,          \* an Option that is none
  Burst, Settle, ProbeAfter, Penalty, StallWindow, StallCluster, ProbeHold,
  StallDebounce  \* the windows of Signals.ts, in ticks

Indices == 0 .. Len(Bitrates) - 1
Bitrate(i) == Bitrates[i + 1]

ASSUME QualityAssumption ==
  /\ Bitrates \in Seq(Nat \ {0}) /\ InitialIndex \in Indices
  /\ \A i \in Indices : i > 0 => Bitrate(i - 1) < Bitrate(i)
  /\ Rates \subseteq Nat /\ 0 \in Rates
  /\ Nil \notin Nat
  /\ {StallDebounce, StallWindow, Burst, Settle, StallCluster, ProbeHold, ProbeAfter,
      Penalty} \subseteq Nat
  /\ 0 < StallDebounce /\ StallDebounce < StallWindow /\ StallWindow < Burst
  /\ Burst < Settle /\ Settle < StallCluster /\ StallCluster < ProbeHold
  /\ ProbeHold < ProbeAfter /\ ProbeAfter < Penalty

VARIABLES
  index,        \* the rung played
  capacity,     \* the link's capacity, 0 until first measured
  initialised,  \* whether it has been measured
  sinceSwitch,  \* at - lastSwitchAt
  burstLeft,    \* burstUntil - at
  burstPeak,    \* the best rate of the burst
  probing,      \* how long a probe has lasted, if one is on
  stalls,       \* the ages of the stalls recorded
  penalties,    \* penalties[i]: when and at what capacity rung i stalled
  restarting,   \* whether a switch has yet to restart the stream
  bad,          \* whether the link is one no rung fits
  sinceUp       \* how long ago quality was raised

qualityVars ==
  <<index, capacity, initialised, sinceSwitch, burstLeft, burstPeak,
    probing, stalls, penalties, restarting, bad, sinceUp>>

Capacities == Nat
Penalties == [age : 0 .. Penalty, capacity : Capacities]

QualityTypeOK ==
  /\ index \in Indices
  /\ capacity \in Capacities
  /\ initialised \in BOOLEAN /\ restarting \in BOOLEAN /\ bad \in BOOLEAN
  /\ sinceSwitch \in 0 .. ProbeAfter + 1
  /\ sinceUp \in 0 .. ProbeAfter + 1
  /\ burstLeft \in 0 .. Burst
  /\ burstPeak \in Rates
  /\ probing \in (0 .. ProbeHold + 1) \cup {Nil}
  /\ stalls \in SUBSET (0 .. StallCluster)
  /\ penalties \in [Indices -> Penalties \cup {Nil}]

QualityInit ==
  /\ index = InitialIndex
  /\ capacity = 0 /\ initialised = FALSE
  /\ sinceSwitch = 0 /\ burstLeft = Burst /\ burstPeak = 0
  /\ probing = Nil /\ stalls = {}
  /\ penalties = [i \in Indices |-> Nil]
  /\ restarting = FALSE /\ bad \in BOOLEAN /\ sinceUp = ProbeAfter + 1

-----------------------------------------------------------------------------
Older(age, limit) == IF age > limit THEN age ELSE age + 1
Greater(a, b) == IF a > b THEN a ELSE b
Lesser(a, b) == IF a < b THEN a ELSE b

(* SAFETY = 0.6. *)
Fits(i, cap) == 10 * Bitrate(i) <= 6 * cap

(* A penalty lifts on a timer (AgePenalties), or when capacity has grown   *)
(* by half. *)
IsPenalised(i, cap) ==
  /\ penalties[i] # Nil
  /\ ~(penalties[i].capacity > 0 /\ 2 * cap > 3 * penalties[i].capacity)

(* The last rung that fits and is not penalised, or the first. *)
BestFor(cap) ==
  LET good == {i \in Indices : Fits(i, cap) /\ ~IsPenalised(i, cap)}
  IN  CHOOSE i \in good \cup {0} : \A j \in good : j <= i

(* Blend, so a single optimistic burst cannot dominate the estimate. *)
MeasuredCapacity ==
  IF capacity = 0 THEN burstPeak ELSE (4 * capacity + 6 * burstPeak) \div 10

StallsWithin(window) == {age \in stalls : age <= window}

(* phaseOf: the first that applies. *)
Phase ==
  CASE burstLeft > 0 -> "Measuring"
    [] burstLeft = 0 /\ burstPeak > 0 -> "Measured"
    [] burstLeft = 0 /\ burstPeak = 0 ->
         IF probing # Nil /\ probing > ProbeHold THEN "ProbeAccepted"
         ELSE IF sinceSwitch < Settle THEN "Settling"
         ELSE IF StallsWithin(StallWindow) # {} THEN "Stalled"
         ELSE IF sinceSwitch > ProbeAfter THEN "ReadyToProbe"
         ELSE "Steady"

-----------------------------------------------------------------------------
(* switchTo: nothing off either end of the ladder, nothing to itself.      *)
SwitchTo(i) ==
  LET on == i \in Indices /\ i # index
  IN  /\ index' = IF on THEN i ELSE index
      /\ restarting' = (restarting \/ on)

(* Time passes with the tick. *)
AgeWindows ==
  /\ sinceSwitch' = Older(sinceSwitch, ProbeAfter)
  /\ burstLeft' = IF burstLeft = 0 THEN 0 ELSE burstLeft - 1
  /\ stalls' = {age + 1 : age \in stalls} \ {StallCluster + 1}
  /\ sinceUp' = IF index' > index THEN 0 ELSE Older(sinceUp, ProbeAfter)

AgeProbe == IF probing = Nil THEN Nil ELSE Older(probing, ProbeHold)

(* The code keeps an entry past its time and disregards it ever after.     *)
AgePenalties ==
  [i \in Indices |->
     IF penalties[i] = Nil \/ penalties[i].age >= Penalty THEN Nil
     ELSE [penalties[i] EXCEPT !.age = penalties[i].age + 1]]

Measuring ==
  /\ Phase = "Measuring"
  /\ \E rate \in Rates : burstPeak' = Greater(burstPeak, rate)
  /\ probing' = AgeProbe /\ penalties' = AgePenalties
  /\ UNCHANGED <<index, capacity, initialised, restarting>>
  /\ AgeWindows

(* As MayAct, had a reading been let act on a probe.                       *)
MayAct_OnProbe(target) == ~initialised \/ target < index

(* The first measurement sizes the ladder; a later one may only pull it    *)
(* down, and never while a probe is in flight. *)
MayAct(target) == ~initialised \/ (target < index /\ probing = Nil)

Measured ==
  /\ Phase = "Measured"
  /\ capacity' = MeasuredCapacity
  /\ burstPeak' = 0 /\ initialised' = TRUE
  /\ LET target == BestFor(MeasuredCapacity)
     IN  IF MayAct(target) THEN SwitchTo(target)
                           ELSE UNCHANGED <<index, restarting>>
  /\ probing' = AgeProbe /\ penalties' = AgePenalties
  /\ AgeWindows

(* Its bitrate is evidence about capacity: bitrate / SAFETY. *)
ProbeAccepted ==
  /\ Phase = "ProbeAccepted"
  /\ probing' = Nil
  /\ capacity' = Greater(capacity, (10 * Bitrate(index) + 5) \div 6)
  /\ penalties' = AgePenalties
  /\ UNCHANGED <<index, initialised, burstPeak, restarting>>
  /\ AgeWindows

(* As StallTarget, had the first rung not stopped the fall.                *)
StallTarget_Unfloored == index - (IF Cardinality(stalls) >= 2 THEN 2 ELSE 1)

(* Repeated stalls fall two rungs at once. *)
StallTarget == Greater(0, index - (IF Cardinality(stalls) >= 2 THEN 2 ELSE 1))

Stalled ==
  /\ Phase = "Stalled"
  /\ penalties' = [AgePenalties EXCEPT
                     ![index] = [age |-> 1, capacity |-> capacity]]
  /\ probing' = Nil
  /\ capacity' = LET proven == (9 * Bitrate(index)) \div 10
                 IN  IF capacity = 0 THEN proven ELSE Lesser(capacity, proven)
  /\ SwitchTo(StallTarget)
  /\ UNCHANGED <<initialised, burstPeak>>
  /\ AgeWindows

ProbeTarget ==
  {i \in Indices : i = index + 1 /\ ~IsPenalised(i, capacity)}

ReadyToProbe ==
  /\ Phase = "ReadyToProbe"
  /\ IF ProbeTarget = {}
     THEN /\ probing' = AgeProbe
          /\ UNCHANGED <<index, restarting>>
     ELSE /\ probing' = 1
          /\ index' \in ProbeTarget
          /\ restarting' = TRUE
  /\ penalties' = AgePenalties
  /\ UNCHANGED <<capacity, initialised, burstPeak>>
  /\ AgeWindows

Waiting ==
  /\ Phase \in {"Settling", "Steady"}
  /\ probing' = AgeProbe /\ penalties' = AgePenalties
  /\ UNCHANGED <<index, capacity, initialised, burstPeak, restarting>>
  /\ AgeWindows

Tick ==
  \/ Measuring \/ Measured \/ ProbeAccepted \/ Stalled \/ ReadyToProbe
  \/ Waiting

-----------------------------------------------------------------------------
(* noteState collapses a continuous stall into a single event. *)
Debounced == StallsWithin(StallDebounce) # {}

NoteStall ==
  /\ ~Debounced
  /\ stalls' = stalls \cup {0}
  /\ UNCHANGED <<index, capacity, initialised, sinceSwitch, burstLeft,
                 burstPeak, probing, penalties, restarting, sinceUp>>

(* As SinceRestart, had a restart not counted as a switch.                 *)
SinceRestart_Kept == sinceSwitch

SinceRestart == 0

(* noteRestart: after a switch, a seek or a reconnection. *)
NoteRestart ==
  /\ burstLeft' = Burst /\ burstPeak' = 0
  /\ sinceSwitch' = SinceRestart
  /\ restarting' = FALSE
  /\ UNCHANGED <<index, capacity, initialised, probing, stalls, penalties,
                 sinceUp>>

(* On a link no rung fits the receiver reports buffering whenever it is    *)
(* listened to, switches restart the stream and nothing else does.         *)
QualityNext ==
  /\ \/ (bad => Debounced) /\ Tick
     \/ NoteStall
     \/ (bad => restarting) /\ NoteRestart
  /\ UNCHANGED bad

QualitySpec == QualityInit /\ [][QualityNext]_qualityVars

(* The loop ticks and the statuses of a bad link come; a reload may take   *)
(* any number of ticks.                                                    *)
QualityFairSpec == QualitySpec /\ WF_qualityVars(bad /\ QualityNext)
-----------------------------------------------------------------------------
(* Properties.                                                             *)

(* "A probe is an experiment and only a stall refutes it": once capacity   *)
(* has been measured, no burst reading lowers quality while a probe is on  *)
(* (Controller.ts onMeasured).                                             *)
OnlyStallsRefute ==
  [][initialised /\ probing # Nil /\ index' < index
       => StallsWithin(StallWindow) # {}]_qualityVars

(* Quality is raised again within PROBE_AFTER only while the stream has not *)
(* restarted since a switch: the windows the controller judges             *)
(* by are those of the old rung until then, and once the stream has        *)
(* restarted they keep raises apart, however seeks, stalls and readings    *)
(* fall (Controller.ts switchTo, which leaves lastSwitchAt to noteRestart; *)
(* cast.ts reloads in a fiber of its own while the ticks go on).           *)
RestartsKeepRaisesApart ==
  [][initialised /\ index' > index
       => sinceUp > ProbeAfter \/ restarting]_qualityVars

(* On a link that stalls at every rung the bottom of the ladder is         *)
(* reached, although each fall grants a grace longer than the window in    *)
(* which a stall counts (Signals.ts phaseOf).                              *)
StallsReachBottom == bad ~> index = 0

(* "A stall beats a probe", and a probe is accepted when it has played     *)
(* "without a stall" (Signals.ts phaseOf, PROBE_HOLD).                     *)
AcceptedWithoutStall ==
  [][ProbeAccepted => StallsWithin(StallWindow) = {}]_qualityVars

(* "Each switch costs a visible reload" (Signals.ts PROBE_AFTER): the same  *)
(* while the restart is outstanding.                                       *)
ProbesApart ==
  [][initialised /\ index' > index => sinceUp > ProbeAfter]_qualityVars

(* What is accepted as evidence about capacity has been played             *)
(* (Signals.ts PROBE_HOLD, Controller.ts onProbeAccepted).                 *)
AcceptedHasPlayed == [][ProbeAccepted => ~restarting]_qualityVars

(* The comment at the head of Controller.ts, without the condition that    *)
(* capacity has been measured.                                             *)
NothingElseRefutes ==
  [][probing # Nil /\ index' < index
       => StallsWithin(StallWindow) # {}]_qualityVars
=============================================================================
