------------------------ MODULE SlpdDiscovery_proofs ------------------------
(***************************************************************************)
(* Among hosts that agree, the stale DA check removes no DA that can be    *)
(* heard, for every check period and heartbeat.  The invariant says how    *)
(* many alarms the count of an entry has to last: until the heartbeat that *)
(* may not be missed any more.                                             *)
(***************************************************************************)
EXTENDS SlpdDiscovery, TLAPS

\* The seconds to the heartbeat that has to be heard, one missed before it at
\* most, and the seconds the entry lasts, less what rounding may cost.
ToBeHeard == nextAdvert + (IF missed = 0 THEN HeartBeat ELSE 0)
Lasts == AgeInterval * entryvalue + (IF turn = "da" THEN 14 ELSE -1)

Typed ==
    /\ conf \in Config
    /\ turn \in {"sa", "da"}
    /\ daUp \in BOOLEAN /\ known \in BOOLEAN
    /\ nextAdvert \in Int /\ entryvalue \in Nat
    /\ missed \in {0, 1, 2}

IInv ==
    /\ Typed
    /\ 0 <= nextAdvert /\ nextAdvert <= HeartBeat
    /\ missed < Many => daUp
    /\ Agree /\ known /\ missed < Many => ToBeHeard <= Lasts

\* The heartbeat comes out as no faster than the alarm, and as fast as the
\* agent's check period needs it (SLPDPropertyReinit).
LEMMA HeartBeatFits ==
    ASSUME conf \in Config
    PROVE  /\ HeartBeat \in Nat /\ HeartBeat >= 15
           /\ Period \in Nat
           /\ Period \div AgeInterval \in Nat
           /\ Agree => HeartBeat + HeartBeat + 1 <= 15 * (Period \div AgeInterval)
<1> DEFINE dp == StaleDACheckPeriod(conf.daPeriod)
<1>1. conf.daPeriod \in Nat /\ conf.saPeriod \in Nat /\ conf.heartBeat \in Nat
  BY DEF Config
<1>2. dp \in Nat /\ (conf.daPeriod # 0 => dp >= 60) /\ (conf.daPeriod = 0 => dp = 0)
  BY <1>1 DEF StaleDACheckPeriod, HeartbeatsPerCheckPeriod, AgeInterval
<1>3. Period \in Nat /\ (Period # 0 => Period >= 60)
  BY <1>1 DEF Period, StaleDACheckPeriod, HeartbeatsPerCheckPeriod, AgeInterval
<1>4. PICK third \in Nat : third = dp \div 3 /\ 3 * third <= dp /\ dp <= 3 * third + 2
  BY <1>2
<1>5. PICK checks \in Nat : checks = Period \div 15 /\ Period <= 15 * checks + 14
  BY <1>3
<1> DEFINE beat == IF dp > 0 /\ (conf.heartBeat = 0 \/ conf.heartBeat > third)
                   THEN third ELSE conf.heartBeat
<1>6. HeartBeat = IF beat < 15 THEN 15 ELSE beat
  BY <1>4 DEF HeartBeat, DAHeartBeat, HeartbeatsPerCheckPeriod, AgeInterval
<1>7. beat \in Nat
  BY <1>1, <1>4
<1>8. ASSUME Agree PROVE 3 * HeartBeat <= Period /\ Period >= 60
  <2>1. Period # 0 /\ Period >= 60
    BY <1>3, <1>8 DEF Agree
  <2>2. 3 * beat <= Period
    <3>1. CASE conf.daPeriod # 0 /\ dp <= Period
      BY <3>1, <1>1, <1>2, <1>3, <1>4
    <3>2. CASE conf.heartBeat # 0 /\ 3 * conf.heartBeat <= Period
      BY <3>2, <1>1, <1>2, <1>3, <1>4
    <3> QED
      BY <1>8, <3>1, <3>2 DEF Agree, HeartbeatsPerCheckPeriod
  <2> QED
    BY <2>1, <2>2, <1>6, <1>7, <1>3
<1>9. HeartBeat \in Nat /\ HeartBeat >= 15
  BY <1>6, <1>7
<1>10. Period \div AgeInterval = checks
  BY <1>5 DEF AgeInterval
<1> QED
  BY <1>3, <1>5, <1>8, <1>9, <1>10

\* The configuration does not change, and what is computed of it does not.
LEMMA Constant ==
    ASSUME conf' = conf
    PROVE  /\ HeartBeat' = HeartBeat /\ Period' = Period
           /\ Agree' = Agree
  BY DEF HeartBeat, Period, Agree, Advertises, HeedsHeartbeats

LEMMA InitIInv == Init => IInv
<1> SUFFICES ASSUME Init PROVE IInv
  OBVIOUS
<1>1. Typed
  <2>1. conf \in Config
    BY DiscoveryAssumption DEF Init
  <2>2. known \in BOOLEAN /\ daUp \in BOOLEAN /\ turn \in {"sa", "da"}
    BY DEF Init
  <2>3. nextAdvert \in Int /\ entryvalue \in Nat /\ missed \in {0, 1, 2}
    BY DEF Init, Many
  <2> QED
    BY <2>1, <2>2, <2>3 DEF Typed
<1>2. HeartBeat \in Nat
  BY <1>1, HeartBeatFits DEF Typed
<1> QED
  BY <1>1, <1>2 DEF Init, IInv, Many

\* An advertisement that is heard sets the count anew.
LEMMA HeardLasts ==
    ASSUME IInv, daUp, daUp' = daUp, conf' = conf, Heard,
           turn' \in {"sa", "da"}, nextAdvert' \in Int,
           0 <= nextAdvert', nextAdvert' <= HeartBeat
    PROVE  IInv'
<1>1. HeartBeat \in Nat /\ Period \div AgeInterval \in Nat
  BY HeartBeatFits DEF IInv, Typed
<1>2. Typed'
  BY <1>1 DEF IInv, Typed, Heard, KnownDAAdd
<1>3. ASSUME Agree PROVE ToBeHeard' <= Lasts'
  <2>1. PICK checks \in Nat : checks = Period \div AgeInterval
    BY <1>1
  <2>2. HeartBeat + HeartBeat + 1 <= 15 * checks
    BY <1>3, <2>1, HeartBeatFits DEF IInv, Typed
  <2>3. PICK beat \in Nat : beat = HeartBeat
    BY <1>1
  <2>4. PICK next \in Int : next = nextAdvert'
    OBVIOUS
  <2>5. next <= beat /\ beat + beat + 1 <= 15 * checks
    BY <2>2, <2>3, <2>4
  <2>6. ToBeHeard' = next + beat
    BY <2>3, <2>4, Constant DEF ToBeHeard, Heard
  <2>7. entryvalue' = checks
    BY <2>1 DEF Heard, KnownDAAdd
  <2>8. Lasts' \in Int /\ Lasts' >= 15 * checks - 1
    BY <2>7 DEF Lasts, AgeInterval
  <2> QED
    BY <2>5, <2>6, <2>8
<1> QED
  BY <1>2, <1>3, Constant DEF IInv

\* Each step keeps the invariant.
LEMMA StepIInv == IInv /\ [Next]_vars => IInv'
<1> SUFFICES ASSUME IInv, [Next]_vars PROVE IInv'
  OBVIOUS
<1>0. /\ HeartBeat \in Nat /\ HeartBeat >= 15 /\ Period \in Nat
      /\ conf.daPeriod \in Nat
  BY HeartBeatFits DEF IInv, Typed, Config
<1>1. CASE SaAlarm
  <2>1. Typed'
    BY <1>1 DEF IInv, Typed, SaAlarm, daVars
  <2>2. nextAdvert' = nextAdvert /\ daUp' = daUp /\ missed' = missed /\ conf' = conf
    BY <1>1 DEF SaAlarm, daVars
  <2>3. ASSUME Agree, known', missed < Many PROVE ToBeHeard' <= Lasts'
    <3>1. known /\ Period # 0 /\ entryvalue # 0
      BY <1>1, <2>3 DEF SaAlarm, Stale, Agree
    <3>2. entryvalue' = entryvalue - 1
      BY <1>1, <3>1 DEF SaAlarm, IInv, Typed
    <3>3. Lasts' = Lasts
      BY <1>1, <3>2 DEF Lasts, SaAlarm, AgeInterval, IInv, Typed
    <3>4. ToBeHeard' = ToBeHeard
      BY <2>2, Constant DEF ToBeHeard
    <3> QED
      BY <2>3, <3>1, <3>3, <3>4 DEF IInv
  <2> QED
    BY <2>1, <2>2, <2>3, Constant DEF IInv
<1>2. CASE GivesUp
  BY <1>2, Constant DEF GivesUp, daVars, IInv, Typed
<1>3. CASE HandleSigHup
  BY <1>3, Constant DEF HandleSigHup, daVars, IInv, Typed
<1>4. ASSUME NEW heard \in BOOLEAN, DaAlarm(heard) PROVE IInv'
  <2>1. turn = "da" /\ turn' = "sa" /\ conf' = conf /\ daUp' = daUp
    BY <1>4 DEF DaAlarm
  <2>2. /\ nextAdvert' \in Int /\ 0 <= nextAdvert' /\ nextAdvert' <= HeartBeat
    BY <1>4, <1>0 DEF DaAlarm, NextAdvert, Due, IInv, Typed, AgeInterval
  <2>3. CASE Due /\ heard
    BY <1>4, <2>1, <2>2, <2>3, HeardLasts DEF DaAlarm, Due
  <2>4. CASE Due /\ ~heard
    <3>1. NotHeard /\ UNCHANGED saVars
      BY <1>4, <2>4 DEF DaAlarm
    <3>2. Typed'
      BY <2>1, <2>2, <3>1 DEF IInv, Typed, NotHeard, saVars, Many
    <3>3. daUp
      BY <2>4 DEF Due
    <3>4. ASSUME Agree, known, missed' < Many PROVE ToBeHeard' <= Lasts'
      <4>1. missed = 0 /\ missed' = 1
        BY <3>1, <3>4 DEF NotHeard, Many, IInv, Typed
      <4>2. nextAdvert' = nextAdvert - 15 + HeartBeat
        BY <1>4, <2>4 DEF DaAlarm, Due, NextAdvert, AgeInterval
      <4>3. ToBeHeard = nextAdvert + HeartBeat /\ ToBeHeard' = nextAdvert'
        BY <4>1, <4>2, <1>0 DEF ToBeHeard, IInv, Typed
      <4>4. Lasts = 15 * entryvalue + 14 /\ Lasts' = 15 * entryvalue - 1
        BY <2>1, <3>1 DEF Lasts, AgeInterval, saVars, IInv, Typed
      <4>5. ToBeHeard <= Lasts
        BY <3>4, <4>1 DEF IInv, Many
      <4> QED
        BY <4>2, <4>3, <4>4, <4>5, <1>0 DEF IInv, Typed
    <3> QED
      BY <2>1, <2>2, <3>1, <3>2, <3>3, <3>4, Constant DEF IInv, saVars
  <2>5. CASE ~Due
    <3>1. UNCHANGED <<saVars, missed>>
      BY <1>4, <2>5 DEF DaAlarm
    <3>2. Typed'
      BY <2>1, <2>2, <3>1 DEF IInv, Typed, saVars
    <3>3. ASSUME Agree, known, missed < Many PROVE ToBeHeard' <= Lasts'
      <4>1. daUp /\ Advertises
        BY <3>3 DEF IInv, Agree
      <4>2. nextAdvert' = nextAdvert - 15
        BY <1>4, <2>5, <4>1 DEF DaAlarm, NextAdvert, AgeInterval, IInv, Typed
      <4>3. ToBeHeard' = ToBeHeard - 15
        BY <4>2, <3>1, <2>1, <1>0, Constant DEF ToBeHeard, IInv, Typed
      <4>4. Lasts = 15 * entryvalue + 14 /\ Lasts' = 15 * entryvalue - 1
        BY <2>1, <3>1 DEF Lasts, AgeInterval, saVars, IInv, Typed
      <4>5. ToBeHeard <= Lasts /\ ToBeHeard \in Int
        BY <3>3, <1>0 DEF IInv, ToBeHeard, Typed
      <4> QED
        BY <4>3, <4>4, <4>5 DEF IInv, Typed
    <3> QED
      BY <2>1, <2>2, <3>1, <3>2, <3>3, Constant DEF IInv, saVars
  <2> QED
    BY <2>3, <2>4, <2>5
<1>5. ASSUME NEW r \in {"static", "multicast"}, DaAnswers(r) PROVE IInv'
  <2>1. CASE HeedsAnswers
    BY <1>5, <2>1, HeardLasts DEF DaAnswers, daVars, IInv, Typed
  <2>2. CASE ~HeedsAnswers
    BY <1>5, <2>2, Constant DEF DaAnswers, daVars, saVars, IInv, Typed, ToBeHeard, Lasts
  <2> QED
    BY <2>1, <2>2
<1>6. CASE DaStart
  BY <1>6, <1>0, Constant DEF DaStart, saVars, IInv, Typed, Many
<1>7. CASE DaHup
  <2>1. /\ nextAdvert' = 0 /\ conf' = conf /\ turn' = turn /\ missed' = missed
        /\ known' = known /\ entryvalue' = entryvalue /\ daUp' = daUp
    BY <1>7 DEF DaHup, saVars
  <2>2. ToBeHeard' <= ToBeHeard /\ Lasts' = Lasts
    BY <2>1, <1>0, Constant DEF ToBeHeard, Lasts, IInv, Typed
  <2>3. ToBeHeard \in Int /\ ToBeHeard' \in Int /\ Lasts \in Int
    BY <2>1, <1>0, Constant DEF ToBeHeard, Lasts, IInv, Typed, AgeInterval
  <2> QED
    BY <2>1, <2>2, <2>3, <1>0, Constant DEF IInv, Typed
<1>8. CASE DaStop
  <2>1. /\ conf' = conf /\ turn' = turn /\ nextAdvert' = nextAdvert
        /\ entryvalue' = entryvalue /\ missed' = 2 /\ daUp' = FALSE
    BY <1>8 DEF DaStop, Many
  <2>2. known' \in BOOLEAN
    BY <1>8 DEF DaStop, IInv, Typed
  <2>3. Typed'
    BY <2>1, <2>2 DEF IInv, Typed
  <2> QED
    BY <2>1, <2>3, Constant DEF IInv, Many
<1>9. CASE UNCHANGED vars
  BY <1>9, Constant DEF vars, daVars, saVars, IInv, Typed, ToBeHeard, Lasts
<1> QED
  BY <1>1, <1>2, <1>3, <1>4, <1>5, <1>6, <1>7, <1>8, <1>9 DEF Next

\* No DA that runs and can be heard is taken for stale, for every check period
\* and every heartbeat that two hosts may be configured with so that they agree
\* (SLPDKnownDAStaleDACheck).
THEOREM NoLiveDAIsStale == Spec => StaleMeansSilent
<1>1. IInv /\ [Next]_vars =>
        [Agree /\ SaAlarm /\ known /\ ~known' => missed = Many]_vars
  <2> SUFFICES ASSUME IInv, Agree, SaAlarm, known, ~known' PROVE missed = Many
    OBVIOUS
  <2>1. entryvalue = 0 /\ turn = "sa"
    BY DEF SaAlarm, Stale
  <2>2. HeartBeat \in Nat
    BY HeartBeatFits DEF IInv, Typed
  <2>3. ASSUME missed < Many PROVE FALSE
    <3>1. ToBeHeard <= Lasts
      BY <2>3 DEF IInv
    <3>2. Lasts = -1
      BY <2>1 DEF Lasts, AgeInterval
    <3> QED
      BY <3>1, <3>2, <2>2 DEF ToBeHeard, IInv, Typed
  <2> QED
    BY <2>3 DEF IInv, Typed, Many
<1> QED
  BY <1>1, InitIInv, StepIInv, PTL DEF Spec, StaleMeansSilent
=============================================================================
