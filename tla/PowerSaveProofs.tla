-------------------------- MODULE PowerSaveProofs --------------------------
(***************************************************************************)
(* Proofs about the power saving word, for every build the Kconfig ranges  *)
(* allow, and about the reports made from it.                              *)
(***************************************************************************)
EXTENDS PowerSave, TLAPS

\* The fields of the word do not overlap: each mask gets its setting back.
LEMMA Fields ==
  ASSUME NEW m \in 0..2, NEW s \in Setting
  PROVE  /\ PmValue(m, s) \in Nat
         /\ ModeOf(PmValue(m, s)) = m
         /\ RadioMode(PmValue(m, s)) = m
         /\ SleepOf(PmValue(m, s)) = s.sleep \div 10
         /\ BeaconOf(PmValue(m, s)) = s.beacon
         /\ DtimOf(PmValue(m, s)) = s.dtim
<1> DEFINE sleep == s.sleep \div 10
           beacon == s.beacon
           dtim == s.dtim
           assoc == s.assoc
           w == m + 16 * sleep + 4096 * beacon + 65536 * dtim + 1048576 * assoc
<1>1. /\ m \in 0..2 /\ sleep \in 0..25 /\ beacon \in 0..15
      /\ dtim \in 0..15 /\ assoc \in 0..15
  BY DEF Setting
<1>2. PmValue(m, s) = w
  BY DEF PmValue
<1> HIDE DEF sleep, beacon, dtim, assoc
<1>3. w \in Nat
  BY <1>1
<1>4. w % 16 = m
  BY <1>1
<1>5. (w \div 16) % 256 = sleep
  <2>1. w \div 16 = sleep + 256 * (beacon + 16 * dtim + 256 * assoc)
    BY <1>1
  <2>2. beacon + 16 * dtim + 256 * assoc \in Nat
    BY <1>1
  <2> QED
    BY <1>1, <2>1, <2>2
<1>6. (w \div 4096) % 16 = beacon
  <2>1. w \div 4096 = beacon + 16 * (dtim + 16 * assoc)
    <3> DEFINE above == beacon + 16 * (dtim + 16 * assoc)
               below == m + 16 * sleep
    <3>1. above \in Nat
      BY <1>1
    <3>2. below \in Nat /\ below < 4096
      BY <1>1
    <3>3. w = 4096 * above + below
      BY <1>1
    <3> HIDE DEF w, above, below
    <3>4. w \div 4096 = above
      BY <3>1, <3>2, <3>3
    <3> QED
      BY <3>4 DEF above
  <2>2. dtim + 16 * assoc \in Nat
    BY <1>1
  <2> QED
    BY <1>1, <2>1, <2>2
<1>7. (w \div 65536) % 16 = dtim
  <2>1. w \div 65536 = dtim + 16 * assoc
    <3> DEFINE above == dtim + 16 * assoc
               below == m + 16 * sleep + 4096 * beacon
    <3>1. above \in Nat
      BY <1>1
    <3>2. below \in Nat /\ below < 65536
      BY <1>1
    <3>3. w = 65536 * above + below
      BY <1>1
    <3> HIDE DEF w, above, below
    <3>4. w \div 65536 = above
      BY <3>1, <3>2, <3>3
    <3> QED
      BY <3>4 DEF above
  <2> QED
    BY <1>1, <2>1
<1> QED
  BY <1>2, <1>3, <1>4, <1>5, <1>6, <1>7
     DEF ModeOf, RadioMode, SleepOf, BeaconOf, DtimOf, sleep, beacon, dtim

\* The mask of pm_status has no bit of the DTIM interval: it always gets zero.
LEMMA StatusDtimZero == \A w \in Nat : StatusDtimOf(w) = 0
  BY DEF StatusDtimOf

\* The same for the words of a build.
LEMMA WordsFields ==
  ASSUME NEW s \in Setting, NEW w \in Words(s)
  PROVE  /\ w \in Nat
         /\ ModeOf(w) = RadioMode(w) /\ RadioMode(w) \in 0..2
         /\ SleepOf(w) = s.sleep \div 10
         /\ BeaconOf(w) = s.beacon
         /\ DtimOf(w) = s.dtim
<1>1. PICK m \in 0..2 : w = PmValue(m, s)
  BY DEF Words, EnabledMode, Setting
<1> QED
  BY <1>1, Fields

\* What set_pm asks for is a word of the build.
LEMMA AskedWords ==
  ASSUME NEW s, NEW enabled \in BOOLEAN
  PROVE  PmValue(IF enabled THEN EnabledMode(s) ELSE 0, s) \in Words(s)
  BY DEF Words

\* What the two status calls tell is a report.
LEMMA NatFields ==
  \A w \in Nat : SleepOf(w) \in Nat /\ BeaconOf(w) \in Nat /\ DtimOf(w) \in Nat
  BY DEF SleepOf, BeaconOf, DtimOf

LEMMA NoReportTyped == NoReport \in Report
<1>1. FALSE \in BOOLEAN
  OBVIOUS
<1> QED
  BY <1>1 DEF NoReport, Report

LEMMA StatusTyped ==
  ASSUME NEW wakeup \in {"DTIM", "LISTEN_INTERVAL"}, NEW timeout \in Nat
  PROVE  [NoReport EXCEPT !.enabled = TRUE, !.wakeup = wakeup, !.timeout = timeout] \in Report
<1>1. TRUE \in BOOLEAN
  OBVIOUS
<1> QED
  BY <1>1 DEF NoReport, Report

LEMMA PeriodsTyped ==
  ASSUME NEW beacon \in Nat, NEW dtim \in Nat
  PROVE  [NoReport EXCEPT !.enabled = TRUE, !.beacon = beacon, !.dtim = dtim] \in Report
<1>1. TRUE \in BOOLEAN
  OBVIOUS
<1> QED
  BY <1>1 DEF NoReport, Report

\* Words and reports keep their types.
THEOREM TypeCorrect == Spec => []TypeOK
<1> USE SettingsAssumption DEF SettingsAssumption
<1>1. Init => TypeOK
  <2> SUFFICES ASSUME Init
               PROVE  TypeOK
    OBVIOUS
  <2>1. pending \in BOOLEAN
    BY Zenon DEF Init
  <2> QED
    BY <2>1, NoReportTyped DEF Init, TypeOK, Words
<1>2. TypeOK /\ [Next]_vars => TypeOK'
  <2> SUFFICES ASSUME TypeOK, [Next]_vars
               PROVE  TypeOK'
    OBVIOUS
  <2>0. config \in Setting /\ Words(config) \subseteq Nat /\ pm_in \in Nat
    BY WordsFields DEF TypeOK
  <2>1. CASE \E enabled \in BOOLEAN : SetPm(enabled)
    <3>1. pending' \in BOOLEAN
      BY <2>1, Zenon DEF SetPm
    <3>2. pm_out' \in Words(config)
      BY <2>1, AskedWords DEF SetPm
    <3> QED
      BY <2>1, <3>1, <3>2 DEF SetPm, TypeOK
  <2>2. CASE Apply
    <3>1. pending' \in BOOLEAN
      BY <2>2, Zenon DEF Apply
    <3>2. pm_out \in Words(config)
      BY <2>2 DEF Apply, TypeOK
    <3> QED
      BY <2>2, <3>1, <3>2, WordsFields, <2>0 DEF Apply, TypeOK
  <2>3. CASE ApplyNothing
    <3>1. pending' \in BOOLEAN
      BY <2>3, Zenon DEF ApplyNothing
    <3> QED
      BY <2>3, <3>1 DEF ApplyNothing, TypeOK
  <2>4. ASSUME NEW t \in Reader, NEW next \in {"decode", "test"}, Fetch(t, next)
        PROVE  TypeOK'
    BY <2>4, <2>0, WordsFields DEF Fetch, TypeOK
  <2>5. ASSUME NEW t \in Reader, Decode(t)
        PROVE  TypeOK'
    <3> DEFINE wakeup == IF StatusDtimOf(pm_in) # 0 THEN "DTIM" ELSE "LISTEN_INTERVAL"
               timeout == 10 * SleepOf(pm_in)
               status == [NoReport EXCEPT
                            !.enabled = TRUE, !.wakeup = wakeup, !.timeout = timeout]
    <3>1. wakeup \in {"DTIM", "LISTEN_INTERVAL"} /\ timeout \in Nat
      BY <2>0, NatFields
    <3>2. status \in Report
      BY <3>1, StatusTyped
    <3>3. report' = [report EXCEPT ![t] = IF ModeOf(pm_in) # 0 THEN status ELSE NoReport]
      BY <2>5 DEF Decode
    <3> HIDE DEF status
    <3>4. report' \in [Reader -> Report]
      BY <3>2, <3>3, NoReportTyped DEF TypeOK
    <3> QED
      BY <2>5, <3>4 DEF Decode, TypeOK
  <2>6. ASSUME NEW t \in Reader, TestMode(t)
        PROVE  TypeOK'
    BY <2>6, NoReportTyped DEF TestMode, TypeOK
  <2>7. ASSUME NEW t \in Reader, ReadPeriods(t)
        PROVE  TypeOK'
    <3>1. report' \in [Reader -> Report]
      BY <2>7, <2>0, NatFields, PeriodsTyped DEF ReadPeriods, TypeOK
    <3> QED
      BY <2>7, <3>1 DEF ReadPeriods, TypeOK
  <2>8. CASE UNCHANGED vars
    BY <2>8 DEF vars, TypeOK
  <2> QED
    BY <2>1, <2>2, <2>3, <2>4, <2>5, <2>6, <2>7, <2>8 DEF Next, ReadStep
<1> QED
  BY <1>1, <1>2, PTL DEF Spec

\* What a status call finds in pm_in is current, whoever put it there.
THEOREM Inductive == Spec => []FetchInv
<1> USE SettingsAssumption DEF SettingsAssumption
<1>1. Init => FetchInv
  BY DEF Init, FetchInv, StatusOfThisCall
<1>2. TypeOK /\ FetchInv /\ [Next]_vars => FetchInv'
  <2> SUFFICES ASSUME TypeOK, FetchInv, [Next]_vars
               PROVE  FetchInv'
    OBVIOUS
  <2>0. config \in Setting
    BY DEF TypeOK
  <2>1. CASE \E enabled \in BOOLEAN : SetPm(enabled)
    BY <2>1 DEF SetPm, FetchInv, StatusOfThisCall, Words
  <2>2. CASE Apply
    BY <2>2 DEF Apply, FetchInv, StatusOfThisCall, TypeOK, Words
  <2>3. CASE ApplyNothing
    BY <2>3 DEF ApplyNothing, FetchInv, StatusOfThisCall, Words
  <2>4. ASSUME NEW t \in Reader, NEW next \in {"decode", "test"}, Fetch(t, next)
        PROVE  FetchInv'
    BY <2>4 DEF Fetch, FetchInv, StatusOfThisCall, TypeOK, Words
  <2>5. ASSUME NEW t \in Reader, Decode(t)
        PROVE  FetchInv'
    <3>1. RadioMode(pm_in) \in seen[t] /\ ModeOf(pm_in) = RadioMode(pm_in)
      BY <2>5, <2>0, WordsFields DEF Decode, FetchInv
    <3>2. report'[t].enabled <=> ModeOf(pm_in) # 0
      BY <2>5 DEF Decode, NoReport, TypeOK
    <3> QED
      BY <2>5, <3>1, <3>2 DEF Decode, FetchInv, StatusOfThisCall, TypeOK, Words
  <2>6. ASSUME NEW t \in Reader, TestMode(t)
        PROVE  FetchInv'
    <3>1. RadioMode(pm_in) \in seen[t] /\ ModeOf(pm_in) = RadioMode(pm_in)
      BY <2>6, <2>0, WordsFields DEF TestMode, FetchInv
    <3>2. CASE ModeOf(pm_in) # 0
      BY <2>6, <3>1, <3>2 DEF TestMode, FetchInv, StatusOfThisCall, TypeOK, Words
    <3>3. CASE ModeOf(pm_in) = 0
      <4>1. ~report'[t].enabled
        BY <2>6, <3>3 DEF TestMode, NoReport, TypeOK
      <4> QED
        BY <2>6, <3>1, <3>3, <4>1 DEF TestMode, FetchInv, StatusOfThisCall, TypeOK, Words
    <3> QED
      BY <3>2, <3>3
  <2>7. ASSUME NEW t \in Reader, ReadPeriods(t)
        PROVE  FetchInv'
    <3>1. report'[t].enabled
      BY <2>7 DEF ReadPeriods, NoReport, TypeOK
    <3> QED
      BY <2>7, <3>1 DEF ReadPeriods, FetchInv, StatusOfThisCall, TypeOK, Words
  <2>8. CASE UNCHANGED vars
    BY <2>8 DEF vars, FetchInv, StatusOfThisCall, Words
  <2> QED
    BY <2>1, <2>2, <2>3, <2>4, <2>5, <2>6, <2>7, <2>8 DEF Next, ReadStep
<1> QED
  BY TypeCorrect, <1>1, <1>2, PTL DEF Spec

\* Both, for every value of the constants.
THEOREM TypesAndInvariant == Spec => []IndInv
<1>1. TypeOK /\ FetchInv => IndInv
  BY DEF IndInv
<1> QED
  BY <1>1, TypeCorrect, Inductive, PTL

\* What a call says of power saving was true since its fetch.
THEOREM StatusCurrent == Spec => []StatusOfThisCall
<1>1. FetchInv => StatusOfThisCall
  BY DEF FetchInv
<1> QED
  BY <1>1, Inductive, PTL

\* The wake periods that iface_status gives are those of the build, for every
\* build and whichever call fetched the word they are read from.
THEOREM PeriodsKept == Spec => []PeriodsReported
<1> USE SettingsAssumption DEF SettingsAssumption
<1>1. Init => PeriodsReported
  BY DEF Init, PeriodsReported, NoReport
<1>2. TypeOK /\ FetchInv /\ PeriodsReported /\ [Next]_vars => PeriodsReported'
  <2> SUFFICES ASSUME TypeOK, FetchInv, PeriodsReported, [Next]_vars
               PROVE  PeriodsReported'
    OBVIOUS
  <2>0. config \in Setting
    BY DEF TypeOK
  <2>1. CASE \E enabled \in BOOLEAN : SetPm(enabled)
    BY <2>1 DEF SetPm, PeriodsReported
  <2>2. CASE Apply \/ ApplyNothing
    BY <2>2 DEF Apply, ApplyNothing, PeriodsReported
  <2>3. ASSUME NEW t \in Reader, NEW next \in {"decode", "test"}, Fetch(t, next)
        PROVE  PeriodsReported'
    BY <2>3 DEF Fetch, PeriodsReported
  <2>4. ASSUME NEW t \in Reader, Decode(t)
        PROVE  PeriodsReported'
    <3>1. report'[t].enabled => report'[t].wakeup # "none"
      BY <2>4 DEF Decode, NoReport, TypeOK
    <3> QED
      BY <2>4, <3>1 DEF Decode, PeriodsReported, TypeOK
  <2>5. ASSUME NEW t \in Reader, TestMode(t)
        PROVE  PeriodsReported'
    BY <2>5 DEF TestMode, NoReport, PeriodsReported, TypeOK
  <2>6. ASSUME NEW t \in Reader, ReadPeriods(t)
        PROVE  PeriodsReported'
    <3>1. BeaconOf(pm_in) = config.beacon /\ DtimOf(pm_in) = config.dtim
      BY <2>6, <2>0, WordsFields DEF ReadPeriods, FetchInv
    <3>2. report'[t].beacon = BeaconOf(pm_in) /\ report'[t].dtim = DtimOf(pm_in)
            /\ report'[t].wakeup = "none"
      BY <2>6 DEF ReadPeriods, NoReport, TypeOK
    <3> QED
      BY <2>6, <3>1, <3>2 DEF ReadPeriods, PeriodsReported, TypeOK
  <2>7. CASE UNCHANGED vars
    BY <2>7 DEF vars, PeriodsReported
  <2> QED
    BY <2>1, <2>2, <2>3, <2>4, <2>5, <2>6, <2>7 DEF Next, ReadStep
<1> QED
  BY TypeCorrect, Inductive, <1>1, <1>2, PTL DEF Spec
=============================================================================
