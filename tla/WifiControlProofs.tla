--------------------------- MODULE WifiControlProofs ---------------------------
(***************************************************************************)
(* Station and access point mode for any callers and any retry bounds:     *)
(* serial calls keep the modes apart, and, however the calls overlap, the  *)
(* interface bit tells the truth and no DHCP server is left behind.        *)
(***************************************************************************)
EXTENDS WifiControl, SequenceTheorems, TLAPS

\* The inductive invariant of mode control.
THEOREM Inductive == Spec => []ControlInv
<1>1. Init => ControlInv
  BY DEF Init, Op, ControlInv, CallsTyped, AlongService, SerialCalls, Cleared,
         ModesApart, ApBitMatchesRadio, NoServerWithoutAp
<1>2. ControlInv /\ [Next]_vars => ControlInv'
  <2> SUFFICES ASSUME ControlInv, [Next]_vars
               PROVE  ControlInv'
    OBVIOUS
  <2> USE DEF ControlInv, CallsTyped, AlongService, SerialCalls, Cleared,
              ModesApart, ApBitMatchesRadio, NoServerWithoutAp,
              Op, radioVars, netVars, callVars, workVars, Goto
  <2>1. ASSUME NEW c \in Caller, NEW o \in Op, Check(c, o)
        PROVE  ControlInv'
    <3>1. /\ pc' = [pc EXCEPT ![c] = o] /\ pc[c] = "out"
          /\ overlap' = (overlap \/ Busy)
          /\ UNCHANGED <<build, radioVars, netVars, pending, workVars>>
      BY <2>1 DEF Check
    <3>2. CallsTyped' /\ AlongService' /\ ApBitMatchesRadio' /\ NoServerWithoutAp'
      BY <3>1
    <3>3. SUFFICES ASSUME ~overlap'
                   PROVE  SerialCalls'
      BY <3>2
    <3>4. ~overlap /\ ~Busy
      BY <3>1, <3>3
    <3>5. pending = "none" /\ op = "none" /\ \A d \in Caller : pc[d] = "out"
      BY <3>4 DEF Busy
    <3>6. o = "connect" => ~ap
      BY <2>1 DEF Check, Allowed
    <3>7. o = "enable_ap" => ~ap /\ ~ClientLink
      BY <2>1 DEF Check, Allowed
    <3>8. o = "enable_ap" => link # "JOIN"
      BY <3>7 DEF ClientLink
    <3> QED
      BY <3>1, <3>4, <3>5, <3>6, <3>8
  <2>2. ASSUME NEW c \in Caller, Request(c)
        PROVE  ControlInv'
    BY <2>2 DEF Request
  <2>3. CASE LinkEvent
    BY <2>3 DEF LinkEvent
  <2>4. CASE Start
    BY <2>4 DEF Start, FirstStep
  <2>5. CASE JoinRefused
    BY <2>5 DEF JoinRefused, AfterAttempt
  <2>6. CASE JoinBegun
    BY <2>6 DEF JoinBegun
  <2>7. CASE PollJoined
    BY <2>7 DEF PollJoined
  <2>8. CASE PollLost
    BY <2>8 DEF PollLost, AfterAttempt
  <2>9. CASE ConnectFailed
    BY <2>9 DEF ConnectFailed
  <2>10. CASE ConnectJoined
    BY <2>10 DEF ConnectJoined
  <2>11. CASE RaiseConnected
    BY <2>11 DEF RaiseConnected
  <2>12. CASE RaiseDisconnected
    BY <2>12 DEF RaiseDisconnected
  <2>13. CASE LeaveRefused
    BY <2>13 DEF LeaveRefused
  <2>14. CASE LeaveDone
    BY <2>14 DEF LeaveDone
  <2>15. CASE Left
    BY <2>15 DEF Left
  <2>16. CASE ApUp
    BY <2>16 DEF ApUp
  <2>17. CASE ApAddress
    BY <2>17 DEF ApAddress
  <2>18. CASE ApAddressRefused
    BY <2>18 DEF ApAddressRefused
  <2>19. CASE ApCarrier
    BY <2>19 DEF ApCarrier
  <2>20. CASE ApServe
    BY <2>20 DEF ApServe
  <2>21. CASE ApDown
    BY <2>21 DEF ApDown
  <2>22. CASE StaUp
    BY <2>22 DEF StaUp
  <2>23. CASE ClearApBit
    BY <2>23 DEF ClearApBit
  <2>24. CASE ApUnserve
    BY <2>24 DEF ApUnserve
  <2>25. CASE ApDormant
    BY <2>25 DEF ApDormant
  <2>26. CASE Return
    BY <2>26 DEF Return
  <2>27. CASE UNCHANGED vars
    BY <2>27 DEF vars
  <2> QED
    BY <2>1, <2>2, <2>3, <2>4, <2>5, <2>6, <2>7, <2>8, <2>9, <2>10, <2>11, <2>12, <2>13, <2>14, <2>15, <2>16, <2>17, <2>18, <2>19, <2>20, <2>21, <2>22, <2>23, <2>24, <2>25, <2>26, <2>27
       DEF Next, Call, WorkStep, ConnectStep, DisconnectStep, EnableApStep, DisableApStep
<1> QED
  BY <1>1, <1>2, PTL DEF Spec

\* As long as every call waits for the one before it, the station never joins
\* a network while the access point is up, nor the other way round.
THEOREM SerialModesApart == Spec => []ModesApartWhenSerial
<1>1. ControlInv => ModesApartWhenSerial
  BY DEF ControlInv, SerialCalls, ModesApartWhenSerial
<1> QED
  BY <1>1, Inductive, PTL

\* However the calls overlap, the access point bit agrees with the radio.
THEOREM ApBitTruthful == Spec => []ApBitMatchesRadio
<1>1. ControlInv => ApBitMatchesRadio
  BY DEF ControlInv
<1> QED
  BY <1>1, Inductive, PTL

\* However the calls overlap, a DHCP server runs only with its access point.
THEOREM ServerNeedsAp == Spec => []NoServerWithoutAp
<1>1. ControlInv => NoServerWithoutAp
  BY DEF ControlInv
<1> QED
  BY <1>1, Inductive, PTL

\* A service raises an event onto none or onto one.
LEMMA Raised ==
  ASSUME NEW a, NEW b
  PROVE  Append(<<>>, b) = <<b>> /\ Append(<<a>>, b) = <<a, b>>
<1> DEFINE S == {a, b}
           s == <<a>>
<1>1. Append(<<>>, b) = <<b>>
  OBVIOUS
<1>2. s \in Seq(S) /\ b \in S /\ Len(s) = 1 /\ s[1] = a
  OBVIOUS
<1> HIDE DEF s, S
<1>3. /\ Append(s, b) \in Seq(S) /\ Len(Append(s, b)) = Len(s) + 1
      /\ \A i \in 1..Len(s) : Append(s, b)[i] = s[i]
      /\ Append(s, b)[Len(s) + 1] = b
  <2>1. \A T : \A q \in Seq(T) : \A e \in T :
          /\ Append(q, e) \in Seq(T) /\ Len(Append(q, e)) = Len(q) + 1
          /\ \A i \in 1..Len(q) : Append(q, e)[i] = q[i]
          /\ Append(q, e)[Len(q) + 1] = e
    BY AppendProperties
  <2> QED
    BY <1>2, <2>1, Zenon
<1>4. <<a, b>> \in Seq(S) /\ Len(<<a, b>>) = 2
  BY DEF S
<1>5. \A i \in 1..2 : Append(s, b)[i] = <<a, b>>[i]
  BY <1>2, <1>3
<1>6. Len(Append(s, b)) = Len(<<a, b>>) /\ \A i \in 1..Len(Append(s, b)) : Append(s, b)[i] = <<a, b>>[i]
  BY <1>2, <1>3, <1>4, <1>5
<1>7. Append(s, b) = <<a, b>>
  BY <1>3, <1>4, <1>6, SeqEqual, Zenon
<1> QED
  BY <1>1, <1>7 DEF s

\* Up to two of a kind.
LEMMA UpToTwo ==
  ASSUME NEW S, NEW a \in S, NEW b \in S
  PROVE  /\ <<>> \in Seq(S) /\ Len(<<>>) <= 2
         /\ <<a>> \in Seq(S) /\ Len(<<a>>) <= 2
         /\ <<a, b>> \in Seq(S) /\ Len(<<a, b>>) <= 2
<1>1. <<>> \in Seq(S) /\ Len(<<>>) <= 2
  OBVIOUS
<1>2. <<a>> \in Seq(S) /\ Len(<<a>>) <= 2
  OBVIOUS
<1>3. <<a, b>> \in Seq(S) /\ Len(<<a, b>>) <= 2
  OBVIOUS
<1> QED
  BY <1>1, <1>2, <1>3

\* The types beside the callers': retries stay within their bounds, and a
\* service raises at most two result events.
THEOREM TypeCorrect == Spec => []IndInv
<1> DEFINE
      Flags == /\ build \in [sta : BOOLEAN, ap : BOOLEAN]
               /\ sta \in BOOLEAN /\ ap \in BOOLEAN /\ apOn \in BOOLEAN
               /\ dormant \in BOOLEAN /\ client \in BOOLEAN /\ server \in BOOLEAN
               /\ overlap \in BOOLEAN
      Counts == link \in Link /\ step \in Step /\ joins \in 0..MaxJoin /\ polls \in 0..MaxPoll
<1>1. Init => Flags /\ Counts /\ Attempts /\ Answers
  <2> SUFFICES ASSUME Init PROVE Flags /\ Counts /\ Attempts /\ Answers
    OBVIOUS
  <2>1. Flags
    BY Zenon DEF Init
  <2>2. Counts
    BY JoinAssumption DEF JoinAssumption, Init, Link, Step
  <2>3. Attempts /\ Answers
    BY JoinAssumption DEF JoinAssumption, Init, Attempts, Answers
  <2> QED
    BY <2>1, <2>2, <2>3
<1>2. ControlInv /\ Flags /\ Counts /\ Attempts /\ Answers /\ [Next]_vars
        => Flags' /\ Counts' /\ Attempts' /\ Answers'
  <2> SUFFICES ASSUME ControlInv, Flags, Counts, Attempts, Answers, [Next]_vars
               PROVE  Flags' /\ Counts' /\ Attempts' /\ Answers'
    OBVIOUS
  <2>0. CallsTyped /\ AlongService
    BY DEF ControlInv
  <2> USE JoinAssumption DEF JoinAssumption, radioVars, netVars, callVars, workVars, Goto
  <2>1. ASSUME NEW c \in Caller, NEW o \in Op, Check(c, o)
        PROVE  Flags' /\ Counts' /\ Attempts' /\ Answers'
    <3>1. Flags'
      BY <2>1, Zenon DEF Check
    <3>2. Counts' /\ Attempts' /\ Answers'
      BY <2>1 DEF Check, Attempts, Answers
    <3> QED
      BY <3>1, <3>2
  <2>2. ASSUME NEW c \in Caller, Request(c)
        PROVE  Flags' /\ Counts' /\ Attempts' /\ Answers'
    <3>1. Flags'
      BY <2>2, Zenon DEF Request
    <3>2. Counts' /\ Attempts' /\ Answers'
      BY <2>2 DEF Request, Attempts, Answers
    <3> QED
      BY <3>1, <3>2
  <2>3. CASE LinkEvent
    <3>1. Flags'
      BY <2>3, Zenon DEF LinkEvent
    <3>2. Counts' /\ Attempts' /\ Answers'
      BY <2>3 DEF LinkEvent, Attempts, Answers, Link
    <3> QED
      BY <3>1, <3>2
  <2>4. CASE Start
    <3>1. Flags'
      BY <2>4, Zenon DEF Start
    <3>2. Counts' /\ Attempts' /\ Answers'
      <4>1. step = "none" /\ step' \in {"join", "leave", "up", "down"}
        BY <2>4, <2>0 DEF Start, FirstStep, Op, CallsTyped, AlongService
      <4>2. op = "none" /\ op' # "none" /\ UNCHANGED <<link, joins, polls, events>>
        BY <2>4 DEF Start
      <4>3. Counts'
        BY <4>1, <4>2 DEF Step
      <4>4. Attempts'
        BY <4>1, <4>2 DEF Attempts
      <4>5. Answers'
        BY <4>1, <4>2, Zenon DEF Answers
      <4> QED
        BY <4>3, <4>4, <4>5
    <3> QED
      BY <3>1, <3>2
  <2>5. CASE JoinRefused
    <3>1. Flags'
      BY <2>5, Zenon DEF JoinRefused
    <3>2. Counts' /\ Attempts' /\ Answers'
      BY <2>0, <2>5 DEF JoinRefused, AfterAttempt, Step, AlongService, Attempts, Answers
    <3> QED
      BY <3>1, <3>2
  <2>6. CASE JoinBegun
    <3>1. Flags'
      BY <2>6, Zenon DEF JoinBegun
    <3>2. Counts' /\ Attempts' /\ Answers'
      BY <2>0, <2>6 DEF JoinBegun, Link, Step, AlongService, Attempts, Answers
    <3> QED
      BY <3>1, <3>2
  <2>7. CASE PollJoined
    <3>1. Flags'
      BY <2>7, Zenon DEF PollJoined
    <3>2. Counts' /\ Attempts' /\ Answers'
      BY <2>0, <2>7 DEF PollJoined, Step, AlongService, Attempts, Answers
    <3> QED
      BY <3>1, <3>2
  <2>8. CASE PollLost
    <3>1. Flags'
      BY <2>8, Zenon DEF PollLost
    <3>2. Counts' /\ Attempts' /\ Answers'
      BY <2>0, <2>8 DEF PollLost, AfterAttempt, Step, AlongService, Attempts, Answers
    <3> QED
      BY <3>1, <3>2
  <2>9. CASE ConnectFailed
    <3>1. Flags'
      BY <2>9, Zenon DEF ConnectFailed
    <3>2. Counts' /\ Attempts'
      BY <2>9 DEF ConnectFailed, Step, Attempts
    <3>3. Answers'
      BY <2>0, <2>9, Raised, Zenon DEF ConnectFailed, AlongService, Answers
    <3> QED
      BY <3>1, <3>2, <3>3
  <2>10. CASE ConnectJoined
    <3>1. Flags'
      BY <2>10, Zenon DEF ConnectJoined
    <3>2. Counts' /\ Attempts'
      BY <2>10 DEF ConnectJoined, Step, Attempts
    <3>3. Answers'
      BY <2>0, <2>10, Raised, Zenon DEF ConnectJoined, AlongService, Answers
    <3> QED
      BY <3>1, <3>2, <3>3
  <2>11. CASE RaiseConnected
    <3>1. Flags'
      BY <2>11, Zenon DEF RaiseConnected
    <3>2. Counts' /\ Attempts'
      BY <2>11 DEF RaiseConnected, Step, Attempts
    <3>3. Answers'
      BY <2>0, <2>11, Raised, Zenon DEF RaiseConnected, AlongService, Answers
    <3> QED
      BY <3>1, <3>2, <3>3
  <2>12. CASE LeaveRefused
    <3>1. Flags'
      BY <2>12, Zenon DEF LeaveRefused
    <3>2. Counts' /\ Attempts'
      BY <2>12 DEF LeaveRefused, Step, Attempts
    <3>3. Answers'
      BY <2>0, <2>12, Raised, Zenon DEF LeaveRefused, AlongService, Answers
    <3> QED
      BY <3>1, <3>2, <3>3
  <2>13. CASE LeaveDone
    <3>1. Flags'
      BY <2>13, Zenon DEF LeaveDone
    <3>2. Counts' /\ Attempts' /\ Answers'
      BY <2>0, <2>13 DEF LeaveDone, Step, AlongService, Attempts, Answers
    <3> QED
      BY <3>1, <3>2
  <2>14. CASE Left
    <3>1. Flags'
      BY <2>14, Zenon DEF Left
    <3>2. Counts' /\ Attempts'
      BY <2>14 DEF Left, Step, Attempts
    <3>3. Answers'
      BY <2>0, <2>14, Raised, Zenon DEF Left, AlongService, Answers
    <3> QED
      BY <3>1, <3>2, <3>3
  <2>15. CASE RaiseDisconnected
    <3>1. Flags'
      BY <2>15, Zenon DEF RaiseDisconnected
    <3>2. Counts' /\ Attempts'
      BY <2>15 DEF RaiseDisconnected, Step, Attempts
    <3>3. Answers'
      BY <2>0, <2>15, Raised, Zenon DEF RaiseDisconnected, AlongService, Answers
    <3> QED
      BY <3>1, <3>2, <3>3
  <2>16. CASE ApUp
    <3>1. Flags'
      BY <2>16, Zenon DEF ApUp
    <3>2. Counts' /\ Attempts' /\ Answers'
      BY <2>0, <2>16 DEF ApUp, Step, AlongService, Attempts, Answers
    <3> QED
      BY <3>1, <3>2
  <2>17. CASE ApAddress
    <3>1. Flags'
      BY <2>17, Zenon DEF ApAddress
    <3>2. Counts' /\ Attempts' /\ Answers'
      BY <2>0, <2>17 DEF ApAddress, Step, AlongService, Attempts, Answers
    <3> QED
      BY <3>1, <3>2
  <2>18. CASE ApAddressRefused
    <3>1. Flags'
      BY <2>18, Zenon DEF ApAddressRefused
    <3>2. Counts' /\ Attempts' /\ Answers'
      BY <2>0, <2>18 DEF ApAddressRefused, Step, AlongService, Attempts, Answers
    <3> QED
      BY <3>1, <3>2
  <2>19. CASE ApCarrier
    <3>1. Flags'
      BY <2>19, Zenon DEF ApCarrier
    <3>2. Counts' /\ Attempts' /\ Answers'
      BY <2>0, <2>19 DEF ApCarrier, Step, AlongService, Attempts, Answers
    <3> QED
      BY <3>1, <3>2
  <2>20. CASE ApServe
    <3>1. Flags'
      BY <2>20, Zenon DEF ApServe
    <3>2. Counts' /\ Attempts' /\ Answers'
      BY <2>0, <2>20 DEF ApServe, Step, AlongService, Attempts, Answers
    <3> QED
      BY <3>1, <3>2
  <2>21. CASE ApDown
    <3>1. Flags'
      BY <2>21, Zenon DEF ApDown
    <3>2. Counts' /\ Attempts' /\ Answers'
      BY <2>0, <2>21 DEF ApDown, Step, AlongService, Attempts, Answers
    <3> QED
      BY <3>1, <3>2
  <2>22. CASE StaUp
    <3>1. Flags'
      BY <2>22, Zenon DEF StaUp
    <3>2. Counts' /\ Attempts' /\ Answers'
      BY <2>0, <2>22 DEF StaUp, Step, AlongService, Attempts, Answers
    <3> QED
      BY <3>1, <3>2
  <2>23. CASE ClearApBit
    <3>1. Flags'
      BY <2>23, Zenon DEF ClearApBit
    <3>2. Counts' /\ Attempts' /\ Answers'
      BY <2>0, <2>23 DEF ClearApBit, Step, AlongService, Attempts, Answers
    <3> QED
      BY <3>1, <3>2
  <2>24. CASE ApUnserve
    <3>1. Flags'
      BY <2>24, Zenon DEF ApUnserve
    <3>2. Counts' /\ Attempts' /\ Answers'
      BY <2>0, <2>24 DEF ApUnserve, Step, AlongService, Attempts, Answers
    <3> QED
      BY <3>1, <3>2
  <2>25. CASE ApDormant
    <3>1. Flags'
      BY <2>25, Zenon DEF ApDormant
    <3>2. Counts' /\ Attempts' /\ Answers'
      BY <2>0, <2>25 DEF ApDormant, Step, AlongService, Attempts, Answers
    <3> QED
      BY <3>1, <3>2
  <2>26. CASE Return
    <3>1. Flags'
      BY <2>26, Zenon DEF Return
    <3>2. Counts' /\ Attempts' /\ Answers'
      BY <2>0, <2>26 DEF Return, Step, AlongService, Attempts, Answers
    <3> QED
      BY <3>1, <3>2
  <2>27. CASE UNCHANGED vars
    <3>1. Flags'
      BY <2>27, Zenon DEF vars
    <3>2. Counts' /\ Attempts' /\ Answers'
      BY <2>27 DEF vars, Attempts, Answers
    <3> QED
      BY <3>1, <3>2
  <2> QED
    BY <2>1, <2>2, <2>3, <2>4, <2>5, <2>6, <2>7, <2>8, <2>9, <2>10, <2>11, <2>12, <2>13, <2>14, <2>15, <2>16, <2>17, <2>18, <2>19, <2>20, <2>21, <2>22, <2>23, <2>24, <2>25, <2>26, <2>27
       DEF Next, Call, WorkStep, ConnectStep, DisconnectStep, EnableApStep, DisableApStep
<1>3. ControlInv /\ Flags /\ Counts /\ Attempts /\ Answers => IndInv
  <2> SUFFICES ASSUME ControlInv, Flags, Counts, Attempts, Answers
               PROVE  TypeOK
    BY DEF IndInv
  <2>1. events \in Seq(BOOLEAN) /\ Len(events) <= 2
    <3>1. events \in {<<>>, <<FALSE>>, <<TRUE>>, <<TRUE, TRUE>>}
      BY DEF Answers
    <3> QED
      BY <3>1, UpToTwo, Zenon
  <2> QED
    BY <2>1, Zenon DEF TypeOK, ControlInv
<1> QED
  BY <1>1, <1>2, <1>3, Inductive, PTL DEF Spec

\* Every result event of a connect says what the interface has become.
THEOREM AnswersTrue == Spec => []ConnectAnswerMatchesInterface
<1>1. IndInv => ConnectAnswerMatchesInterface
  <2> SUFFICES ASSUME IndInv, op = "connect", step = "return"
               PROVE  /\ events # <<>> /\ (~dormant /\ build.sta => client)
                      /\ \A i \in 1..Len(events) : events[i] = ~dormant
    BY Zenon DEF ConnectAnswerMatchesInterface
  <2>1. CASE dormant /\ events = <<FALSE>>
    <3>1. \A i \in 1..Len(events) : i = 1
      BY <2>1
    <3>2. events # <<>> /\ events[1] = FALSE
      BY <2>1
    <3> QED
      BY <2>1, <3>1, <3>2, Zenon
  <2>2. CASE ~dormant /\ (build.sta => client) /\ events = <<TRUE>>
    <3>1. \A i \in 1..Len(events) : i = 1
      BY <2>2
    <3>2. events # <<>> /\ events[1] = TRUE
      BY <2>2
    <3> QED
      BY <2>2, <3>1, <3>2, Zenon
  <2>3. CASE ~dormant /\ (build.sta => client) /\ events = <<TRUE, TRUE>>
    <3>1. \A i \in 1..Len(events) : i = 1 \/ i = 2
      BY <2>3
    <3>2. events # <<>> /\ events[1] = TRUE /\ events[2] = TRUE
      BY <2>3
    <3> QED
      BY <2>3, <3>1, <3>2, Zenon
  <2> QED
    BY <2>1, <2>2, <2>3, Zenon DEF IndInv, Answers
<1> QED
  BY <1>1, TypeCorrect, PTL
=============================================================================
