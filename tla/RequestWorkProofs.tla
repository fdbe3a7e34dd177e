-------------------------- MODULE RequestWorkProofs --------------------------
(***************************************************************************)
(* The request mechanism for any callers, any set of request codes and any *)
(* number of calls: the newest call is the one the last run served, and    *)
(* the mechanism implements a conflating mailbox.  Then the service that   *)
(* runs for one of the requests, the scan (ScanFlow), for every number of  *)
(* calls and every patience: ScanRequest is what the two have in common.   *)
(***************************************************************************)
EXTENDS RequestWork, ScanFlow, TLAPS

\* The parameters of a request are fields of the device structure.
LEMMA FieldsAreFields == \A k \in Kind : Fields(k) \subseteq Field /\ "req" \notin Fields(k)
  BY KindAssumption DEF KindAssumption, Request, Fields, Field

\* The stored words, the work item and the handler's copies keep their types.
THEOREM TypeCorrect == Spec => []TypeOK
<1> USE CallerAssumption, CallsAssumption DEF CallerAssumption, CallsAssumption
<1>1. Init => TypeOK
  <2> SUFFICES ASSUME Init
               PROVE  TypeOK
    OBVIOUS
  <2>1. AnyKind \in Kind
    BY KindAssumption DEF KindAssumption, AnyKind
  <2>2. NoUse \in Use
    BY <2>1 DEF NoUse, Use
  <2>3. queued \in BOOLEAN
    BY Zenon DEF Init
  <2>4. calls \in 0..MaxCalls
    BY DEF Init
  <2> QED
    BY <2>1, <2>2, <2>3, <2>4 DEF Init, TypeOK
<1>2. TypeOK /\ [Next]_vars => TypeOK'
  <2> SUFFICES ASSUME TypeOK, [Next]_vars
               PROVE  TypeOK'
    OBVIOUS
  <2> USE DEF TypeOK
  <2>1. ASSUME NEW c \in Caller, NEW k \in Kind, Accept(c, k)
        PROVE  TypeOK'
    BY <2>1, FieldsAreFields DEF Accept
  <2>2. ASSUME NEW c \in Caller, NEW x \in Field \cup {"req"}, Store(c, x)
        PROVE  TypeOK'
    <3>1. todo' \in [Caller -> SUBSET (Field \cup {"req"})]
      BY <2>2 DEF Store
    <3>2. calls \in Nat /\ kind[c] \in Kind
      OBVIOUS
    <3>3. req' \in [kind : Kind, by : Nat]
      BY <2>2, <3>2 DEF Store
    <3>4. block' \in [Kind -> [Field -> Nat]]
      <4>1. CASE x = "req"
        BY <2>2, <4>1, Zenon DEF Store
      <4>2. CASE x # "req"
        <5>1. block' = [block EXCEPT ![kind[c]] = [@ EXCEPT ![x] = calls]]
          BY <2>2, <4>2 DEF Store
        <5>2. block[kind[c]] \in [Field -> Nat] /\ x \in Field
          BY <3>2, <4>2
        <5>3. [block[kind[c]] EXCEPT ![x] = calls] \in [Field -> Nat]
          BY <3>2, <5>2
        <5> QED
          BY <3>2, <5>1, <5>3
      <4> QED
        BY <4>1, <4>2
    <3> QED
      BY <2>2, <3>1, <3>3, <3>4, Zenon DEF Store
  <2>3. ASSUME NEW c \in Caller, Submit(c)
        PROVE  TypeOK'
    BY <2>3 DEF Submit
  <2>4. ASSUME NEW c \in Caller, Release(c)
        PROVE  TypeOK'
    BY <2>4 DEF Release
  <2>5. CASE Dequeue
    BY <2>5 DEF Dequeue
  <2>6. CASE ReadReq
    BY <2>6, FieldsAreFields DEF ReadReq, Use
  <2>7. ASSUME NEW f \in Field, Fetch(f)
        PROVE  TypeOK'
    <3>1. block[run.kind][f] \in Nat
      BY DEF Use
    <3>2. run' = [run EXCEPT !.got = [@ EXCEPT ![f] = block[run.kind][f]]]
      BY <2>7 DEF Fetch
    <3>3. run' \in Use
      BY <3>1, <3>2 DEF Use
    <3> QED
      BY <2>7, <3>3 DEF Fetch
  <2>8. CASE FetchAgain
    BY <2>8 DEF FetchAgain, Use, Field
  <2>9. CASE Finish
    BY <2>9 DEF Finish
  <2>10. CASE UNCHANGED vars
    BY <2>10 DEF vars
  <2> QED
    BY <2>1, <2>2, <2>3, <2>4, <2>5, <2>6, <2>7, <2>8, <2>9, <2>10
       DEF Next, CallStep, WorkStep
<1> QED
  BY <1>1, <1>2, PTL DEF Spec

\* The inductive invariant of the request mechanism.
THEOREM Inductive == Spec => []RequestInv
<1> USE CallerAssumption, CallsAssumption DEF CallerAssumption, CallsAssumption
<1>1. Init => RequestInv
  BY DEF Init, RequestInv, LockUse, Stored, CaughtUp, IdleLeft, Begun, NoUse
<1>2. TypeOK /\ RequestInv /\ [Next]_vars => RequestInv'
  <2> SUFFICES ASSUME TypeOK, RequestInv, [Next]_vars
               PROVE  RequestInv'
    OBVIOUS
  <2> USE DEF TypeOK, RequestInv, LockUse, Stored, CaughtUp, IdleLeft, Begun
  <2>1. ASSUME NEW c \in Caller, NEW k \in Kind, Accept(c, k)
        PROVE  RequestInv'
    BY <2>1 DEF Accept
  <2>2. ASSUME NEW c \in Caller, NEW x \in Field \cup {"req"}, Store(c, x)
        PROVE  RequestInv'
    <3>1. \A d \in Caller : pc[d] = "write" => d = c
      BY <2>2 DEF Store
    <3>2. LockUse' /\ IdleLeft' /\ CaughtUp' /\ Begun'
      BY <2>2 DEF Store
    <3>3. Stored'
      <4>1. pc' = pc /\ kind' = kind /\ calls' = calls /\ todo' = [todo EXCEPT ![c] = @ \ {x}]
        BY <2>2 DEF Store
      <4>2. CASE x = "req"
        BY <2>2, <3>1, <4>1, <4>2, FieldsAreFields DEF Store
      <4>3. CASE x # "req"
        <5>1. req' = req /\ pc[c] = "write"
          BY <2>2, <4>3 DEF Store
        <5>2. \A f \in Field : block'[kind[c]][f] = IF f = x THEN calls ELSE block[kind[c]][f]
          BY <2>2, <4>3 DEF Store
        <5>3. \A f \in Fields(kind[c]) \ todo'[c] : block'[kind[c]][f] = calls
          BY <4>1, <5>1, <5>2, FieldsAreFields
        <5>4. \A d \in Caller : pc'[d] = "write" => d = c
          BY <3>1, <4>1
        <5>5. /\ todo'[c] \subseteq Fields(kind[c]) \cup {"req"}
              /\ "req" \in todo'[c] <=> "req" \in todo[c]
              /\ calls > 0
          BY <4>1, <4>3, <5>1
        <5> QED
          BY <4>1, <5>1, <5>3, <5>4, <5>5
      <4> QED
        BY <4>2, <4>3
    <3> QED
      BY <3>2, <3>3
  <2>3. ASSUME NEW c \in Caller, Submit(c)
        PROVE  RequestInv'
    BY <2>3, FieldsAreFields DEF Submit
  <2>4. ASSUME NEW c \in Caller, Release(c)
        PROVE  RequestInv'
    BY <2>4 DEF Release
  <2>5. CASE Dequeue
    BY <2>5 DEF Dequeue
  <2>6. CASE ReadReq
    BY <2>6 DEF ReadReq
  <2>7. ASSUME NEW f \in Field, Fetch(f)
        PROVE  RequestInv'
    BY <2>7, FieldsAreFields DEF Fetch, Use
  <2>8. CASE FetchAgain
    BY <2>8, FieldsAreFields DEF FetchAgain, Use, Field
  <2>9. CASE Finish
    BY <2>9 DEF Finish
  <2>10. CASE UNCHANGED vars
    BY <2>10 DEF vars
  <2> QED
    BY <2>1, <2>2, <2>3, <2>4, <2>5, <2>6, <2>7, <2>8, <2>9, <2>10
       DEF Next, CallStep, WorkStep
<1> QED
  BY <1>1, <1>2, TypeCorrect, PTL DEF Spec

\* Both, for every value of the constants.
THEOREM TypesAndInvariant == Spec => []IndInv
<1>1. TypeOK /\ RequestInv => IndInv
  BY DEF IndInv
<1> QED
  BY <1>1, TypeCorrect, Inductive, PTL

\* Once calls and work queue are quiet, the handler's last run served the
\* newest call with that call's own parameters.
THEOREM NewestServed == Spec => []LastRunServedNewest
<1>1. TypeOK /\ RequestInv => LastRunServedNewest
  BY DEF TypeOK, RequestInv, CaughtUp, IdleLeft, LastRunServedNewest, Quiet
<1> QED
  BY <1>1, Inductive, TypeCorrect, PTL

\* Storing the request code is a put, reading it in the handler is a take (or,
\* when the work item runs twice for one call, nothing): what the handler
\* takes never goes back to an older call.
THEOREM Implements == Spec => ImplementsMailbox
<1>1. Init => Mailbox!Init
  BY DEF Init, NoUse, Mailbox!Init
<1>2. TypeOK /\ RequestInv /\ [Next]_vars => [Mailbox!Next]_(Mailbox!vars)
  <2> SUFFICES ASSUME TypeOK, RequestInv, [Next]_vars
               PROVE  [Mailbox!Next]_(Mailbox!vars)
    OBVIOUS
  <2> USE DEF Mailbox!vars
  <2>1. ASSUME NEW c \in Caller, NEW x \in Field \cup {"req"}, Store(c, x)
        PROVE  [Mailbox!Next]_(Mailbox!vars)
    <3>1. CASE x = "req"
      <4>1. req.by = calls - 1 /\ req'.by = calls /\ run'.by = run.by /\ calls \in Nat
        BY <2>1, <3>1, CallsAssumption DEF Store, RequestInv, Stored, TypeOK, CallsAssumption
      <4> QED
        BY <4>1 DEF Mailbox!Next, Mailbox!Put
    <3>2. CASE x # "req"
      BY <2>1, <3>2 DEF Store
    <3> QED
      BY <3>1, <3>2
  <2>2. CASE ReadReq
    BY <2>2 DEF ReadReq, Mailbox!Next, Mailbox!Take
  <2>3. ASSUME NEW f \in Field, Fetch(f)
        PROVE  [Mailbox!Next]_(Mailbox!vars)
    BY <2>3 DEF Fetch, TypeOK, Use
  <2>4. CASE FetchAgain
    BY <2>4 DEF FetchAgain, TypeOK, Use
  <2>5. CASE \E c \in Caller : (\E k \in Kind : Accept(c, k)) \/ Submit(c) \/ Release(c)
    BY <2>5 DEF Accept, Submit, Release
  <2>6. CASE Dequeue \/ Finish
    BY <2>6 DEF Dequeue, Finish
  <2>7. CASE UNCHANGED vars
    BY <2>7 DEF vars
  <2> QED
    BY <2>1, <2>2, <2>3, <2>4, <2>5, <2>6, <2>7 DEF Next, CallStep, WorkStep
<1> QED
  BY <1>1, <1>2, TypeCorrect, Inductive, PTL DEF Spec, ImplementsMailbox, Mailbox!Spec

\* The scan service sees of the mechanism what ScanRequest says: a scan that was
\* stored is submitted, and is taken then by the run that is its own, unless a
\* newer request replaces it.
THEOREM ImplementsScans == Spec => ImplementsScanRequest
<1> USE CallsAssumption DEF CallsAssumption
<1>1. Init => Scans!Init
  <2> SUFFICES ASSUME Init
               PROVE  Scans!Init
    OBVIOUS
  <2>1. ScanPending = "none"
    BY DEF Init, ScanPending
  <2>2. ScanServed = FALSE
    <3>1. ~(wpc = "run" /\ run.kind = "SCAN")
      BY DEF Init
    <3> QED
      BY <3>1, SMT DEF ScanServed
  <2> QED
    BY <2>1, <2>2, Zenon DEF Scans!Init
<1>2. TypeOK /\ RequestInv /\ [Next]_vars => [Scans!Next]_(Scans!vars)
  <2> SUFFICES ASSUME TypeOK, RequestInv, [Next]_vars
               PROVE  [Scans!Next]_(Scans!vars)
    OBVIOUS
  \* A step that neither moves a scan request nor begins or ends its service.
  <2>1. ASSUME ScanPending' = ScanPending, ScanServed' <=> ScanServed
        PROVE  [Scans!Next]_(Scans!vars)
    BY <2>1, Zenon DEF Scans!vars
  <2>2. ASSUME NEW c \in Caller, NEW k \in Kind, Accept(c, k)
        PROVE  [Scans!Next]_(Scans!vars)
    <3>1. UNCHANGED <<req, queued, wpc, run>>
      BY <2>2 DEF Accept
    <3>2. Submitting' <=> Submitting
      BY <2>2 DEF Accept, Submitting, TypeOK
    <3>3. ScanPending' = ScanPending
      BY <3>1, <3>2 DEF ScanPending
    <3>4. ScanServed' <=> ScanServed
      BY <3>1 DEF ScanServed
    <3> QED
      BY <2>1, <3>3, <3>4
  <2>3. ASSUME NEW c \in Caller, NEW x \in Field \cup {"req"}, Store(c, x)
        PROVE  [Scans!Next]_(Scans!vars)
    <3>1. UNCHANGED <<pc, kind, calls, queued, wpc, run>> /\ pc[c] = "write" /\ x \in todo[c]
      BY <2>3 DEF Store
    <3>2. \A d \in Caller : pc[d] = "write" => d = c
      BY <3>1 DEF RequestInv, LockUse
    <3>3. todo' = [todo EXCEPT ![c] = @ \ {x}] /\ todo'[c] = todo[c] \ {x}
      BY <2>3 DEF Store, TypeOK
    <3>4. ScanServed' <=> ScanServed
      BY <3>1 DEF ScanServed
    <3>5. CASE x # "req"
      <4>1. req' = req
        BY <2>3, <3>5 DEF Store
      <4>2. Submitting' <=> Submitting
        BY <3>1, <3>2, <3>3, <3>5 DEF Submitting
      <4>3. ScanPending' = ScanPending
        BY <3>1, <4>1, <4>2 DEF ScanPending
      <4> QED
        BY <2>1, <3>4, <4>3
    <3>6. CASE x = "req"
      <4>1. req' = [kind |-> kind[c], by |-> calls] /\ calls > 0
        BY <2>3, <3>1, <3>6 DEF Store, RequestInv, Stored
      <4>2. ~Submitting /\ Submitting'
        BY <3>1, <3>2, <3>3, <3>6 DEF Submitting
      <4>3. ScanPending # "stored"
        BY <4>2 DEF ScanPending
      <4>4. CASE kind[c] = "SCAN"
        <5>1. ScanPending' = "stored"
          BY <4>1, <4>2, <4>4 DEF ScanPending
        <5> QED
          BY <3>4, <4>3, <5>1, Zenon DEF Scans!Next, Scans!Put
      <4>5. CASE kind[c] # "SCAN"
        <5>1. ScanPending' = "none"
          BY <4>1, <4>5 DEF ScanPending
        <5>2. ScanPending \in {"none", "queued"}
          BY <4>2 DEF ScanPending
        <5>3. CASE ScanPending = "none"
          BY <2>1, <3>4, <5>1, <5>3
        <5>4. CASE ScanPending = "queued"
          BY <3>4, <5>1, <5>4, Zenon DEF Scans!Next, Scans!Replace
        <5> QED
          BY <5>2, <5>3, <5>4
      <4> QED
        BY <4>4, <4>5
    <3> QED
      BY <3>5, <3>6
  <2>4. ASSUME NEW c \in Caller, Submit(c)
        PROVE  [Scans!Next]_(Scans!vars)
    <3>1. /\ pc[c] = "write" /\ todo[c] = {} /\ pc' = [pc EXCEPT ![c] = "unlock"]
          /\ queued' = TRUE /\ UNCHANGED <<todo, req, wpc, run>>
      BY <2>4 DEF Submit
    <3>2. \A d \in Caller : pc[d] = "write" => d = c
      BY <3>1 DEF RequestInv, LockUse
    <3>3. Submitting /\ ~Submitting'
      <4>1. \A d \in Caller : pc'[d] # "write"
        BY <3>1, <3>2 DEF TypeOK
      <4> QED
        BY <3>1, <4>1 DEF Submitting
    <3>4. ScanServed' <=> ScanServed
      BY <3>1 DEF ScanServed
    <3>5. CASE req.kind # "SCAN" \/ req.by = 0
      <4>1. ScanPending' = ScanPending
        BY <3>1, <3>5 DEF ScanPending
      <4> QED
        BY <2>1, <3>4, <4>1
    <3>6. CASE ~(req.kind # "SCAN" \/ req.by = 0)
      <4>1. ScanPending = "stored" /\ ScanPending' = "queued"
        BY <3>1, <3>3, <3>6 DEF ScanPending
      <4> QED
        BY <3>4, <4>1, Zenon DEF Scans!Next, Scans!Submit
    <3> QED
      BY <3>5, <3>6
  <2>5. ASSUME NEW c \in Caller, Release(c)
        PROVE  [Scans!Next]_(Scans!vars)
    <3>1. /\ pc[c] = "unlock" /\ pc' = [pc EXCEPT ![c] = "out"]
          /\ UNCHANGED <<todo, req, queued, wpc, run>>
      BY <2>5 DEF Release
    <3>2. Submitting' <=> Submitting
      BY <3>1 DEF Submitting, TypeOK
    <3>3. ScanPending' = ScanPending
      BY <3>1, <3>2 DEF ScanPending
    <3>4. ScanServed' <=> ScanServed
      BY <3>1 DEF ScanServed
    <3> QED
      BY <2>1, <3>3, <3>4
  <2>6. CASE Dequeue
    <3>1. queued /\ wpc = "idle" /\ wpc' = "start" /\ UNCHANGED <<pc, todo, req, run>>
      BY <2>6 DEF Dequeue
    <3>2. Submitting' <=> Submitting
      BY <3>1 DEF Submitting
    <3>3. ScanPending' = ScanPending
      BY <3>1, <3>2 DEF ScanPending
    <3>4. ScanServed' <=> ScanServed
      BY <3>1 DEF ScanServed
    <3> QED
      BY <2>1, <3>3, <3>4
  <2>7. CASE ReadReq
    <3>1. /\ wpc = "start" /\ wpc' = "run" /\ run'.kind = req.kind
          /\ UNCHANGED <<pc, todo, req, queued>>
      BY <2>7 DEF ReadReq
    <3>2. Submitting' <=> Submitting
      BY <3>1 DEF Submitting
    <3>3. ~ScanServed /\ (ScanServed' <=> req.kind = "SCAN")
      BY <3>1 DEF ScanServed
    <3>4. CASE req.kind # "SCAN"
      <4>1. ScanPending' = ScanPending
        BY <3>1, <3>4 DEF ScanPending
      <4> QED
        BY <2>1, <3>3, <3>4, <4>1
    <3>5. CASE req.kind = "SCAN"
      <4>1. ScanPending # "none"
        BY <3>1, <3>5 DEF ScanPending, RequestInv, Begun
      <4>2. ScanPending' = ScanPending \/ (ScanPending = "queued" /\ ScanPending' = "none")
        BY <3>1, <3>2, <3>5 DEF ScanPending
      <4> QED
        BY <3>3, <3>5, <4>1, <4>2, Zenon DEF Scans!Next, Scans!Take
    <3> QED
      BY <3>4, <3>5
  <2>8. CASE FetchAgain \/ \E f \in Field : Fetch(f)
    <3>1. wpc = "run" /\ run'.kind = run.kind /\ UNCHANGED <<pc, todo, req, queued, wpc>>
      BY <2>8 DEF FetchAgain, Fetch, TypeOK, Use
    <3>2. Submitting' <=> Submitting
      BY <3>1 DEF Submitting
    <3>3. ScanPending' = ScanPending
      BY <3>1, <3>2 DEF ScanPending
    <3>4. ScanServed' <=> ScanServed
      BY <3>1 DEF ScanServed
    <3> QED
      BY <2>1, <3>3, <3>4
  <2>9. CASE Finish
    <3>1. wpc = "run" /\ wpc' = "idle" /\ UNCHANGED <<pc, todo, req, queued, run>>
      BY <2>9 DEF Finish
    <3>2. Submitting' <=> Submitting
      BY <3>1 DEF Submitting
    <3>3. ScanPending' = ScanPending
      BY <3>1, <3>2 DEF ScanPending
    <3>4. ScanServed' = FALSE
      <4>1. ~(wpc' = "run" /\ run'.kind = "SCAN")
        BY <3>1
      <4> QED
        BY <4>1, SMT DEF ScanServed
    <3>5. CASE ScanServed
      BY <3>3, <3>4, <3>5, Zenon DEF Scans!Next, Scans!Done
    <3>6. CASE ~ScanServed
      BY <2>1, <3>3, <3>4, <3>6
    <3> QED
      BY <3>5, <3>6
  <2>10. CASE UNCHANGED vars
    BY <2>1, <2>10 DEF vars, ScanPending, Submitting, ScanServed
  <2> QED
    BY <2>2, <2>3, <2>4, <2>5, <2>6, <2>7, <2>8, <2>9, <2>10 DEF Next, CallStep, WorkStep
<1> QED
  BY <1>1, <1>2, TypeCorrect, Inductive, PTL DEF Spec, ImplementsScanRequest, Scans!Spec

-----------------------------------------------------------------------------
(* The scan service *)

\* The callback, the number of looks and the answer keep their types: the
\* service never looks more than MaxWait times for the end of the scan.
THEOREM ScanTypeCorrect == ScanSpec => []ScanTypes
<1>1. ScanInit => Counts /\ Flags
  <2>1. ScanInit => Counts
    BY WaitAssumption DEF ScanInit, Counts
  <2>2. ScanInit => Flags
    BY Zenon DEF ScanInit, Flags
  <2> QED
    BY <2>1, <2>2
<1>2. Counts /\ [ScanNext]_scanVars => Counts'
  BY WaitAssumption DEF Counts, ScanNext, ScanService, MgmtScan,
         SubmitScan, Overtake, Start, TestActive, StartRefused,
         StartScan, KeepWaiting, StopWaiting, FinishScan, ScanEnds,
         scanVars
<1>3. Flags /\ [ScanNext]_scanVars => Flags'
  <2> SUFFICES ASSUME Flags, [ScanNext]_scanVars
               PROVE  Flags'
    OBVIOUS
  <2> USE DEF Flags
  <2>1. CASE MgmtScan \/ SubmitScan \/ Overtake \/ ScanEnds
    BY <2>1, Zenon DEF MgmtScan, SubmitScan, Overtake, ScanEnds
  <2>2. CASE Start \/ KeepWaiting \/ StopWaiting \/ FinishScan
    BY <2>2, Zenon DEF Start, KeepWaiting, StopWaiting, FinishScan
  <2>3. CASE TestActive \/ StartRefused \/ StartScan
    BY <2>3, Zenon DEF TestActive, StartRefused, StartScan
  <2>4. CASE UNCHANGED scanVars
    BY <2>4, Zenon DEF scanVars
  <2> QED
    BY <2>1, <2>2, <2>3, <2>4 DEF ScanNext, ScanService
<1> QED
  BY <1>1, <1>2, <1>3, PTL DEF ScanSpec, ScanTypes

\* The inductive invariant behind what callers are told.
THEOREM ScanInductive == ScanSpec => []ScanInv
<1> USE WaitAssumption
<1>1. ScanInit => ScanInv
  BY DEF ScanInit, ScanInv, NoMoreMeansNoMore, NewestCallerTold
<1>2. ScanTypes /\ ScanInv /\ [ScanNext]_scanVars => ScanInv'
  <2> SUFFICES ASSUME ScanTypes, ScanInv, [ScanNext]_scanVars
               PROVE  ScanInv'
    OBVIOUS
  <2> USE DEF ScanTypes, Counts, Flags, ScanInv, NoMoreMeansNoMore,
              NewestCallerTold
  <2>1. CASE MgmtScan
    BY <2>1 DEF MgmtScan
  <2>2. CASE SubmitScan
    BY <2>2 DEF SubmitScan
  <2>3. CASE Overtake
    BY <2>3 DEF Overtake
  <2>4. CASE Start
    BY <2>4 DEF Start
  <2>5. CASE TestActive
    BY <2>5 DEF TestActive
  <2>6. CASE StartRefused
    <3>1. pending = "none" => excused'
      BY <2>6, Zenon DEF StartRefused
    <3> QED
      BY <2>6, <3>1 DEF StartRefused
  <2>7. CASE StartScan
    BY <2>7 DEF StartScan
  <2>8. CASE KeepWaiting \/ StopWaiting
    BY <2>8 DEF KeepWaiting, StopWaiting
  <2>9. CASE FinishScan
    BY <2>9 DEF FinishScan
  <2>10. CASE ScanEnds
    BY <2>10 DEF ScanEnds
  <2>11. CASE UNCHANGED scanVars
    BY <2>11 DEF scanVars
  <2> QED
    BY <2>1, <2>2, <2>3, <2>4, <2>5, <2>6, <2>7, <2>8, <2>9, <2>10, <2>11
       DEF ScanNext, ScanService
<1> QED
  BY ScanTypeCorrect, <1>1, <1>2, PTL DEF ScanSpec

\* Both, for every value of the constants.
THEOREM ScanTypesAndInvariant == ScanSpec => []ScanIndInv
<1>1. ScanTypes /\ ScanInv => ScanIndInv
  BY DEF ScanIndInv
<1> QED
  BY <1>1, ScanTypeCorrect, ScanInductive, PTL

\* scan_cb is never called before a caller installed it.
THEOREM NoCallThroughNull == ScanSpec => []CallbackInstalled
<1>1. ScanTypes /\ ScanInv => CallbackInstalled
  BY WaitAssumption DEF ScanTypes, Counts, ScanInv, CallbackInstalled,
         ResultCalls
<1> QED
  BY <1>1, ScanTypeCorrect, ScanInductive, PTL

\* Without a service under way results come from an overrunning scan only.
THEOREM NoResultAfterNoMore == ScanSpec => []NoMoreMeansNoMore
<1>1. ScanInv => NoMoreMeansNoMore
  BY DEF ScanInv
<1> QED
  BY <1>1, ScanInductive, PTL

\* When all is quiet the newest scan's caller has its answer, or is excused:
\* also when its request was served early, and once more.
THEOREM NewestAnswered == ScanSpec => []NewestCallerTold
<1>1. ScanInv => NewestCallerTold
  BY DEF ScanInv
<1> QED
  BY <1>1, ScanInductive, PTL

\* No scan is started over an active one.
THEOREM NoOverlappingScans == ScanSpec => NoScanOverScan
<1>1. ScanInv /\ [ScanNext]_scanVars
        => [spc = "start" /\ spc' = "wait" => ~active]_scanVars
  BY DEF ScanInv
<1> QED
  BY <1>1, ScanInductive, PTL DEF ScanSpec, NoScanOverScan

\* The service takes its requests as RequestWork delivers them, and in no other
\* way: with ImplementsScans above, the two models agree on all they share.
THEOREM ScansAsDelivered == ScanSpec => TakesAsDelivered
<1>1. ScanInit => Requests!Init
  <2> SUFFICES ASSUME ScanInit
               PROVE  Requests!Init
    OBVIOUS
  <2>1. (spc # "idle") = FALSE
    BY DEF ScanInit
  <2> QED
    BY <2>1, Zenon DEF ScanInit, Requests!Init
<1>2. ScanTypes /\ [ScanNext]_scanVars => [Requests!Next]_(Requests!vars)
  <2> SUFFICES ASSUME ScanTypes, [ScanNext]_scanVars
               PROVE  [Requests!Next]_(Requests!vars)
    OBVIOUS
  \* A step that neither moves a request nor begins or ends the service.
  <2>1. ASSUME pending' = pending, spc' # "idle" <=> spc # "idle"
        PROVE  [Requests!Next]_(Requests!vars)
    BY <2>1, Zenon DEF Requests!vars
  \* The end of the service.
  <2>2. ASSUME pending' = pending, spc # "idle", spc' = "idle"
        PROVE  [Requests!Next]_(Requests!vars)
    BY <2>2 DEF Requests!Next, Requests!Done
  <2>3. CASE MgmtScan
    BY <2>3 DEF MgmtScan, Requests!Next, Requests!Put
  <2>4. CASE SubmitScan
    BY <2>4 DEF SubmitScan, Requests!Next, Requests!Submit
  <2>5. CASE Overtake
    BY <2>5 DEF Overtake, Requests!Next, Requests!Replace
  <2>6. CASE Start
    <3>1. /\ pending # "none" /\ spc = "idle" /\ spc' = "test"
          /\ pending' = pending \/ (pending = "queued" /\ pending' = "none")
      BY <2>6 DEF Start
    <3> QED
      BY <3>1 DEF Requests!Next, Requests!Take
  <2>7. CASE TestActive
    BY <2>1, <2>2, <2>7 DEF TestActive
  <2>8. CASE StartRefused
    BY <2>2, <2>8 DEF StartRefused
  <2>9. CASE StartScan \/ KeepWaiting \/ StopWaiting
    BY <2>1, <2>9 DEF StartScan, KeepWaiting, StopWaiting
  <2>10. CASE FinishScan
    BY <2>2, <2>10 DEF FinishScan
  <2>11. CASE ScanEnds \/ UNCHANGED scanVars
    BY <2>1, <2>11 DEF ScanEnds, scanVars
  <2> QED
    BY <2>3, <2>4, <2>5, <2>6, <2>7, <2>8, <2>9, <2>10, <2>11
       DEF ScanNext, ScanService
<1> QED
  BY <1>1, <1>2, ScanTypeCorrect, PTL
     DEF ScanSpec, TakesAsDelivered, Requests!Spec
=============================================================================
