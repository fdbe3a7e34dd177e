------------------------------- MODULE ScanFlow -------------------------------
(***************************************************************************)
(* Scanning.  zephyr_cyw43_mgmt_scan installs the callback and submits the *)
(* request; the work queue starts the scan, waits for its end at most      *)
(* MaxWait times and tells the callback that there is no more; the poll    *)
(* thread delivers results to the callback whenever the radio has them.    *)
(* Each section under the driver lock is one step (DriverLock), but the    *)
(* work queue reads the request without it: ScanRequest says what of the   *)
(* mechanism in RequestWork is seen from here.                             *)
(***************************************************************************)
EXTENDS Naturals

CONSTANTS MaxWait,    \* how often the service looks for the end (50 in the code)
          MaxScans    \* bound on the scan calls of a behaviour

ASSUME WaitAssumption == MaxWait \in Nat /\ MaxScans \in Nat

VARIABLES scans,      \* scan calls made; the last one's callback is installed
          cb,         \* the call whose callback scan_cb is, 0 for NULL
          pending,    \* the newest request, if it is a scan that its own run has not
                      \* taken: "stored", then "queued"
          spc,        \* where the scan service is
          waited,     \* times the service has found the scan still active
          active,     \* cyw43_wifi_scan_active
          told,       \* the call whose callback was last told "no more"
          excused,    \* ghost: the newest call will not be answered
          overran     \* ghost: the scan outlasted the service's patience

scanVars == <<scans, cb, pending, spc, waited, active, told, excused, overran>>

Counts ==
  /\ scans \in 0..MaxScans
  /\ cb \in 0..MaxScans
  /\ told \in 0..MaxScans
  /\ waited \in 0..MaxWait
  /\ pending \in {"none", "stored", "queued"}
  /\ spc \in {"idle", "test", "start", "wait", "finish"}

Flags ==
  /\ active \in BOOLEAN
  /\ excused \in BOOLEAN
  /\ overran \in BOOLEAN

ScanTypes == Counts /\ Flags

ScanInit ==
  /\ scans = 0
  /\ cb = 0
  /\ pending = "none"
  /\ spc = "idle"
  /\ waited = 0
  /\ active = FALSE
  /\ told = 0
  /\ excused = FALSE
  /\ overran = FALSE

-----------------------------------------------------------------------------
(* Callers *)

\* The callback and the request are stored ...
MgmtScan ==
  /\ pending # "stored"
  /\ scans < MaxScans
  /\ scans' = scans + 1
  /\ cb' = scans + 1
  /\ pending' = "stored"
  /\ excused' = FALSE
  /\ UNCHANGED <<spc, waited, active, told, overran>>

\* ... and the work item is submitted.
SubmitScan ==
  /\ pending = "stored"
  /\ pending' = "queued"
  /\ UNCHANGED <<scans, cb, spc, waited, active, told, excused, overran>>

\* Another management call stores its own request before this one is taken.
Overtake ==
  /\ pending = "queued"
  /\ pending' = "none"
  /\ excused' = TRUE
  /\ UNCHANGED <<scans, cb, spc, waited, active, told, overran>>

-----------------------------------------------------------------------------
(* zephyr_cyw43_scan on the work queue *)

\* The request is read.  In a run that an earlier request began, it stays and
\* is served again.
Start ==
  /\ pending # "none"
  /\ spc = "idle"
  /\ pending' = pending \/ (pending = "queued" /\ pending' = "none")
  /\ spc' = "test"
  /\ UNCHANGED <<scans, cb, waited, active, told, excused, overran>>

\* MUTANT: the service does not look whether a scan is active.
TestActiveSkipped ==
  /\ spc = "test"
  /\ spc' = "start"
  /\ UNCHANGED <<scans, cb, pending, waited, active, told, excused, overran>>

\* An active scan ends the service with err zero and nobody is told.
TestActive ==
  /\ spc = "test"
  /\ spc' = IF active THEN "idle" ELSE "start"
  /\ excused' = (excused \/ (active /\ pending = "none"))
  /\ UNCHANGED <<scans, cb, pending, waited, active, told, overran>>

\* cyw43_wifi_scan fails: logged, nobody is told.
StartRefused ==
  /\ spc = "start"
  /\ spc' = "idle"
  /\ excused' = (excused \/ pending = "none")
  /\ UNCHANGED <<scans, cb, pending, waited, active, told, overran>>

StartScan ==
  /\ spc = "start"
  /\ spc' = "wait"
  /\ active' = TRUE
  /\ waited' = 0
  /\ overran' = FALSE
  /\ UNCHANGED <<scans, cb, pending, told, excused>>

\* MUTANT: the wait has no limit.
KeepWaitingForever ==
  /\ spc = "wait"
  /\ active
  /\ UNCHANGED scanVars

KeepWaiting ==
  /\ spc = "wait"
  /\ active
  /\ waited < MaxWait
  /\ waited' = waited + 1
  /\ UNCHANGED <<scans, cb, pending, spc, active, told, excused, overran>>

\* MUTANT: one look is enough, whatever it saw.
StopWaitingAtOnce ==
  /\ spc = "wait"
  /\ spc' = "finish"
  /\ UNCHANGED <<scans, cb, pending, waited, active, told, excused, overran>>

\* The scan has ended, or the service has waited long enough.
StopWaiting ==
  /\ spc = "wait"
  /\ ~active \/ waited = MaxWait
  /\ spc' = "finish"
  /\ overran' = active
  /\ UNCHANGED <<scans, cb, pending, waited, active, told, excused>>

\* MUTANT: the callback is uninstalled with its last call.
FinishUninstalling ==
  /\ spc = "finish"
  /\ spc' = "idle"
  /\ waited' = 0
  /\ told' = cb
  /\ cb' = 0
  /\ UNCHANGED <<scans, pending, active, excused, overran>>

\* MUTANT: only the first caller is told.
FinishTellingFirst ==
  /\ spc = "finish"
  /\ spc' = "idle"
  /\ waited' = 0
  /\ told' = IF told = 0 THEN cb ELSE told
  /\ UNCHANGED <<scans, cb, pending, active, excused, overran>>

\* scan_cb(iface, 0, NULL), to the callback installed now.
FinishScan ==
  /\ spc = "finish"
  /\ spc' = "idle"
  /\ waited' = 0
  /\ told' = cb
  /\ UNCHANGED <<scans, cb, pending, active, excused, overran>>

-----------------------------------------------------------------------------
(* The radio, through the poll thread *)

\* A result goes to the callback installed now; the library passes results on
\* only while its scan is active.
ResultCalls == active

\* The library sees the end of the scan.
ScanEnds ==
  /\ active
  /\ active' = FALSE
  /\ UNCHANGED <<scans, cb, pending, spc, waited, told, excused, overran>>

-----------------------------------------------------------------------------

ScanService ==
  Start \/ TestActive \/ StartRefused \/ StartScan \/ KeepWaiting \/ StopWaiting \/ FinishScan

ScanNext == MgmtScan \/ SubmitScan \/ Overtake \/ ScanService \/ ScanEnds

\* The work queue runs; the radio owes nothing.
ScanSpec == ScanInit /\ [][ScanNext]_scanVars
FairScanSpec == ScanSpec /\ WF_scanVars(ScanService)

-----------------------------------------------------------------------------

\* Requests come to the service as RequestWork delivers them.
Requests == INSTANCE ScanRequest WITH serving <- (spc # "idle")
TakesAsDelivered == Requests!Spec

\* scan_cb is never called before a caller installed it: neither by a result
\* that the poll thread delivers nor by the end of the service.
CallbackInstalled ==
  ResultCalls \/ spc = "finish" => cb # 0

\* "No more" means no more, unless the radio outlasts the wait of two and a
\* half seconds: with no service under way a result can still come only from
\* a scan that overran.
NoMoreMeansNoMore ==
  active /\ spc # "wait" => overran

\* A scan is never started over one that is active, although the service that
\* started it may have given up long before: one that overran is still active
\* when the next request is served.
NoScanOverScan ==
  [][spc = "start" /\ spc' = "wait" => ~active]_scanVars

\* When all is quiet the caller of the newest scan has been told that there is
\* no more, unless its request was overtaken, refused by the library, or met a
\* scan that overran.
NewestCallerTold ==
  pending = "none" /\ spc = "idle" /\ ~excused => told = scans

\* Why, as an inductive invariant: a scan is active outside the wait only when
\* it overran, the steps that start one have seen that none is, and the caller
\* of a request that is neither waiting nor excused is the one being served.
ScanInv ==
  /\ cb = scans
  /\ told <= scans
  /\ active \/ pending # "none" \/ spc # "idle" => scans > 0
  /\ NoMoreMeansNoMore
  /\ spc = "start" => ~active
  /\ NewestCallerTold

\* The service ends however long the radio scans: it is the only one the work
\* queue has for all requests.
ScanServiceEnds == (spc # "idle") ~> (spc = "idle")

\* Types and scan bookkeeping together: whoever the newest caller is, it waits,
\* is served, has been told, or is one the code tells nothing.
ScanIndInv == ScanTypes /\ ScanInv
=============================================================================
