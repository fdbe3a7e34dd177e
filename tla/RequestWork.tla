----------------------------- MODULE RequestWork -----------------------------
(***************************************************************************)
(* How a management call reaches the work queue.  Every zephyr_cyw43_mgmt_* *)
(* operation stores its parameters and its request code in the device      *)
(* structure and submits one shared work item, all under the driver lock;  *)
(* zephyr_cyw43_request_work reads both back on the work queue without it. *)
(* Ghost numbers say which call wrote each stored word.                    *)
(***************************************************************************)
EXTENDS Naturals

CONSTANTS Caller,     \* threads that make management calls
          Nobody,     \* the driver lock is free
          Kind,       \* the request codes the callers use
          MaxCalls    \* bound on the calls made in a behaviour

\* enum zephyr_cyw43_request: the two scans differ in a library option only.
Request ==
  {"SCAN", "CONNECT", "DISCONNECT", "ENABLE_AP", "DISABLE_AP", "SET_PM"}

ASSUME CallerAssumption == Nobody \notin Caller
ASSUME KindAssumption == Kind \subseteq Request /\ Kind # {}
ASSUME CallsAssumption == MaxCalls \in Nat

\* The parameters a request leaves in the device structure; the fields of
\* connect_params and ap_params are several stores ("ssid", "psk", the rest).
Field == {"scan_cb", "ssid", "psk", "rest", "pm_out"}

Fields(k) ==
  CASE k = "SCAN" -> {"scan_cb"}
    [] k \in {"CONNECT", "ENABLE_AP"} -> {"ssid", "psk", "rest"}
    [] k = "SET_PM" -> {"pm_out"}
    [] OTHER -> {}

VARIABLES holder,     \* who holds the driver lock
          pc,         \* where each caller is
          kind,       \* the request each caller is making
          todo,       \* the stores a caller has still to do
          calls,      \* how many calls have been made
          req,        \* zephyr_cyw43_dev->req, and the call that stored it
          block,      \* per request code, the call that stored each field
          queued,     \* the work item is on the queue
          wpc,        \* where the work queue thread is
          run,        \* what the handler has read: code and fields
          left,       \* the fields the handler has still to read
          served      \* what the last completed run of the handler used

callerVars == <<holder, pc, kind, todo, calls>>
storeVars == <<req, block>>
workVars == <<wpc, run, left, served>>
vars == <<holder, pc, kind, todo, calls, req, block, queued, wpc, run, left, served>>

Use == [kind : Kind, by : Nat, got : [Field -> Nat]]

TypeOK ==
  /\ holder \in Caller \cup {Nobody}
  /\ pc \in [Caller -> {"out", "write", "unlock"}]
  /\ kind \in [Caller -> Kind]
  /\ todo \in [Caller -> SUBSET (Field \cup {"req"})]
  /\ calls \in 0..MaxCalls
  /\ req \in [kind : Kind, by : Nat]
  /\ block \in [Kind -> [Field -> Nat]]
  /\ queued \in BOOLEAN
  /\ wpc \in {"idle", "start", "run"}
  /\ run \in Use
  /\ left \subseteq Field
  /\ served \in Use

AnyKind == CHOOSE k \in Kind : TRUE
NoUse == [kind |-> AnyKind, by |-> 0, got |-> [f \in Field |-> 0]]

\* The device structure is static: everything is zero, the work item idle.
Init ==
  /\ holder = Nobody
  /\ pc = [c \in Caller |-> "out"]
  /\ kind = [c \in Caller |-> AnyKind]
  /\ todo = [c \in Caller |-> {}]
  /\ calls = 0
  /\ req = [kind |-> AnyKind, by |-> 0]
  /\ block = [k \in Kind |-> [f \in Field |-> 0]]
  /\ queued = FALSE
  /\ wpc = "idle"
  /\ run = NoUse
  /\ left = {}
  /\ served = NoUse

-----------------------------------------------------------------------------
(* A management call *)

\* MUTANT: the call does not take the lock.
AcceptUnlocked(c, k) ==
  /\ calls < MaxCalls
  /\ pc[c] = "out"
  /\ pc' = [pc EXCEPT ![c] = "write"]
  /\ calls' = calls + 1
  /\ kind' = [kind EXCEPT ![c] = k]
  /\ todo' = [todo EXCEPT ![c] = Fields(k) \cup {"req"}]
  /\ UNCHANGED <<holder, req, block, queued, wpc, run, left, served>>

\* A call passes its checks and takes the lock.
Accept(c, k) ==
  /\ calls < MaxCalls
  /\ pc[c] = "out"
  /\ holder = Nobody
  /\ holder' = c
  /\ pc' = [pc EXCEPT ![c] = "write"]
  /\ calls' = calls + 1
  /\ kind' = [kind EXCEPT ![c] = k]
  /\ todo' = [todo EXCEPT ![c] = Fields(k) \cup {"req"}]
  /\ UNCHANGED <<req, block, queued, wpc, run, left, served>>

\* One store.  The handler reads the words without the lock, so the compiler's
\* order of these plain stores is visible to it: any order is possible.
Store(c, x) ==
  /\ pc[c] = "write"
  /\ x \in todo[c]
  /\ todo' = [todo EXCEPT ![c] = @ \ {x}]
  /\ IF x = "req"
       THEN /\ req' = [kind |-> kind[c], by |-> calls]
            /\ UNCHANGED block
       ELSE /\ block' = [block EXCEPT ![kind[c]][x] = calls]
            /\ UNCHANGED req
  /\ UNCHANGED <<holder, pc, kind, calls, queued, wpc, run, left, served>>

\* MUTANT: a work item that is running is not queued again.
SubmitUnlessRunning(c) ==
  /\ pc[c] = "write"
  /\ todo[c] = {}
  /\ pc' = [pc EXCEPT ![c] = "unlock"]
  /\ queued' = (queued \/ wpc = "idle")
  /\ UNCHANGED <<holder, kind, todo, calls, req, block, wpc, run, left, served>>

\* k_work_submit_to_queue: no effect when queued, queued again when running.
Submit(c) ==
  /\ pc[c] = "write"
  /\ todo[c] = {}
  /\ pc' = [pc EXCEPT ![c] = "unlock"]
  /\ queued' = TRUE
  /\ UNCHANGED <<holder, kind, todo, calls, req, block, wpc, run, left, served>>

Release(c) ==
  /\ pc[c] = "unlock"
  /\ pc' = [pc EXCEPT ![c] = "out"]
  /\ holder' = Nobody
  /\ UNCHANGED <<kind, todo, calls, req, block, queued, wpc, run, left, served>>

-----------------------------------------------------------------------------
(* zephyr_cyw43_request_work on the work queue *)

\* The queue thread takes the item off its list before it calls the handler.
Dequeue ==
  /\ queued
  /\ wpc = "idle"
  /\ queued' = FALSE
  /\ wpc' = "start"
  /\ UNCHANGED <<holder, pc, kind, todo, calls, req, block, run, left, served>>

\* switch (req): the code is read once, without the lock.
ReadReq ==
  /\ wpc = "start"
  /\ wpc' = "run"
  /\ run' = [kind |-> req.kind, by |-> req.by, got |-> [f \in Field |-> 0]]
  /\ left' = Fields(req.kind)
  /\ UNCHANGED <<holder, pc, kind, todo, calls, req, block, queued, served>>

\* The service reads its parameters one by one, without the lock.
Fetch(f) ==
  /\ wpc = "run"
  /\ f \in left
  /\ left' = left \ {f}
  /\ run' = [run EXCEPT !.got[f] = block[run.kind][f]]
  /\ UNCHANGED <<holder, pc, kind, todo, calls, req, block, queued, wpc, served>>

\* Each further join attempt of zephyr_cyw43_connect goes back to the SSID and
\* the key in connect_params, through pointers it took at the start; their
\* lengths, the security and the channel stay those read then.
FetchAgain ==
  /\ wpc = "run"
  /\ left = {}
  /\ run.kind = "CONNECT"
  /\ left' = {"ssid", "psk"}
  /\ UNCHANGED <<holder, pc, kind, todo, calls, req, block, queued, wpc, run, served>>

\* MUTANT: the item leaves the queue when the handler is done.
FinishDequeuing ==
  /\ wpc = "run"
  /\ left = {}
  /\ wpc' = "idle"
  /\ served' = run
  /\ queued' = FALSE
  /\ UNCHANGED <<holder, pc, kind, todo, calls, req, block, run, left>>

Finish ==
  /\ wpc = "run"
  /\ left = {}
  /\ wpc' = "idle"
  /\ served' = run
  /\ UNCHANGED <<holder, pc, kind, todo, calls, req, block, queued, run, left>>

-----------------------------------------------------------------------------

CallStep(c) ==
  \/ \E k \in Kind : Accept(c, k)
  \/ \E x \in Field \cup {"req"} : Store(c, x)
  \/ Submit(c)
  \/ Release(c)

WorkStep ==
  \/ Dequeue
  \/ ReadReq
  \/ \E f \in Field : Fetch(f)
  \/ FetchAgain
  \/ Finish

Next == (\E c \in Caller : CallStep(c)) \/ WorkStep

\* A call that has the lock completes, the work queue thread runs while there
\* is work, and a handler ends: its retry loops are bounded, so it does not go
\* back to its parameters again and again.
Fairness ==
  /\ \A c \in Caller : WF_vars(pc[c] # "out" /\ CallStep(c))
  /\ WF_vars(Dequeue \/ ReadReq \/ \E f \in Field : Fetch(f))
  /\ SF_vars(Finish)

Spec == Init /\ [][Next]_vars
FairSpec == Spec /\ Fairness

-----------------------------------------------------------------------------

Quiet == ~queued /\ wpc = "idle" /\ \A c \in Caller : pc[c] = "out"

\* Whatever calls overlapped, once everything is quiet the handler's last run
\* served the newest call, with that call's own parameters in one piece: no
\* submit is lost against a running or finishing handler, and what the
\* handler read too early or torn it has read again.
LastRunServedNewest ==
  Quiet =>
    /\ served.by = calls
    /\ calls > 0 => \A f \in Fields(served.kind) : served.got[f] = calls

\* The request word and the handler implement the conflating mailbox.
Mailbox == INSTANCE ConflatingMailbox WITH newest <- req.by, taken <- run.by
ImplementsMailbox == Mailbox!Spec
ImplementsFairMailbox == Mailbox!FairSpec

\* Every call that is made is served, or a newer one is, in the end.
EveryCallServed ==
  \A n \in 1..MaxCalls : (calls >= n) ~> (served.by >= n)

\* The scan service sees of all this what ScanRequest says: ScanFlow, which
\* models that service, and this module meet there.
Submitting == \E c \in Caller : pc[c] = "write" /\ "req" \notin todo[c]
ScanPending ==
  IF req.kind # "SCAN" \/ req.by = 0 THEN "none"
  ELSE IF Submitting THEN "stored"
  ELSE IF queued \/ wpc = "start" THEN "queued" ELSE "none"
ScanServed == wpc = "run" /\ run.kind = "SCAN"
Scans == INSTANCE ScanRequest WITH pending <- ScanPending, serving <- ScanServed
ImplementsScanRequest == Scans!Spec

-----------------------------------------------------------------------------
(* The inductive invariant behind the two safety properties *)

\* A caller between its lock and its unlock holds the lock; nobody else does.
LockUse ==
  \A c \in Caller : holder = c <=> pc[c] # "out"

\* The stores of the newest call are done, or their caller has them to do.
Stored ==
  /\ \A c \in Caller : pc[c] = "write" =>
       /\ todo[c] \subseteq Fields(kind[c]) \cup {"req"}
       /\ \A f \in Fields(kind[c]) \ todo[c] : block[kind[c]][f] = calls
       /\ IF "req" \in todo[c]
            THEN req.by = calls - 1
            ELSE req = [kind |-> kind[c], by |-> calls]
       /\ calls > 0
  /\ (\A c \in Caller : pc[c] # "write") =>
       /\ req.by = calls
       /\ calls > 0 => \A f \in Fields(req.kind) : block[req.kind][f] = calls

\* When no submit is outstanding and the item is not waiting, the run that is
\* going on or that was the last read the newest call.
CaughtUp ==
  ~queued /\ wpc # "start" /\ (\A c \in Caller : pc[c] # "write") =>
    /\ run.by = calls
    /\ calls > 0 => run.kind = req.kind
    /\ calls > 0 => \A f \in Fields(run.kind) \ left : run.got[f] = calls
    /\ wpc = "idle" => served = run

IdleLeft == wpc = "idle" => left = {}

\* The handler runs only for a request that has been stored.
Begun == queued \/ wpc # "idle" => req.by > 0

RequestInv == LockUse /\ Stored /\ CaughtUp /\ IdleLeft /\ Begun

\* Types and bookkeeping together: the newest call's stores are done, or on
\* their way to a submit that makes the handler look again.
IndInv == TypeOK /\ RequestInv
=============================================================================
