----------------------------- MODULE WifiControl -----------------------------
(***************************************************************************)
(* Station and access point mode: the checks the management calls make     *)
(* before they hand a request to the work queue, the services the work     *)
(* queue runs (connect with its join retries, disconnect, AP enable and    *)
(* disable), and the link events of the radio that run beside both.        *)
(* The request word is the conflating mailbox of RequestWork: a call       *)
(* replaces a request that was not taken yet.                              *)
(***************************************************************************)
EXTENDS Naturals, Sequences

CONSTANTS Caller,     \* threads that make management calls
          MaxJoin,    \* join attempts of one connect (5 in the code)
          MaxPoll     \* link polls after a successful join (8 in the code)

ASSUME JoinAssumption == MaxJoin \in Nat \ {0} /\ MaxPoll \in Nat \ {0}

VARIABLES build,      \* which of the two AUTO_DHCPV4 options are compiled in
          sta,        \* CYW43_ITF_STA bit of cyw43_state.itf_state
          ap,         \* CYW43_ITF_AP bit of cyw43_state.itf_state
          apOn,       \* the radio runs an access point
          link,       \* cyw43_wifi_link_status of the station interface
          pc,         \* what each caller has been cleared to request
          pending,    \* the request that waits for the work queue
          op,         \* the request the work queue serves
          step,       \* the next step of that service
          joins,      \* join attempts begun
          polls,      \* link polls since the last join
          dormant,    \* net_if_dormant state of the network interface
          client,     \* the DHCPv4 client runs on the interface
          server,     \* the DHCPv4 server runs on the interface
          events,     \* result events raised by the service, TRUE for success
          overlap     \* ghost: some call was made before the last was served

radioVars == <<sta, ap, apOn, link>>
netVars == <<dormant, client, server>>
callVars == <<pc, pending, overlap>>
workVars == <<op, step, joins, polls, events>>
vars == <<build, radioVars, netVars, callVars, workVars>>

Op == {"connect", "disconnect", "enable_ap", "disable_ap"}
\* DOWN stands for every status the code treats alike: down, failed, bad
\* authorisation.
Link == {"DOWN", "JOIN", "NONET"}
Step == {"join", "poll", "failed", "joined", "leave", "left", "up", "address",
         "carrier", "serve", "down", "sta_up", "clear", "unserve", "dormant",
         "raise", "return", "none"}

CallsTyped ==
  /\ pc \in [Caller -> Op \cup {"out"}]
  /\ pending \in Op \cup {"none"}
  /\ op \in Op \cup {"none"}

TypeOK ==
  /\ CallsTyped
  /\ build \in [sta : BOOLEAN, ap : BOOLEAN]
  /\ sta \in BOOLEAN /\ ap \in BOOLEAN /\ apOn \in BOOLEAN
  /\ dormant \in BOOLEAN /\ client \in BOOLEAN /\ server \in BOOLEAN
  /\ overlap \in BOOLEAN
  /\ link \in Link
  /\ step \in Step
  /\ joins \in 0..MaxJoin
  /\ polls \in 0..MaxPoll
  /\ events \in Seq(BOOLEAN) /\ Len(events) <= 2

\* After zephyr_cyw43_init has brought the station interface up and
\* zephyr_cyw43_iface_init has attached it, for each of the four builds.
Init ==
  /\ build \in [sta : BOOLEAN, ap : BOOLEAN]
  /\ sta = TRUE
  /\ ap = FALSE
  /\ apOn = FALSE
  /\ link = "DOWN"
  /\ pc = [c \in Caller |-> "out"]
  /\ pending = "none"
  /\ op = "none"
  /\ step = "none"
  /\ joins = 0
  /\ polls = 0
  /\ dormant = TRUE
  /\ client = FALSE
  /\ server = FALSE
  /\ events = <<>>
  /\ overlap = FALSE

-----------------------------------------------------------------------------
(* The radio *)

\* The link is lost, a join is refused, or a leave has taken effect.  Only
\* cyw43_wifi_join brings a link to JOIN.
LinkEvent ==
  /\ link # "DOWN"
  /\ link' \in Link \ {"JOIN", link}
  /\ UNCHANGED <<build, sta, ap, apOn, netVars, callVars, workVars>>

-----------------------------------------------------------------------------
(* Management calls *)

\* What mgmt_connect and mgmt_ap_enable take for a client connection.
ClientLink == sta /\ link \in {"JOIN", "NONET"}

Busy == pending # "none" \/ op # "none" \/ \E c \in Caller : pc[c] # "out"

\* MUTANT: the connect check forgets the access point.
AllowedInApMode(o) ==
  CASE o = "connect" -> ~ClientLink
    [] o = "enable_ap" -> ~ap /\ ~ClientLink
    [] OTHER -> TRUE

\* The checks: made without the lock, and not made again later.
Allowed(o) ==
  CASE o = "connect" -> ~ClientLink /\ ~ap
    [] o = "enable_ap" -> ~ap /\ ~ClientLink
    [] OTHER -> TRUE

\* A call that is allowed goes on to the lock; a refused one returns -EAGAIN or
\* -EBUSY and changes nothing.
Check(c, o) ==
  /\ pc[c] = "out"
  /\ Allowed(o)
  /\ pc' = [pc EXCEPT ![c] = o]
  /\ overlap' = (overlap \/ Busy)
  /\ UNCHANGED <<build, radioVars, netVars, pending, workVars>>

\* Under the lock: store the parameters and the request, submit the work item.
Request(c) ==
  /\ pc[c] # "out"
  /\ pending' = pc[c]
  /\ pc' = [pc EXCEPT ![c] = "out"]
  /\ UNCHANGED <<build, radioVars, netVars, overlap, workVars>>

-----------------------------------------------------------------------------
(* zephyr_cyw43_request_work *)

FirstStep(o) ==
  CASE o = "connect" -> "join"
    [] o = "disconnect" -> "leave"
    [] o = "enable_ap" -> "up"
    [] o = "disable_ap" -> "down"

\* When calls overlap, the run may be one that an earlier call began: the
\* request stays and is served again.
Start ==
  /\ op = "none"
  /\ pending # "none"
  /\ op' = pending
  /\ step' = FirstStep(pending)
  /\ pending' = "none" \/ (overlap /\ pending' = pending)
  /\ UNCHANGED <<build, radioVars, netVars, pc, overlap, joins, polls, events>>

Goto(from, to) ==
  /\ step = from
  /\ step' = to

\* zephyr_cyw43_connect -----------------------------------------------------

AfterAttempt(n) == IF n = MaxJoin THEN "failed" ELSE "join"

\* cyw43_wifi_join reports an error: the next attempt, if there is one.
JoinRefused ==
  /\ step = "join"
  /\ joins' = joins + 1
  /\ step' = AfterAttempt(joins')
  /\ UNCHANGED <<build, radioVars, netVars, callVars, op, polls, events>>

\* MUTANT: only refused joins count against the limit.
JoinBegunUncounted ==
  /\ Goto("join", "poll")
  /\ polls' = 0
  /\ link' = "JOIN"
  /\ UNCHANGED <<build, sta, ap, apOn, netVars, callVars, op, joins, events>>

JoinBegun ==
  /\ Goto("join", "poll")
  /\ joins' = joins + 1
  /\ polls' = 0
  /\ link' = "JOIN"
  /\ UNCHANGED <<build, sta, ap, apOn, netVars, callVars, op, events>>

\* One poll of the link and the sleep that follows it.
PollJoined ==
  /\ step = "poll"
  /\ link = "JOIN"
  /\ polls' = polls + 1
  /\ step' = IF polls' = MaxPoll THEN "joined" ELSE "poll"
  /\ UNCHANGED <<build, radioVars, netVars, callVars, op, joins, events>>

\* MUTANT: the last lost attempt ends the service without its result.
PollLostSilently ==
  /\ step = "poll"
  /\ link # "JOIN"
  /\ step' = IF joins = MaxJoin THEN "return" ELSE "join"
  /\ UNCHANGED <<build, radioVars, netVars, callVars, op, joins, polls, events>>

PollLost ==
  /\ step = "poll"
  /\ link # "JOIN"
  /\ step' = AfterAttempt(joins)
  /\ UNCHANGED <<build, radioVars, netVars, callVars, op, joins, polls, events>>

\* MUTANT: the interface is left as it was when the connection fails.
ConnectFailedKeepsCarrier ==
  /\ Goto("failed", "return")
  /\ events' = Append(events, FALSE)
  /\ UNCHANGED <<build, radioVars, dormant, client, server, callVars, op, joins, polls>>

ConnectFailed ==
  /\ Goto("failed", "return")
  /\ dormant' = TRUE
  /\ events' = Append(events, FALSE)
  /\ UNCHANGED <<build, radioVars, client, server, callVars, op, joins, polls>>

\* With the option the DHCP client restarts; without it the connect result is
\* raised here, and request_work raises it in either case.
ConnectJoined ==
  /\ Goto("joined", "raise")
  /\ dormant' = FALSE
  /\ client' = (client \/ build.sta)
  /\ events' = IF build.sta THEN events ELSE Append(events, TRUE)
  /\ UNCHANGED <<build, radioVars, server, callVars, op, joins, polls>>

RaiseConnected ==
  /\ op = "connect"
  /\ Goto("raise", "return")
  /\ events' = Append(events, TRUE)
  /\ UNCHANGED <<build, radioVars, netVars, callVars, op, joins, polls>>

\* zephyr_cyw43_disconnect --------------------------------------------------

\* cyw43_wifi_leave fails: -EIO, and request_work raises it.
LeaveRefused ==
  /\ Goto("leave", "return")
  /\ events' = Append(events, FALSE)
  /\ UNCHANGED <<build, radioVars, netVars, callVars, op, joins, polls>>

\* The radio drops the link in its own time (LinkEvent).
LeaveDone ==
  /\ Goto("leave", "left")
  /\ UNCHANGED <<build, radioVars, netVars, callVars, op, joins, polls, events>>

\* The client stops, the interface goes dormant, the result is raised; and
\* request_work raises it once more.
Left ==
  /\ Goto("left", "raise")
  /\ client' = (client /\ ~build.sta)
  /\ dormant' = TRUE
  /\ events' = Append(events, TRUE)
  /\ UNCHANGED <<build, radioVars, server, callVars, op, joins, polls>>

RaiseDisconnected ==
  /\ op = "disconnect"
  /\ Goto("raise", "return")
  /\ events' = Append(events, TRUE)
  /\ UNCHANGED <<build, radioVars, netVars, callVars, op, joins, polls>>

\* zephyr_cyw43_enable_ap ---------------------------------------------------

\* The settings under the lock, then cyw43_wifi_set_up(AP, true).
ApUp ==
  /\ Goto("up", IF build.ap THEN "address" ELSE "carrier")
  /\ apOn' = TRUE
  /\ ap' = TRUE
  /\ UNCHANGED <<build, sta, link, netVars, callVars, op, joins, polls, events>>

ApAddress ==
  /\ Goto("address", "carrier")
  /\ UNCHANGED <<build, radioVars, netVars, callVars, op, joins, polls, events>>

\* The address does not parse or the interface has no room for it: the
\* service returns zero with the access point up and the interface dormant.
ApAddressRefused ==
  /\ Goto("address", "return")
  /\ UNCHANGED <<build, radioVars, netVars, callVars, op, joins, polls, events>>

ApCarrier ==
  /\ Goto("carrier", IF build.ap THEN "serve" ELSE "return")
  /\ dormant' = FALSE
  /\ UNCHANGED <<build, radioVars, client, server, callVars, op, joins, polls, events>>

\* net_dhcpv4_server_start; a failure is only logged.
ApServe ==
  /\ Goto("serve", "return")
  /\ server' \in {server, TRUE}
  /\ UNCHANGED <<build, radioVars, dormant, client, callVars, op, joins, polls, events>>

\* zephyr_cyw43_disable_ap --------------------------------------------------

\* cyw43_wifi_set_up(AP, false) leaves the interface bit alone.
ApDown ==
  /\ Goto("down", "sta_up")
  /\ apOn' = FALSE
  /\ UNCHANGED <<build, sta, ap, link, netVars, callVars, op, joins, polls, events>>

StaUp ==
  /\ Goto("sta_up", "clear")
  /\ sta' = TRUE
  /\ UNCHANGED <<build, ap, apOn, link, netVars, callVars, op, joins, polls, events>>

\* MUTANT: the bit is left to the library, which does not reset it.
ClearApBitForgotten ==
  /\ Goto("clear", IF build.ap THEN "unserve" ELSE "dormant")
  /\ UNCHANGED <<build, radioVars, netVars, callVars, op, joins, polls, events>>

ClearApBit ==
  /\ Goto("clear", IF build.ap THEN "unserve" ELSE "dormant")
  /\ ap' = FALSE
  /\ UNCHANGED <<build, sta, apOn, link, netVars, callVars, op, joins, polls, events>>

\* MUTANT: the server is stopped only when no client runs.
ApUnserveSkipped ==
  /\ Goto("unserve", "dormant")
  /\ server' = (server /\ client)
  /\ UNCHANGED <<build, radioVars, dormant, client, callVars, op, joins, polls, events>>

\* net_dhcpv4_server_stop reports an error only when there is none to stop.
ApUnserve ==
  /\ Goto("unserve", "dormant")
  /\ server' = FALSE
  /\ UNCHANGED <<build, radioVars, dormant, client, callVars, op, joins, polls, events>>

ApDormant ==
  /\ Goto("dormant", "return")
  /\ dormant' = TRUE
  /\ UNCHANGED <<build, radioVars, client, server, callVars, op, joins, polls, events>>

\* The handler returns to the queue and its locals are gone.
Return ==
  /\ Goto("return", "none")
  /\ op' = "none"
  /\ joins' = 0
  /\ polls' = 0
  /\ events' = <<>>
  /\ UNCHANGED <<build, radioVars, netVars, callVars>>

-----------------------------------------------------------------------------

ConnectStep ==
  \/ JoinRefused \/ JoinBegun \/ PollJoined \/ PollLost
  \/ ConnectFailed \/ ConnectJoined \/ RaiseConnected

DisconnectStep == LeaveRefused \/ LeaveDone \/ Left \/ RaiseDisconnected

EnableApStep == ApUp \/ ApAddress \/ ApAddressRefused \/ ApCarrier \/ ApServe

DisableApStep == ApDown \/ StaUp \/ ClearApBit \/ ApUnserve \/ ApDormant

WorkStep ==
  \/ Start \/ ConnectStep \/ DisconnectStep \/ EnableApStep \/ DisableApStep
  \/ Return

Call(c) == (\E o \in Op : Check(c, o)) \/ Request(c)

Next == LinkEvent \/ (\E c \in Caller : Call(c)) \/ WorkStep

\* A call that passed its checks reaches its submit; the work queue thread runs.
Spec == Init /\ [][Next]_vars
FairSpec ==
  /\ Spec
  /\ \A c \in Caller : WF_vars(Request(c))
  /\ WF_vars(WorkStep)

-----------------------------------------------------------------------------

\* The station is not on a network while the access point runs: the two checks
\* ("Please disable access point mode before initiating a client connection",
\* "Please disconnect before enabling AP") keep the modes apart, as long as a
\* call is made only after the call before it was served.
ModesApart == ~(ap /\ link = "JOIN")
ModesApartWhenSerial == ~overlap => ModesApart

\* Whatever calls overlap, the interface bit that mgmt_connect, iface_status
\* and zephyr_cyw43_send go by tells whether the access point runs, except
\* inside disable_ap, which resets it itself.
ApBitMatchesRadio ==
  step \notin {"sta_up", "clear"} => (ap <=> apOn)

\* Whatever calls overlap, no DHCP server outlives its access point.
NoServerWithoutAp ==
  server => ap \/ (op = "disable_ap" /\ step = "unserve")

\* A connect answers exactly what it left behind: every result event of the
\* service says success if and only if the interface is no longer dormant and,
\* where the option asks for it, the DHCP client runs; there is at least one.
ConnectAnswerMatchesInterface ==
  op = "connect" /\ step = "return" =>
    /\ events # <<>>
    /\ \A i \in 1..Len(events) : events[i] = ~dormant
    /\ ~dormant /\ build.sta => client

\* A connect that no other call overtakes is answered by a result event,
\* however the radio behaves.
ConnectAnswered ==
  pending = "connect" ~> (op = "connect" /\ events # <<>>) \/ overlap

\* The work queue comes back from every service: the retries are bounded.
ServiceEnds == (op # "none") ~> (op = "none")

\* Why the modes stay apart and the bit stays true, as an inductive invariant.
\* Which service a step belongs to, and what holds along it (the station bit
\* never goes):
AlongService ==
  /\ sta
  /\ op = "none" <=> step = "none"
  /\ step \in {"join", "poll", "failed", "joined"} => op = "connect"
  /\ step \in {"leave", "left"} => op = "disconnect"
  /\ step \in {"up", "address", "carrier", "serve"} => op = "enable_ap"
  /\ step \in {"down", "sta_up", "clear", "unserve", "dormant"} => op = "disable_ap"
  /\ step \in {"sta_up", "clear"} => ~apOn
  /\ step \in {"address", "carrier", "serve"} => ap
  /\ step \in {"unserve", "serve"} \/ server => build.ap

\* One call at a time is cleared, pending or served, and what its check saw
\* still holds:
Cleared(o) == op = o \/ pending = o \/ \E c \in Caller : pc[c] = o

SerialCalls ==
  ~overlap =>
    /\ \A c \in Caller : pc[c] # "out" =>
         /\ pending = "none" /\ op = "none"
         /\ \A d \in Caller : pc[d] # "out" => d = c
    /\ pending # "none" => op = "none"
    /\ Cleared("connect") => ~ap
    /\ Cleared("enable_ap") => link # "JOIN"
    /\ ModesApart

ControlInv ==
  /\ CallsTyped
  /\ AlongService
  /\ SerialCalls
  /\ ApBitMatchesRadio
  /\ NoServerWithoutAp

\* Kconfig.rpi_pico_w: the driver starts "the DHCP client (for STA mode) or
\* ... the DHCP server (for AP mode)", so between two services of a serial
\* caller an access point has no client on its interface.
DhcpClientOnlyInStaMode == ~overlap /\ ap /\ op = "none" => ~client

\* Why the types hold and the answers are true: attempts and polls are left
\* where one is begun, and a result event is raised only when the interface
\* already is what it says.
Attempts ==
  /\ op = "none" => joins = 0
  /\ step = "join" => joins < MaxJoin
  /\ step = "poll" => polls < MaxPoll

Answers ==
  /\ step \notin {"raise", "return"} => events = <<>>
  /\ step = "raise" =>
       /\ events \in {<<>>, <<TRUE>>}
       /\ op = "connect" => ~dormant /\ (build.sta => client)
  /\ step = "return" => events \in {<<>>, <<FALSE>>, <<TRUE>>, <<TRUE, TRUE>>}
  /\ step = "return" /\ op = "connect" =>
       \/ dormant /\ events = <<FALSE>>
       \/ ~dormant /\ (build.sta => client) /\ events \in {<<TRUE>>, <<TRUE, TRUE>>}

\* Types, mode control and answers together, for callers that overlap in any
\* way.
IndInv == TypeOK /\ ControlInv /\ Attempts /\ Answers
=============================================================================
