------------------------------ MODULE PowerSave ------------------------------
(***************************************************************************)
(* Power saving.  The driver packs five settings into one word, a call     *)
(* stores it in pm_out for the work queue to give to the radio, and        *)
(* pm_status and iface_status fetch the radio's word into the one pm_in    *)
(* and take it apart again, with different masks.  They share pm_in        *)
(* without a lock around fetching and reading it.                          *)
(***************************************************************************)
EXTENDS Naturals

CONSTANTS Reader,     \* threads that ask for the power saving status
          Settings    \* the build time settings to consider

\* Kconfig.rpi_pico_w: CONFIG_WIFI_ZEPHYR_CYW43_POWERSAVE_*.
Setting == [mode : 0..2, sleep : 0..255, beacon : 0..15, dtim : 0..15, assoc : 0..15]

ASSUME SettingsAssumption == Settings \subseteq Setting

VARIABLES config,     \* the settings of this build
          radio,      \* the word the radio works with
          pm_out,     \* pm_params.pm_out
          pm_in,      \* pm_params.pm_in
          pending,    \* a set_pm request waits for the work queue
          pc,         \* where each reader is
          seen,       \* ghost: modes the radio had since the reader's fetch
          report      \* what each reader was told last

vars == <<config, radio, pm_out, pm_in, pending, pc, seen, report>>

-----------------------------------------------------------------------------
(* The word *)

\* cyw43_pm_value: mode, sleep return time, listen interval in beacons, in
\* DTIMs, and as told to the access point.  The library keeps the sleep return
\* time in units of 10 ms and is given milliseconds: the driver hands it the
\* setting as it is.
PmValue(mode, s) ==
  mode + 16 * (s.sleep \div 10) + 4096 * s.beacon + 65536 * s.dtim + 1048576 * s.assoc

\* What the radio makes of the word it is given.
RadioMode(w) == w % 16

\* MUTANT: the field is taken one bit wide.
ModeOneBit(w) == w % 2

\* pm_in & 0x0000000f
ModeOf(w) == w % 16

\* (pm_in & 0x00000ff0) >> 4
SleepOf(w) == (w \div 16) % 256

\* What pm_status takes for the DTIM interval: (pm_in & 0x00000ff0) >> 16.
StatusDtimOf(w) == (16 * ((w \div 16) % 256)) \div 65536

\* What iface_status takes: (pm_in & 0x0000F000) >> 12 and
\* (pm_in & 0x000F0000) >> 16.
BeaconOf(w) == (w \div 4096) % 16

\* MUTANT: the DTIM interval is read from the neighbouring field.
DtimNeighbour(w) == (w \div 1048576) % 16

DtimOf(w) == (w \div 65536) % 16

\* The mode that enabling stands for: PM2 when the build starts with it off.
EnabledMode(s) == IF s.mode = 0 THEN 2 ELSE s.mode

-----------------------------------------------------------------------------

Words(s) == {PmValue(m, s) : m \in {0, s.mode, EnabledMode(s)}}

Report == [enabled : BOOLEAN, wakeup : {"none", "DTIM", "LISTEN_INTERVAL"},
           timeout : Nat, beacon : Nat, dtim : Nat]
NoReport == [enabled |-> FALSE, wakeup |-> "none", timeout |-> 0,
             beacon |-> 0, dtim |-> 0]

TypeOK ==
  /\ config \in Settings
  /\ radio \in Words(config)
  /\ pm_out \in Words(config) \cup {0}
  /\ pending => pm_out \in Words(config)
  /\ pm_in \in Words(config) \cup {0}
  /\ pending \in BOOLEAN
  /\ pc \in [Reader -> {"out", "decode", "test", "periods"}]
  /\ seen \in [Reader -> SUBSET (0..2)]
  /\ report \in [Reader -> Report]

\* zephyr_cyw43_init gives the radio the settings of the build.
Init ==
  /\ config \in Settings
  /\ radio = PmValue(config.mode, config)
  /\ pm_out = 0
  /\ pm_in = 0
  /\ pending = FALSE
  /\ pc = [t \in Reader |-> "out"]
  /\ seen = [t \in Reader |-> {}]
  /\ report = [t \in Reader |-> NoReport]

\* zephyr_cyw43_mgmt_set_pm, under the lock.
SetPm(enabled) ==
  /\ pm_out' = PmValue(IF enabled THEN EnabledMode(config) ELSE 0, config)
  /\ pending' = TRUE
  /\ UNCHANGED <<config, radio, pm_in, pc, seen, report>>

\* zephyr_cyw43_set_pm on the work queue.
Apply ==
  /\ pending
  /\ pending' = FALSE
  /\ radio' = pm_out
  /\ seen' = [t \in Reader |->
                IF pc[t] = "out" THEN seen[t] ELSE seen[t] \cup {RadioMode(radio')}]
  /\ UNCHANGED <<config, pm_out, pm_in, pc, report>>

\* The library refuses, or another request replaced this one: nothing happens.
ApplyNothing ==
  /\ pending
  /\ pending' = FALSE
  /\ UNCHANGED <<config, radio, pm_out, pm_in, pc, seen, report>>

-----------------------------------------------------------------------------
(* zephyr_cyw43_pm_status and zephyr_cyw43_iface_status *)

\* MUTANT: only the mode is kept of what was fetched.
FetchMode(t, next) ==
  /\ pc[t] = "out"
  /\ pc' = [pc EXCEPT ![t] = next]
  /\ pm_in' = ModeOf(radio)
  /\ seen' = [seen EXCEPT ![t] = {RadioMode(radio)}]
  /\ UNCHANGED <<config, radio, pm_out, pending, report>>

\* cyw43_wifi_get_pm into the shared pm_in; when it fails the caller is told
\* nothing.
Fetch(t, next) ==
  /\ pc[t] = "out"
  /\ pc' = [pc EXCEPT ![t] = next]
  /\ pm_in' = radio
  /\ seen' = [seen EXCEPT ![t] = {RadioMode(radio)}]
  /\ UNCHANGED <<config, radio, pm_out, pending, report>>

\* pm_status takes the lock and reads pm_in, which may be another's by now.
Decode(t) ==
  /\ pc[t] = "decode"
  /\ pc' = [pc EXCEPT ![t] = "out"]
  /\ report' =
       [report EXCEPT ![t] =
         IF ModeOf(pm_in) # 0
           THEN [NoReport EXCEPT
                   !.enabled = TRUE,
                   !.wakeup = IF StatusDtimOf(pm_in) # 0 THEN "DTIM" ELSE "LISTEN_INTERVAL",
                   !.timeout = 10 * SleepOf(pm_in)]
           ELSE NoReport]
  /\ UNCHANGED <<config, radio, pm_out, pm_in, pending, seen>>

\* iface_status reads pm_in without the lock, once for the mode ...
TestMode(t) ==
  /\ pc[t] = "test"
  /\ IF ModeOf(pm_in) # 0
       THEN pc' = [pc EXCEPT ![t] = "periods"] /\ UNCHANGED report
       ELSE pc' = [pc EXCEPT ![t] = "out"] /\ report' = [report EXCEPT ![t] = NoReport]
  /\ UNCHANGED <<config, radio, pm_out, pm_in, pending, seen>>

\* ... and again for the periods.
ReadPeriods(t) ==
  /\ pc[t] = "periods"
  /\ pc' = [pc EXCEPT ![t] = "out"]
  /\ report' = [report EXCEPT ![t] =
                 [NoReport EXCEPT !.enabled = TRUE,
                                  !.beacon = BeaconOf(pm_in),
                                  !.dtim = DtimOf(pm_in)]]
  /\ UNCHANGED <<config, radio, pm_out, pm_in, pending, seen>>

ReadStep(t) ==
  \/ Fetch(t, "decode") \/ Fetch(t, "test")
  \/ Decode(t) \/ TestMode(t) \/ ReadPeriods(t)

Next ==
  \/ \E enabled \in BOOLEAN : SetPm(enabled)
  \/ Apply \/ ApplyNothing
  \/ \E t \in Reader : ReadStep(t)

Spec == Init /\ [][Next]_vars

-----------------------------------------------------------------------------

\* A status call never answers from before its own fetch, nor from a word that
\* was only requested, although all calls share pm_in: what it says of power
\* saving was true of the radio at some moment since the fetch.
StatusOfThisCall ==
  \A t \in Reader : pc[t] = "out" /\ seen[t] # {} =>
    \E mode \in seen[t] : report[t].enabled <=> mode # 0

\* Why, as an inductive invariant: from its fetch on a call finds one of the
\* build's words in pm_in, one whose mode the radio has had since then.
FetchInv ==
  /\ \A t \in Reader : pc[t] # "out" =>
       /\ pm_in \in Words(config)
       /\ RadioMode(pm_in) \in seen[t]
       /\ RadioMode(radio) \in seen[t]
  /\ \A t \in Reader : pc[t] = "periods" => \E mode \in seen[t] : mode # 0
  /\ StatusOfThisCall

\* Whatever word a call meets in pm_in, its own or another's, the two wake
\* periods iface_status gives are those the build was configured with: the
\* fields of the word do not run into each other, and each mask meets its field.
PeriodsReported ==
  \A t \in Reader : report[t].enabled /\ report[t].wakeup = "none" =>
    report[t].beacon = config.beacon /\ report[t].dtim = config.dtim

\* Kconfig.rpi_pico_w, on the sleep return time: "(0-255 x 10ms)".
SleepDocumented(s) == 10 * s.sleep

\* Kconfig.rpi_pico_w, on the DTIM interval: "Wake interval measured in DTIMs.
\* If this is set to 0, the wake interval is measured in beacon periods."
WakeupDocumented(s) == IF s.dtim # 0 THEN "DTIM" ELSE "LISTEN_INTERVAL"

\* What pm_status says of the sleep return time (in ms) and of the wake-up
\* mode is what the Kconfig file says of the two settings.
StatusAsDocumented ==
  \A t \in Reader : report[t].wakeup # "none" =>
    /\ report[t].timeout = SleepDocumented(config)
    /\ report[t].wakeup = WakeupDocumented(config)

\* Types and fetches together: whoever fetched into the shared word last, it is
\* good enough for every status call under way.
IndInv == TypeOK /\ FetchInv
=============================================================================
