# A verification project for zephyr-cyw43-driver

TLA+ specifications of the Zephyr driver for the CYW43 radio (Raspberry Pi Pico W),
their TLC configurations, and proofs for TLAPS. Paths below are relative to
`src/drivers/wifi/zephyr_cyw43/`; `drv.c` is `src/zephyr_cyw43_drv.c`.

Every module is written from the code. The cyw43-driver library and the Zephyr kernel
are not part of the repository: where an action needs them they are modelled by what the
driver relies on, and `PROJECT.json` marks these definitions external.

## 1. The system

```
 shell / network manager / application        network stack
   | mgmt_connect, mgmt_scan, ...      send |        ^ net_recv_data
   v                                        v        |
 request word + parameters --- work queue --> cyw43 library <-- poll thread
   (driver lock)               (no lock)      (driver lock)        ^
                                                 |                 | event_sem
                                              SPI bus  <-- one pin --> host-wake interrupt
```

| Component | State | Operations | Code |
|---|---|---|---|
| Driver lock | kernel mutex, `mutex_owner`, `mutex_depth` | lock, unlock | `zephyr_cyw43_drv.h` 67-85 |
| Host wake | pin function, pin interrupt, `event_sem` | interrupt handler, poll loop, post-poll hook, switching in a bus transfer | `drv.c` 39-65, 924-967; `cyw43_bus_pio_spi.c` 163-258 |
| Requests | `req`, `connect_params`, `ap_params`, `pm_params`, `scan_cb`, one `k_work` | six management calls, one handler | `drv.c` 413-455, 591-771 |
| Mode control | `itf_state` bits, the radio's link and access point, dormancy, DHCP client and server | connect, disconnect, enable_ap, disable_ap | `drv.c` 149-404 |
| Scanning | `scan_cb`, the library's active scan | mgmt_scan, scan service, result delivery | `drv.c` 74-146, 591-613 |
| Ethernet | `frame_buf`, receive buffers | send, process_ethernet | `drv.c` 457-489, 813-856 |
| Power save | `pm_out`, `pm_in`, the radio's word | set_pm, pm_status, iface_status | `drv.c` 406-411, 573-588, 722-805 |
| Initialisation | everything above | init, iface_init | `drv.c` 491-517, 991-1034 |
| PIO-SPI bus | `spi_header` and `spid_buf` | block reads and writes, register reads and writes, power-up | `cyw43_bus_pio_spi.c` |
| PicoWi bus | the same and the reorder flag | the same, alternative back end | `cyw43_bus_picowi_pio_spi.c` |
| PIO state machine | two FIFOs, its place in the program, the data pin's direction | transfer of octets both ways | `picowi_pio/picowi_pio.c`, `.pio` |
| Bluetooth HCI | `recv`, receive and transmit buffers, the host's pools | open, close, send, process | `zephyr_cyw43_bt_hci_drv.c` |
| GPIO, LED, shell | none of their own | one library call each, GPIO over several pins | `zephyr_cyw43_gpio_drv.c`, `..._led_drv.c`, `..._shell.c` |
| Configuration port | none | lock hooks, pin read, delays | `cyw43_configport.h` |

Interaction is by shared state: the device structure (written by callers under the lock,
read by the work queue without it), the library's state (under the lock), the shared pin
(switched with and without the lock), and callbacks into the network stack made by
whichever thread has the lock.

What is hard: five kinds of threads and an interrupt handler around a lock that is
sometimes not taken; a single request word for all requests; checks made long before
what they guard; retries and waits on the only work queue; a pin with two functions;
buffers that the stack gives back only after it may have had to wait for the driver.
`PROJECT.json` lists each hazard at its line.

What makes each component correct:

- *lock*: mutual exclusion whatever the nesting, nothing left locked behind;
- *host wake*: no transfer disturbed, no wake-up left to the five second timeout;
- *requests*: nothing but a newer request can make a request go unserved, and the last
  run uses the newest call's own parameters;
- *mode control*: station and access point apart, the interface bit truthful, DHCP
  following the mode, each connect answered and answered truthfully, the queue coming back;
- *scanning*: no call through NULL, one scan at a time, "no more" told, and true;
- *Ethernet*: frames whole, buffers neither lost nor freed twice, no deadlock between
  reception and the stack;
- *power save*: no stale status, no setting damaged on its way through the word;
- *Bluetooth*: no packet to a callback that is gone, no buffer lost, and the poll thread
  back out of `cyw43_bluetooth_hci_process` with the lock it holds;
- *bus*: each call moves exactly its own words, none an earlier one left in the buffer,
  and the value of a register is looked for where the back end in use puts it;
- *state machine*: the data pin has one driver, every octet crosses once and in order.

## 2. The modules

| Module | Role | Checked by | Proofs |
|---|---|---|---|
| `RecursiveLock` | abstract: a lock with nesting levels | | |
| `DriverLock` | the lock, one step per memory access | `MCDriverLock` | `DriverLockProofs` |
| `HostWake` | pin, interrupt, semaphore, poll thread, transfers | `MCHostWake` | `HostWakeProofs` |
| `ConflatingMailbox` | abstract: room for one, newer replaces older | | |
| `RequestWork` | calls, work item, handler's unlocked reads | `MCRequestWork` | `RequestWorkProofs` |
| `WifiControl` | mode checks, connect/disconnect/AP services, link events | `MCWifiControl` | `WifiControlProofs` |
| `ScanRequest` | abstract: a scan request is stored, submitted, taken or replaced | | |
| `ScanFlow` | mgmt_scan, scan service, results | `MCScanFlow` | `RequestWorkProofs` |
| `EthernetPath` | send and receive | by `MCRadioTraffic` | `RadioTrafficProofs` |
| `BtHci` | Bluetooth open, close, send, receive | by `MCRadioTraffic` | `RadioTrafficProofs` |
| `RadioTraffic` | both composed on the one driver lock | `MCRadioTraffic` | `RadioTrafficProofs` |
| `PowerSave` | settings word, set_pm, status calls | `MCPowerSave` | `PowerSaveProofs` |
| `RadioBus` | abstract: a call moves its whole block or reports an error | | |
| `BusTransfer` | blocks and registers over either back end, wait for the radio's FIFO | `MCBusTransfer` | `BusTransferProofs` |
| `PioTransfer` | one PicoWi transfer: FIFOs, state machine, pin | `MCPioTransfer` | `PioTransferProofs` |

The modules are layered. `DriverLock` justifies that the others treat a section under the
lock as owned by one thread (`holder`) or, where nothing else can look in, as one step.
`RequestWork` justifies that `WifiControl`, `ScanFlow` and `PowerSave` have a single
`pending` request that a newer one replaces. For scans this is not left to the reader:
`ScanRequest` says what the service sees of the mechanism, and both `RequestWork` and
`ScanFlow` are proved to implement it, one as the side that delivers and the other as the
side that takes. `HostWake` justifies that the poll thread
runs when the radio has something, which is where `LinkEvent`, `ScanEnds` and `Arrive`
come from; one of its transfers is what `BusTransfer` takes as one read or write of the
shared buffer. `PioTransfer` opens up one such transfer of the PicoWi back end: that it is
whole, with the octets where the caller looks, is what `BusTransfer` takes for granted, and proved to be so (`TransferAsTaken`).
`RadioTraffic` joins `EthernetPath` and `BtHci`: they share the variable `holder`, a step
of one leaves the other's variables alone, and the poll thread is inside one side's
receive function at a time. Seen from the Ethernet side the Bluetooth host is one more
thread that locks and unlocks (`HostLock`); seen from the Bluetooth side all others are
(`OthersLock`). That the composition behaves as each side alone allows is proved. In each module an operator whose comment starts with MUTANT is a plausible bug
of the definition that follows it; the check of the properties puts it in that
definition's place. No specification uses one.

### State and code

- **DriverLock**: `kowner`/`kcount` are the kernel mutex, `owner` and `depth` are
  `mutex_owner` and `mutex_depth`; `pc` stands between two memory accesses. `held` counts
  what a thread has entered, and is the abstract lock's level. The owner words 0 and -1
  both are `Nobody`: no thread has either as its address.
- **HostWake**: `pin` is the pinctrl state (SPI data or GPIO input), `irq` what
  `gpio_pin_interrupt_configure` last set. The three writes of arming are three steps.
  The handler is one step: the microcontroller runs the driver on one core. `Init` is the state in
  which `zephyr_cyw43_init` creates the poll thread, before the chip is up.
  `SpuriousInterrupt` allows the handler whenever the trigger is an edge or the pin
  carries bus data with the interrupt on: any outcome the hardware can produce.
- **RequestWork**: each stored word carries the number of the call that stored it.
  The stores of a call are steps in any order, because the handler reads them without the
  lock. `FetchAgain` is connect's return to the SSID
  and the key in `connect_params` on each retry; they are fetched one by one again.
- **WifiControl**: `sta`, `ap` are the bits of `itf_state`; `apOn` and `link` are the radio.
  `build` ranges over the four combinations of the DHCP options. `step` is the program
  counter of the running service. `events` are the result events a service raises.
  `overlap` is a ghost: a call was checked before the previous request was served.
- **ScanFlow**: `cb` and `told` name calls. `excused` is a ghost for the cases in which the
  code tells the newest caller nothing (the scan could not be started, an older one was
  still active, the request was overtaken), `overran` for a scan that outlasts the wait.
  `pending` is "stored" between the store and the submit: a run of the handler that an
  earlier request began can serve the scan already then, and its own run serves it once
  more (`Start` leaves it pending; likewise in `WifiControl` for overlapping calls).
- **EthernetPath**: `frame` names whose frame is in `frame_buf`; the transmit lock that the
  stack takes around the send function is external. `rpc` is the position in
  `cyw43_cb_process_ethernet` of the thread that has the driver lock. A write of the packet
  and its hand-over are one step: nobody else sees the buffer in between.
- **BtHci**: `rxbuf` is the kind of packet in `cyw43_rxbuf`, which is `__noinit`: `BtInit` lets
  it hold anything. `spare` and `lent` are the host's buffers: one pool for advertising
  reports, one for the rest. `stale` is a ghost: what is being processed was not read in this call,
  because the result of the read is not looked at. `phase` is the host's use of the
  controller (external): it resets the controller, waits for the answer, and closes the
  driver only then. `fault` is the state after a NULL buffer or a NULL callback was used.
- **PowerSave**: the word is a number, its fields are taken out by the masks and shifts of
  the two status functions. `seen` is a ghost: the modes the radio had since a call's fetch.
- **BusTransfer**: `mem` is `spi_header` followed by `spid_buf`, in words; `looks` is
  `f2_ready_attempts`. Words carry the tag of their call, which alternates, so that a word
  from the call before is seen. `picowi` says which of the two files is compiled in and
  `reorder` is `do_ridiculous_byte_reordering`. The two differ in what a transfer does:
  Zephyr's may fail, and a failed read may have left any part of its answer behind; PicoWi's
  cannot, clears its buffer first, receives one word more than asked for, and until the
  first block read puts the words of each pair in reverse order (`Lands`). A register call
  has a buffer of its own, and what it returns is the word at `ValuePlace`; the surplus
  word of PicoWi lies behind that buffer and is not followed further. Of
  the status word only the low byte matters, and a failed look gives `256 - e`, the low byte
  of the negative error. `moved`, `tag` and `said` are ghosts; the locals of a call are
  reset when it ends. The PicoWi file defines no `cyw43_spi_irq_enable`, which `drv.c:927`
  calls; its transfers are modelled as they are written.
- **PioTransfer**: `txf` and `rxf` are the FIFOs, `sm` is the address the state machine is at,
  an octet at a time: one step shifts eight bits. `dir` is the direction of the one data pin,
  `cs` the chip select. `heard` and `told` are ghosts: what the radio has taken and given.
  `cpu` is the processor's place in `cyw43_spi_transfer`, `pio_spi_write` or
  `pio_spi_read`; `Pieces` are the calls of the last, two for each pair of words while
  PicoWi reorders. An octet that is shifted while the pin points the other way is `Noise`.

## 3. The runs

| Run | What it shows | Bounds, and why they are enough |
|---|---|---|
| `driver_lock` | bookkeeping invariant (with exclusion), refinement of `RecursiveLock`, a blocked thread gets the mutex | three threads, so that two can compete for what a third releases; nesting three deep, so that a count can go wrong in the middle |
| `host_wake` | transfers undisturbed, armed at rest, wake-ups served | two bus users and the poll thread; the semaphore's limit is 2 instead of 10: saturation is reached, and the code does not depend on the number |
| `request_work` | last run served the newest call untorn, refinement of `ConflatingMailbox` with its fairness and of `ScanRequest`, every call served | two callers, three calls, the codes with three, one and no parameter stores; three calls let one overtake a run and another its re-run |
| `wifi_control` | mode separation for serial callers, interface bit, DHCP server (in `IndInv`), truthful answers, answers and return of the queue | two callers, all four builds; two joins of two polls instead of five of eight: first, last and in-between attempts all occur |
| `dhcp_roles` | **violation**: the DHCP client on the access point's interface | one caller |
| `scan_flow` | callback installed, "no more" true (in `ScanIndInv`), newest caller told, no overlapping scans, service ends | wait of three looks instead of fifty, four calls |
| `radio_traffic` | both sides' invariants, frames whole, callback installed; reception of either kind and both send functions return, save for the states of `Stuck` | one sender, the stack's own thread, the poll thread, the Bluetooth host; two network buffers, so that the stack can hold them all, and one in each Bluetooth pool, so that each is empty as often as full |
| `power_save` | status of this call, wake periods as built | two readers; five builds: defaults, `app/prj.conf`, all fields largest, all zero, PM2 without DTIM |
| `status_documented` | **violation**: `pm_status` reports another sleep return time and another wake-up mode than the Kconfig file documents | one reader; the default build and the one of `app/prj.conf` |
| `bus_transfer` | refinement of `RadioBus`, writes return | both back ends; blocks of one and two words, so that a shorter follows a longer one; response delay of two words instead of four; two looks instead of a thousand; the errors EIO and ETIMEDOUT, one of which looks like a ready radio |
| `fifo_wait` | **violation**: the wait for the FIFO ends otherwise than the radio has said | blocks of one word, three looks, the same errors |
| `pio_transfer` | where every octet is, one driver of the pin, exchange whole, every step counts, transfers return | FIFOs of four entries as in the hardware; writes of 8 and 12 octets, so that one overfills the FIFO, and register and block reads with and without response delay, in either order |

Every passing run also checks `IndInv`, the module's inductive invariant with its types
(`TrafficInv` in `radio_traffic`, `ScanIndInv` in `scan_flow`). Three properties have no
line of their own in a run, because they are a conjunct or a consequence of one that has:
`MutualExclusion` (of `DriverLock`'s `IndInv` and of the refinement), `NoServerWithoutAp` and `NoMoreMeansNoMore`;
each has its theorem.

`MaxCalls` and `MaxScans` (RequestWork, ScanFlow), `MaxDepth`, `MaxJoin`, `MaxPoll`, `MaxWait`, `SemLimit`,
`Pool`, `BtPool`, `Pad`, `Room`, `MaxLooks` and `Depth` are the bounds. The first two bound what a behaviour may contain, so the system
comes to rest there and deadlock is not checked in these two runs. Nor is it in `radio_traffic`,
where the code really comes to rest: in the states of `Stuck`, the poll thread has the lock and no one else goes on.
The others are limits of the code itself (or of its configuration), at smaller values.

### Findings

1. `DhcpClientOnlyInStaMode`. `enable_ap` (`drv.c` 278-385) starts the DHCP server without
   stopping the client that a successful connect restarted (245). If the link is lost in
   between, `mgmt_ap_enable` lets the request pass and both run on one interface.
   `Kconfig.rpi_pico_w:39,47` describe the client as belonging to station mode.
2. `StatusAsDocumented`, both halves in the last state of the run's trace.
   *The wake-up mode.* `pm_status` masks the word with `0x00000ff0` before shifting by 16
   (`drv.c:790`), so the DTIM interval is always zero and `wakeup_mode` never
   `WIFI_PS_WAKEUP_MODE_DTIM`. `Kconfig.rpi_pico_w:99` says the wake interval is measured
   in DTIMs unless that setting is zero, and its default is 1. The listen interval and
   association fields (789, 791) have the same mask; nothing uses them. `iface_status`
   has the right mask (579).
   *The sleep return time.* `Kconfig.rpi_pico_w:81` gives it as "0-255 x 10ms", but the
   driver hands the number to `cyw43_pm_value` as milliseconds (749, 764; at start 1027), and
   `pm_status` reports what the radio was given (796): 200 ms in the default build where
   the text says 2000, 20 ms in the build of `app/prj.conf:78` where it says 200. The option's
   name ends in `_MS`, so the text may be what is wrong. No passing property takes a
   side: the unit is left to this run.
3. `WaitEndsAsSaid`, both halves. `_cyw43_read_reg` returns a failed transfer's negative error as the
   register's value (`cyw43_bus_pio_spi.c:330`), and the wait for the FIFO (449) tests a bit
   of it: -EIO has that bit set. The comment at 445 is "Wait for FIFO to be ready to accept
   data"; the payload goes out although the radio has said nothing. And the wait counts an
   attempt before it looks (447), so a radio that is ready at the last attempt leaves the
   counter at zero, and the test after the loop (456) reports "F2 not ready". The PicoWi
   file has the second half (357, 366), its transfers being unable to fail.

Two kinds of state that no document speaks of are reachable in `RadioTraffic` and named by `Stuck`: an advertising
report that meets an empty pool is copied through NULL (`zephyr_cyw43_bt_hci_drv.c:140`; likewise
a packet that is processed again, unread, may meet a `recv` that close has cleared, 141), and
the poll thread waits with `K_FOREVER` and the driver lock for a buffer (112) while the
Bluetooth host's thread, which has them, waits for that lock to send. They are no findings but the
exceptions of `ProcessReturns` and `SendReturns`, which show that nothing else stops
these calls.

### Fairness

- Threads inside a function are scheduled (weak fairness of their steps), and the work
  queue thread runs while an item is queued. Nothing is assumed of callers, senders or the
  radio: they may stop for ever, or the radio may refuse every join.
- A section under the lock ends, and a waiter gets the lock when it is given up again and
  again: strong fairness of the unlocking steps and of the waiting thread's lock. The mutex
  is a Zephyr `k_mutex`, which is handed to a waiter at unlock; the poll thread has the
  highest cooperative priority of the driver. In `DriverLock` only *some* waiter is
  promised the lock.
- In `HostWake` the level of a held host-wake line fires once the interrupt is armed. The
  five second timeout gets **no** fairness: the property is that it is not needed.
- In `RadioTraffic` the wait of a hundred milliseconds ends. The network stack owes no buffer
  back, which is what makes the wait dangerous. The Bluetooth host's thread gives back what
  it was given unless it is sending; the wait without a timeout needs that much.
- In `PioTransfer` the processor runs on inside a transfer and the state machine on its clock.
- In `BusTransfer` a write that was called runs on; the radio need never be ready and need
  never answer without error.
- In `WifiControl` and `ScanFlow` only the caller between check and submit and the work
  queue are fair; the bounds on retries and looks do the rest. In `RequestWork`, `Finish`
  is strongly fair, because a further join attempt disables it for a while: that services end is what those two modules show.

## 4. The proofs

For every value of the constants that meets the named assumptions (threads are distinct
from the "nobody" value, limits are numbers; the settings are within the Kconfig ranges):

- **DriverLockProofs**. `Inductive` proves types and `LockInv`: the mutex owner is the
  thread that is past `k_mutex_lock`, the owner word names a thread exactly between its
  store and its clear, the depth is the unlocks still to come. The point of the invariant
  is that the unlocked read can only find the reader's own name if the reader holds the
  lock. `LockExcludes` follows; `Implements` shows each step is a step of `RecursiveLock`
  or a stutter.
- **HostWakeProofs**. `ArmedAtRest` alone is not inductive. `HostWakeInv` adds who may be
  where (`LockUse`), that the first write of a transfer lasts until its last three
  (`Masked`), and that with no wake-up pending each of these three finds what the one
  before it wrote (`Rearming`): only the handler could have undone it, and the handler
  gives the semaphore. `TransfersExclusive` and `NoWakeUpLeftToTimeout` follow.
- **RequestWorkProofs**. The invariant says that the newest call's stores are done or still
  on its caller's list, and that without an outstanding submit, with the item not queued,
  the run that is going on has read what the newest call stored. `NewestServed` follows;
  `Implements` is the refinement of the mailbox's safety part. `ImplementsScans` is the
  refinement of `ScanRequest`: the mapping takes a scan for "stored" until its submit and
  for "queued" until the run that is its own has read it, and a request that another
  replaces, or that the handler reads before the submit, is a step of the interface too. It
  needs `Begun` in the invariant: the handler never runs for a request that nobody stored.
- **WifiControlProofs**. `ControlInv` ties each step to its service (`AlongService`) and
  says of a serial history that at most one call is cleared, pending or served and that
  what its check saw still holds (`SerialCalls`). `SerialModesApart`, `ApBitTruthful` and
  `ServerNeedsAp` follow. For the truth of the answers `IndInv` adds that the attempts
  left agree with the step (`Attempts`) and that the events raised so far agree with the
  service and the interface (`Answers`); `AnswersTrue` follows.
- **RequestWorkProofs, scan service**. `ScanInv`: an active scan outside the wait has
  overrun, the start has seen no active scan, and the newest caller is waiting, served,
  excused or told. `NoOverlappingScans` is an action property from the same invariant.
  `ScansAsDelivered` shows that the service takes requests as `ScanRequest` allows, which
  with `ImplementsScans` ties the two models together. `ScanFlow` has names of its own
  (`ScanSpec`, `scanVars`, ...), so that this module can extend both.
- **RadioTrafficProofs**. Each side has its own inductive invariant. `PathInv`: the transmit
  lock covers the whole send, the driver lock its library part and every frame taken in.
  `BtInv`: the poll thread is in `hci_process` only with the lock, what it has read belongs to
  an open driver, and `recv` is there while the host uses the controller. `EthernetKept`
  and `BluetoothKept` show that the composed system is a behaviour of each side with the
  other's threads as strangers on the lock, so that what is proved of a side holds of the
  whole (`TrafficSafe`, `CallbackThere`) without another induction over all steps.
- **PowerSaveProofs**. The lemma `Fields` shows that packing settings within their Kconfig
  ranges and taking the fields out again gives them back; `FetchInv` says the shared `pm_in` always holds a
  word whose mode the radio had since the fetch of each call under way. `StatusCurrent`
  and `PeriodsKept` follow. It is about the two periods `iface_status` gives: the sleep return time comes back
  in whole 10 ms only (and see finding 2), and the association interval is never read back.
- **BusTransferProofs**. Lemmas say what `Put` leaves in memory and what `Words` takes from
  it, and that the place of the command makes up for the response delay. `PayloadKept`, with
  the types, is inductive: nothing in the wait touches a payload built in `spid_buf`.
  `Implements` is the refinement of `RadioBus`, for both back ends: `Receipts` says what either
  receives and `RegisterValue` that the value is where the caller looks whatever the order. Blocks have the symbolic length `n`: the
  equality of sequences is shown word by word, without induction.
- **PioTransferProofs**. Neither property of a transfer is inductive. `IndInv` is, in four
  parts: chip select (`Selected`), what each place of the processor says of the
  state machine and the pin (`Phases`), and where every octet is: on the way out, what the radio has
  heard, the octet being shifted and the transmit FIFO are, in this order, the octets put so
  far (`Outgoing`); on the way in, buffer, receive FIFO and state machine are the octets
  given so far, and the state machine's counter is what is still to come of the call
  under way (`Incoming`). The buffer is described by the function `Filled`, which says
  which octet belongs at each place, so that reordering in pairs needs no induction.
  `OneDriver` and `Exchange` follow for every depth of the FIFOs and every length of
  answer; `TransferAsTaken` instantiates `BusTransfer` in its PicoWi build and shows that every word
  of the buffer is the one that `Lands` there names, so that the step of the one module is the
  transfer of the other. `NoDeadlyWait` says that processor and state machine never wait for each other.
  `Variant` is the part of termination that can be proved here: `StepsLeft` is a natural number
  that every step of either side lessens.

For every module with proofs a theorem shows `Spec => []IndInv`, `ScanSpec => []ScanIndInv` (`Inductive`, `TypesAndInvariant` or
`TypeCorrect`) for the formula that the run checks.

Only model-checked: all liveness properties and the refinement's fairness part (the prover
does not handle liveness under fairness or ENABLED). For `TransferReturns` the two safety
halves are proved, `NoDeadlyWait` and `Variant`; that a side which can step does is fairness, and
left to the run. No module
uses recursion, so nothing is left out for that reason.

## 5. What is not modelled

- *Data*: contents of frames, scan results and SSIDs, statistics counters, log output.
- *Initialisation failures*: the code ignores every return value of bring-up; only the
  states it leaves and its race with the poll thread (`HostWake`) are modelled.
- *A transfer without any buffer* (`cyw43_bus_pio_spi.c:178-180`), which would return with the
  interrupt off: no caller passes two null pointers.
- *The bits on the bus*, power-up (pins, delays, and the swapped words of the first two
  registers), and the last written window that the library keeps for its own recovery.
- *Of the PicoWi back end*: pin set-up; that it writes to the FIFO of state machine 0
  (`picowi_pio.c:42`) whichever it has claimed; and what lies behind the buffer of a backplane register read
  (`cyw43_bus_picowi_pio_spi.c:168`), where the surplus word lands after the first block read.
- *The interface a frame is sent on* (`drv.c:477`) and what becomes of a frame for one that has gone.
- *Header lengths of Bluetooth packets*: that an ISO packet or event is not compared with its buffer's room.
- *GPIO port*: a loop over three pins without state of its own. `port_get_raw` tests a value that a
  failed read never wrote, and `port_set_masked_raw` ends in -ENOTSUP at the first pin
  the radio does not have; both are seen by reading or by a unit test, not by an interleaving.
- *LED driver, shell, sample application, device tree*: one call each, or no behaviour.
- *The k_sleep of the library's ioctl wait* while it has the lock: a delay, no step.

## 6. Plan

Done, in this order, most important first: `DriverLock`, `HostWake`, `RequestWork`,
`WifiControl`, `ScanFlow`, `EthernetPath`, `PowerSave`, `BusTransfer`, `BtHci`,
`RadioTraffic`, and `PioTransfer`, all with their proofs.

Next:

1. `DriverSystem`: `RequestWork`, `WifiControl` and `ScanFlow` composed over one mailbox
   and one work queue, in the manner of `RadioTraffic`, so that a long service delays the others.
2. Power-up: the polls of the test register and the change of word order, before `BusTransfer`'s
   initial state.
