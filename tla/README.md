# TLA+ model of flexit-cs60-control

This directory holds TLA+ specifications of the firmware in `src/src`, the TLC
configurations that check them on small instances, and TLAPS proofs of the
properties that matter most for every value of the constants. `PROJECT.json`
lists the components, runs, mutants, findings, hazards and theorems, and maps
every definition to the source lines it stands for.

    tlc -workers 2 -config slave_cycle.cfg MCFlexitSlave     # check one run
    tlapm FlexitSlaveProofs.tla                              # check one proof module

## The system

An nRF52840 board sits between a Flexit CS60 ventilation unit (RS485, a Modbus
dialect in which the CS60 is the master), a Zigbee network and a Bluetooth
maintenance client.

| Part | State | Operations | Talks to |
|---|---|---|---|
| RS485 UART, `rs485_uart.c` | DMA buffers, ring buffer, DE pin, completion semaphore, `tx_mutex` | `rs485_uart_send`, interrupt callback, drain work | feeds the mirror, the slave and the Bluetooth stream; sends for the slave |
| Panel mirror, `panel_mirror.c` | 256-byte accumulator, last FC10 block, FC06 counters | feed, snapshot, link state | read by bridge, main loop, Zigbee tick, Bluetooth |
| Modbus slave, `flexit_slave.c` | 64-byte accumulator, 16 coils and registers, pending commands, counters | feed, `queue_mode`, `queue_setpoint`, snapshot | answers through the UART; commands from Zigbee and Bluetooth |
| Flexit bridge, `flexit_bridge.c` | frame count of the last push | `bridge_work` every 2 s, write handlers | mirror to Zigbee latches, Zigbee writes to the slave |
| Zigbee attributes, `zigbee_ep.c` | latches under `pending_lock`, attributes, staleness, setpoint hold | setters, `publish_tick` every 2 s, client writes | bridge, mirror (link state) |
| Zigbee life, `zigbee_ep.c` | `net_state`, reset flag, reboot work, DFU suspension flag and watchdog | signal handler, `zbreset`, MCUmgr callback | ZBOSS, system workqueue, main loop (LED) |
| BLE transport, `ble_transport.c` | connection, stream flag, advertising, bond work | NUS commands, connect and disconnect | slave, mirror, factory reset |
| Main loop, `main.c` | LED state | start-up order, LEDs, advertising retry | all of the above |
| Maintenance client, `tools/ble-client` | step of the command, upload offset | stream, unpair, flash, confirm, reboot | device over Bluetooth, MCUmgr, MCUboot |
| Host pairing, `tools/ble-client/pairing_*.go` | the host's bond (kept by BlueZ) | answer the passkey, remove the bond | maintenance client |
| Other tools | none that lasts | log decoder, ZHA quirk | |

Threads: interrupt context, the system workqueue (drain, bridge, reboot, DFU
watchdog), ZBOSS, MCUmgr, Bluetooth receive and command threads, and `main`.
The hard behaviours are the races between them: commands queued while an
exchange is under way, an aborted transfer that ends late, setters against the
publish tick, upload events against the watchdog, resets against suspension,
a thread suspended with a mutex that others need, and two sides of a bond that
forget each other at different times. Outside the board: lost and damaged frames, silence of the CS60,
power loss. `PROJECT.json` lists each hazard at its line with the property that
covers it, or why none does yet.

What makes each part correct:

* UART: every byte is delivered or counted, no wakeup is lost, the bus is
  released on every path, every send returns, and the driver never gets the
  buffer it is filling.
* Mirror and slave feeds: a good frame is found whatever surrounds it, once and in
  order. It is decoded by the chunk that completes it, except that an FC06 behind
  the opening of an FC10 that was cut short waits until 179 bytes have come in
  (`panel_mirror.c:183-200`). The FC06 counters keep the registers written last.
* Slave: a raised coil advertises the latest command, the CS60 only ever adopts
  queued values, a mode stays raised until an FC65 names the mode in use, and every
  command drains.
* Bridge and attributes: what the CS60 broadcast is what clients see within two
  periods, silence becomes "unknown", no command out of range is queued, and
  setpoint and fan mode converge.
* Bluetooth: the device can always be found again, the one connection is not held
  by a peer without authority, the stream goes to who asked for it, and after an
  unpairing neither side is left with keys the other has forgotten.
* Update: an image that does not come up is never kept for good.
* Zigbee life: one publish tick, a bounded pairing state, a reset that ends in
  a reboot, and a suspension that always has someone to end it.

## The modules

**CommandMailbox** is the abstract specification of the command path: what
`flexit_slave_queue_mode` and `flexit_slave_queue_setpoint` promise their callers,
with one slot per command and no frames. **FlexitSlave** implements it: the
property `IsMailbox` is CommandMailbox under the mapping of the raised coils to
`offered` and the register tables to `value`.

**FlexitSlave** models `flexit_slave.c` with the CS60 as its environment. The
tables, pending commands and counters are variables under the source's names; a
section under `state_mutex` is one action (`QueueMode`, `QueueSetpoint`,
`HandleFc01` to `HandleFc65`, `RejectFrame`, `CountTxError`). The two queue
functions are called by the Zigbee bridge with values it has checked and by the
Bluetooth commands `mode` and `setpoint` (`NusMode`, `NusSetpoint`), which narrow
to 16 bits and clamp as `ble_transport.c` does. An answer is built in one step and
sent in a later one (`SendDone` or `SendFails`), because the code releases the
mutex in between. The master polls, reads, acknowledges, gives up, or broadcasts
another panel's command, and the bus loses frames until `Calm`. Bits, bytes and
CRC are abstracted.

**FrameScanner** models the accumulator and matcher that `panel_mirror_feed` and
`flexit_slave_feed` share: append, drop from the front on overflow, then decode,
reject by one byte, slip or return. **DrainFeeds** instantiates it for both and
adds the drain worker that hands each chunk first to the mirror, then to the
slave. A byte is a frame's serial number and a position; a payload may contain
the opening of a short frame, and a frame may be cut short by any part of it. What
a handler does with a decoded request or FC10 frame is left to FlexitSlave and
ZigbeeBridge, which start from it.

**PanelMirror** is the table of FC06 counters: a few slots that hold the last
value of each register, reused least recently written first. DrainFeeds extends
it, so that each decoded FC06 frame updates the table in the same step.

**Rs485Uart** models `rs485_uart.c`: `rs485_uart_send` line by line with an
interrupt possible between any two steps, each event of `uart_async_cb`, the
ring, and the drain work item. The UARTE is external: it refuses a second
transfer, reports an aborted one late or as done, and may never report.

**HalfDuplexLine** is the abstract specification of `rs485_uart_send`: callers take
turns, the line is driven only by the one whose turn it is, and no turn ends
before the line listens again. **Rs485Uart** implements it: the property
`IsHalfDuplex` is HalfDuplexLine with `PlaceOf(pc)` for the place of each caller and
`de` for the driver pin. Whether the UARTE ends a transfer, aborts it or never
reports it does not show there; that is the point of it.

**ZigbeeBridge** composes `flexit_bridge.c` with the latches of `zigbee_ep.c`.
Every setter is a step; the tick takes the latches in one step and writes the
attributes in the next, as the code does on either side of the unlock. Four
channels stand for all: a temperature, one plain sensor, setpoint and mode. Time
advances in publish periods, and never past due work. The drain work, which feeds
the mirror, and `bridge_work` are items of one workqueue thread: a broadcast is
decoded before or after a run of the bridge, never between two of its setters,
while ticks and client writes fall anywhere. The command exchange is
reduced to its outcomes (adopted or lost), which FlexitSlave details.

**ZigbeeLifecycle** models the rest of `zigbee_ep.c`: signals, the join window,
`zbreset` with its fallback reboot, and the suspension of ZBOSS during an upload
with its watchdog. Atomics and kernel calls are single steps, so that the flag
and the suspension are separate. A restart keeps only the NVRAM. One flag,
`holding`, stands for the mutexes ZBOSS shares with the workqueue (`pending_lock`
and those of mirror and slave): the worker that needs one blocks, and a ZBOSS
that is suspended while it holds one cannot give it back. `Preempted` says whether
the MCUmgr thread can get the CPU at such a moment.

**BleTransport** models `ble_transport.c` and the advertising retry of the main
loop. The callbacks of the Bluetooth host are one process, the workqueue and the
main loop two more; the test of `current_conn` and the start of advertising are
separate steps in the main loop, which can be preempted there, and one step on the
cooperative workqueue. `bt_unpair` and the disconnection after it are two steps.
The link, its security and the refusal of `bt_le_adv_start` are external. The
commands that act on other parts are actions of FlexitSlave (`NusMode`,
`NusSetpoint`) and ZigbeeLifecycle (`RequestReset`).

**BleClient** extends BleTransport, shares its link, and models the client's
commands `stream`, `unpair`, `flash`, `confirm` and `reboot` by the step a client
process is at. Any step can be the last: `must` exits on the first error. MCUmgr
and MCUboot are external: slots, the pending mark, the upload that can be resumed,
and the swap at a restart, as `smp.go` and `main.go` rely on them. An image on
which nobody can connect stands for a failed update. The host's bond is kept by
BlueZ and removed by `unpair` once the device has acknowledged (`removeBond`). A
connection for which only one side has keys never reaches L3 (`main.go:562-564`),
and pairing anew takes longer than the 300 ms for which the device defers its own
removal. A restart within these 300 ms, or a client that ends between the
acknowledgement and its own removal, leaves one side bonded; `oneSided` records
that, and `unpair --host-only` repairs it where the device has no bond.

The proofs about M are in the module MProofs, each of which EXTENDS the module it
is about; those of DrainFeeds are built from the lemmas of FrameScannerProofs,
instantiated for each consumer.

## The runs

| Run | What it asks | Distinct states |
|---|---|---|
| `slave_cycle` | tables, queues, master and losses interleaved | 5.0 million |
| `slave_drains` | every raised coil goes down once frames get through; the slave implements CommandMailbox | 75 000 |
| `slave_mode_race` | violation: a mode queued before the previous one's acknowledgement is lost | |
| `slave_setpoint_lost` | violation: the setpoint is withdrawn although its answer failed | |
| `drain_feeds` | both accumulators and the FC06 table over one stream cut anywhere | 1.56 million |
| `uart` | two senders, interrupts, drain worker; the sends implement HalfDuplexLine | 210 000 |
| `uart_stale_completion` | violation: a late completion is taken for the next frame's | |
| `bridge` | broadcasts, silence, setters, tick and writes with time | 496 000 |
| `bridge_setpoint_hold` | violation: an earlier latched reading overwrites the written setpoint | |
| `lifecycle` | joins, resets, uploads, watchdog, mutexes and restarts | 149 000 |
| `lifecycle_stays_suspended` | violation: watchdog between flag and suspension | |
| `client` | clients, updates, restarts, advertising and bonds interleaved | 433 000 |

Each property of a passing run has a mutant: a variant of one definition, kept
next to it under a "Variant" comment, that a plausible bug would produce and
that violates the property. The five violations are disagreements between the
code and its own comments; `PROJECT.json` quotes them under `findings`.

A sixth disagreement shows in a property that holds. `flexit_slave.h:31-33` says of
mode and setpoint "For both we set the reg, raise the coil, and self-clear the coil
once the CS60's FC03 read has been served", and `flexit_slave.c:232-234` calls the
setpoint's withdrawal by its read the "same shape as CMD_MODE". The code lowers the
mode's coil only on an FC65 for register 0, as `flexit_slave.h:10-14` and `:97-100`
say: the header contradicts itself. `ModeHeldUntilAcked`, and the mode's half of
`IsMailbox`, state what the code does and these two passages promise; they are
therefore the opposite of what `:31-33` says of the mode. The setpoint does follow
`:31-33`, up to the violation of `slave_setpoint_lost`. The same header also says both
that the CS60 acknowledges the setpoint with an FC65 (`:33-34`) and that it does not
(`:106`); the CS60 of the model may do either.

### Bounds

* `slave_cycle`: two queue calls, from the bridge (mode 2, 20.0 °C) or from
  Bluetooth (mode 65537, which is narrowed to 1, mode 4, which is refused, and
  35.0 °C, which is clamped), both spans of the CS60, valid and invalid reads and
  probes, acknowledgements for either slot and for a register outside the tables;
  counters modulo 2. Two calls are what a race of a command with its successor
  takes. `slave_drains` has the same calls, spans, probes and acknowledgements; it
  keeps only the one-register reads of the two commands and drops the counters.
* `drain_feeds`: twelve bytes, FC10 scaled to 7 bytes with a header of 3 and short
  frames to 3, accumulators of 9 and 4, chunks up to 4. The ratios keep what matters: a
  pending FC10 plus a chunk overflows the mirror, and one chunk can fill the
  slave's accumulator. An FC10 may be cut by one byte or down to its header, so that
  a whole FC06 after it is held up, and the bytes suffice for the candidate to be
  rejected and the FC06 to be decoded. Three registers, 0 among them, compete for two slots.
* `uart`: ring of 3, chunk of 2, bursts up to 2, five bytes, two frames: the ring
  overflows, the worker loops more than once, and a second frame meets the end
  of the first.
* `bridge`: period 1, hold 2, stale window 3, link window 2, one client write and
  one change by the CS60 itself, between two states that differ in temperature,
  plain reading and mode; broadcasts are unbounded. A written fan mode above High, a mode
  of the CS60 above 3, which FanMode cannot show, and a setpoint out of range are
  included.
* `lifecycle`: three upload events, two resets, one loss, one restart, with
  `Preempted`: an upload abandoned and taken up again, with a reset on either side.
  `lifecycle_stays_suspended` allows one event and one loss more and assumes that
  ZBOSS is never preempted inside a section, so that the mutexes play no part in
  the violation it shows.
* `client`: a good and a bad image, two chunks, three commands, two restarts, one
  refused start of advertising: a flash, the test boot, its rollback and the
  confirmation that comes too late, with an upload interrupted and resumed, and an
  unpairing followed by a new pairing. Connections of peers that never get
  authority are unbounded.

`CHECK_DEADLOCK FALSE` stands where the bounded environment may run out of
events: drained bus, last frame sent, last event used.

### Fairness

* FlexitSlave: losses stop at some point (`Calm`); from then on the CS60 waits for an
  answer under way before it speaks again, and handler, sender and the CS60's steps
  are weakly fair. Each poll span, and each read of a command
  it saw, is strongly fair, because the CS60 alternates its spans and reads every
  raised coil (`flexit-cs60-communication.md`, sections 2 and 5).
* Rs485Uart: senders and the drain worker run; `k_sem_take` has a 100 ms bound.
  The mutex is fair because its holder always releases it and the calls are
  finitely many, as `k_mutex` hands over by priority. Nothing is assumed of
  the UARTE.
* DrainFeeds: the workqueue runs.
* ZigbeeBridge: due work runs, time passes, the CS60 keeps broadcasting and every
  exchange ends. The safety properties do not need it.
* BleClient: the Bluetooth host, the workqueue and the main loop run, which is what
  the kernel's scheduler gives them. Nothing is assumed of clients, of the peer's
  security procedure or of the link. Refused starts of advertising are finitely many.
* ZigbeeLifecycle: runnable threads run and timers expire. ZBOSS, the MCUmgr
  thread and the items of the workqueue are strongly fair: each is interrupted by
  suspension or by a blocked worker and goes on with its queue when that ends. A
  section under a mutex ends if its thread runs, and the mutex is handed to the
  waiter, as `k_mutex_unlock` does. Nothing is assumed of the signals the stack
  raises or of clients.

## What is proved

The theorems are of four kinds: invariants of the runs, refinements, the border of
each finding, and the safety half of the liveness properties.

### Invariants

* `FlexitSlaveProofs`: type correctness, `CoilMeansLatest`, `AdoptedWasQueued`,
  `ModeHeldUntilAcked` and `AnsweredOrCounted`, for all arguments, polls, reads,
  acknowledgements and bounds. `CoilMeansLatest` is inductive with the types. The
  value the CS60 adopts needs a chain through the frames: the answer in the worker's
  hands and the one on the wire carry, for a command the master is fetching, a value
  queued for it, because a foreign register is only ever stamped through an
  acknowledgement that lowers the coil. `AnsweredOrCounted` compares counters that
  wrap, so it rests on a few lemmas about remainders, proved there from the
  definition of division.
* `PanelMirrorProofs`: `CountersAreLru`, for any number of slots and registers. It is
  inductive once no slot is known to have been written later than now, so that the
  one being written is the newest.
* `FrameScannerProofs` and `DrainFeedsProofs`: types, `OnceInOrder`,
  `NothingMissed` and `DecodedWhenComplete` of both consumers, for any frames and
  sizes that fit. The invariant says where the bytes are: collected, in the
  chunk or in line, always in the order in which the bus sent them, and every byte
  of a frame already decoded lies before them. For `NothingMissed` it adds that a sound
  frame is decoded, overrun, or there byte by byte. The step that matters is that its first byte
  at the front of an accumulator is neither slipped over nor rejected: a whole frame
  at the front is collected without a gap, its header matches no other kind, and
  its CRC is right. `DecodedWhenComplete` then follows from what is left between
  chunks: the front is undecided (`Settled`), and if it were undecided about a frame
  no longer than the one that waits whole behind it, there would be bytes enough to
  decide. `OneChoice` adds that the front is never both a candidate and
  undecided, nor a candidate of two kinds: the order of the tests in the two
  matchers does not matter.
* `Rs485UartProofs`: type correctness, `BusReleased`, `NoOverlappingDma`,
  `BytesConserved` and `DrainScheduled`, for any set of senders and any sizes.
  `BusReleased` needs the holder of `tx_mutex` tied to its program counter,
  `NoOverlappingDma` the index to hand out tied to the buffer in use.
* `ZigbeeBridgeProofs`: types and the range of queued commands, `SilenceShown`, `LinkLossShown`, `NoLostLatch` and
  `BroadcastShown`, for any windows with `POLL <= STALE`, which the firmware's 2 s and
  60 s satisfy. These are statements about lateness, and the invariant is a
  timetable: how old the mirror's frame can be while it is unpushed, latched, taken
  by the tick, and not yet shown, given the two countdowns.
* `ZigbeeLifecycleProofs`: types, `WatchdogCovers`, `JoiningHasDeadline` and
  `OnePublishTick`, for any bounds. Each is inductive by itself, the last once
  the number of ticks is known to be 0 or 1.
* `BleClientProofs`: types, `StreamedToAsker`, `BadImageRollsBack` and `BondsAgree`,
  for any images, chunk count and bounds. `BadImageRollsBack` rests on one
  observation: a connected client proves that the running image is a good one. So
  the image that a test request leaves to fall back on is good, it stays in slot 1
  until the update is confirmed, and only the image a client is talking to is ever
  confirmed. `BondsAgree` needs that keys are only ever added on both sides at once,
  and that whoever removes its own has the other's removal under way.

### Refinements

* `ImplementsMailbox`: FlexitSlave implements CommandMailbox, for all arguments.
* `ImplementsLine`: Rs485Uart implements HalfDuplexLine, for any senders. Each step
  of a send is a step of its turn or a stutter; `Enter` needs that a caller past
  the lock holds the mutex, `Leave` that DE is down or lowered in that step.
* `FeedsTable`: the counters fed by decoded frames in DrainFeeds are those of
  PanelMirror.

### Borders of the findings

A violating run shows one way in which a promise fails. The theorems below show that
there is no other. Each has the form `Spec /\ [][C]_vars => []P`: P is the promise,
and C forbids one kind of step. It is an assumption about the callers or the
timing, not about the code, and the behaviours of the run are those that break it.

| Promise | Holds as long as | Theorem |
|---|---|---|
| `CompletionIsOwn` | no `k_sem_reset` finds an aborted transfer still running | `CompletionIsOwnUnlessAborting` |
| `QueuedModeIsDelivered` | no mode is queued while the answer or the acknowledgement of an earlier one is under way; losses do not matter | `ModeDeliveredUnlessRaced` |
| `UnservedSetpointStaysRaised` | setpoints are queued when the bus loses nothing and no earlier read is unfinished; then the one read delivers | `SetpointServedWhenCalm` |
| `WriteNotOverwritten` | no reading is latched and unpublished at the time of the write | `WriteStandsUnlessLatched` |
| `ZbossResumes` (its safety half: someone is left to resume ZBOSS) | the watchdog work never runs between flag and suspension | `ResumedUnlessOvertaken` |

The two about FlexitSlave assume that the CS60 broadcasts no command of another panel
for the same register (`Unopposed`), as the two violating runs do: such a command
overrules ours. Two more theorems of this form concern what no run refutes. `SentWholeUnlessTimedOut`:
as long as no send times out, the UARTE only transmits the frame of a caller that
still waits, with DE up, so the time-out is all there is to the hazard at
`rs485_uart.c:193`. `NeverStuckUnlessPreempted`: with `Preempted` false, the
workqueue is never blocked by a ZBOSS that was suspended with its mutex, so that the
exception in `ResetEnds` and `WorkqueueFreed` (below) is due to preemption alone.

### Safety halves of liveness

The prover reaches no fairness, but each of these liveness properties rests on a
safety fact that a change of the code could break, and that fact is proved.

* `SendsAdvance` for `SendReturns`: in its turn a send takes at most six steps, on
  each of its paths; no other step moves it back; and a held mutex always has a
  holder with steps left.
* `FeedsShorten` for `FeedsReturn`: the steps left to feed a chunk are bounded by
  the sizes of the two accumulators, and each step lowers their number,
  whatever the bytes. The loops of the two feeds cannot spin.
* `ResetCoveredHolds` and `WipeEndsInRebootHolds` for `ResetEnds`: a pending reset has
  its command still at work or the fallback reboot armed, and a network wiped or
  about to be wiped has a reboot coming.
* `NoLinkIsForgotten` for `AdvertisingReturns`, `StaleSessionEnds` and `WeakLinkEnds`:
  without a link the main loop sees that it has to advertise, and a session whose
  keys are gone or a link that never reached L3 always has its disconnection
  outstanding.

### Assumptions, and what is only model-checked

The assumptions are the `ASSUME`s of the modules (argument ranges, positive
sizes, a drain worker that is not also a caller); TLC evaluates them on every run.

Only model-checked: the liveness properties (`CommandDrains`, `SendReturns`,
`FeedsReturn`, `SetpointConverges`, `FanModeConverges`, `ResetEnds`,
`WorkqueueFreed`, `AdvertisingReturns`, `WeakLinkEnds`, `StaleSessionEnds`), which
the prover does not reach; some of them have their safety halves above. Every
invariant of a passing run, and every refinement, is proved.

`ResetEnds` and `WorkqueueFreed` state an exception. The MCUmgr thread may suspend
ZBOSS inside a section under a mutex that bridge or drain work then waits for
(`zigbee_ep.c:1098`); as the watchdog and the reboot work share the workqueue with
the waiter, nothing on the board ends that (`Stuck`). In all other behaviours the
reset ends and the workqueue gets its mutex.

## What is not modelled

The LEDs, the text of the `state` line and of the client's output, the D-Bus agent
that answers the passkey (a library callback without state of its own), the
contents of the endpoint tables, the log decoder (an offline filter), the ZHA quirk
(declarations), build files. Within the modelled parts: CRC arithmetic and byte
packing, and a failing `uart_rx_enable` in the callback. One hazard has no
property: DE is lowered right after an asynchronous abort, and the caller's buffer
may be gone while the UARTE still reads it (`rs485_uart.c:193`). Buffer contents and
lifetimes are below the level of Rs485Uart, which does model the late end, and
`SentWholeUnlessTimedOut` bounds when it can happen.

One race is left out: `flexit_slave_init` runs after `rs485_uart_init` has started
reception (`main.c:46` and `:51`) and resets `accum_len` without a lock. The drain
worker would have to be inside `flexit_slave_feed` in the microseconds between the
two calls; a frame takes milliseconds to arrive.

Three behaviours met while reading are left to prose:

* The fallback reboot (`zigbee_ep.c:926`) may overtake a reset that cannot run
  because ZBOSS is suspended during an upload; the device reboots (`ResetEnds`) but
  its NVRAM may still hold the network.
* `ble_transport.c:257` says the `state` line "tops out around ~360" of the 495
  bytes that one notification carries. With every field at its widest it is longer:
  about 470 bytes soon after boot, and above 495 once uptimes and counters have
  grown for weeks.
* `mode 65537` over Bluetooth is narrowed to 16 bits and queues mode 1
  (`ble_transport.c:513`), while the acknowledgement echoes 65537.

## Plan

The modules above were built in this order: FlexitSlave with its runs and proofs;
FrameScanner and DrainFeeds; Rs485Uart; ZigbeeBridge; ZigbeeLifecycle; BleTransport
and BleClient; then PanelMirror inside DrainFeeds, CommandMailbox over FlexitSlave,
the mutexes of ZigbeeLifecycle, the host's bond, and the proofs of every invariant;
then HalfDuplexLine over Rs485Uart, the borders of the findings and the safety
halves of the liveness properties.

What could come next:

1. Compose ZigbeeBridge with CommandMailbox in place of its own reduced command
   exchange. The setpoint's withdrawal when served is then shared, at the price of
   the exchange's states times those of the clock.
2. Buffer lifetimes in Rs485Uart: the memory a transfer reads, for the hazard at
   `rs485_uart.c:193`.
3. The start-up order of `main.c` together with FrameScanner, if a handler ever
   becomes slow enough for the race to matter.
4. A proof about ZigbeeBridge that without client writes the setpoint and mode that
   clients read are those of the CS60 within two periods, as `BroadcastShown` says of
   the plain readings.
