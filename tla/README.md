# TLA+ models of the Funky's bootloader, radio driver and sketches

The Funky is an ATmega32U4 board with an RFM12B radio. Its repository holds the USB
bootloader (`src/caterina-lilypadusb/`), an interrupt-driven radio driver with power
management and a wake-up timer (`src/examples/RFM12b_watchdog/`), an older copy of that
driver, a helper library, and the sketches that use them (`src/examples/`). This directory
models the pieces in which the order of events decides: the bootloader, which programs flash
with interrupts running; the driver, which shares its state with an interrupt handler; the
acknowledged transmissions built on it; the log in dataflash, which must survive resets; and
the task scheduler on a clock that wraps.

## 1. Inventory

| Component | State | Operations | Hard behaviour |
|---|---|---|---|
| Bootloader: reset decision, loop, time-out (`Caterina.c:54-199`) | reset flags, boot key in RAM, `RunBootloader`, 16-bit `Timeout` | `main`, `SetupHardware`, `StartSketch`, `TIMER1_COMPA_vect` | key survives resets; `Timeout` is read and written byte by byte under an interrupt that increments it |
| Bootloader: AVR910 commands (`Caterina.c:205-697`) | `CurrAddress`, block locals, flash, page buffer, EEPROM | `CDC_Task`, `ReadWriteMemoryBlock` | SPM must follow SPMCSR within four cycles; RWW section busy after programming; EEPROM writes outlast their command |
| Bootloader: CDC endpoints (`Caterina.c:200-263, 389-435`) | endpoint banks, `USB_DeviceState` | `FetchNextCommandByte`, `WriteNextResponseByte`, control requests | cable pulled, bus reset or suspend inside a wait |
| LUFA (vendored) | device state | `USB_USBTask`, `USB_GEN_vect` | runs as an interrupt between any two instructions |
| Radio driver (`RF12mods.cpp`) | `rxstate`, `rxfill`, `rf12_buf`, `rfmstate`, `fixedLength`, `drssi`, `rf12_gotwakeup` | `rf12_initialize/restore/recvDone/canSend/sendStart/sendNow/sendWait/sleep/setWatchdog/watchdogFired/setFixedLength/getRSSI`, `rf12_interrupt` | unprotected read-modify-write of `rfmstate` against the interrupt; FIFO overrun and underrun; lengths from the air |
| Easy transmission (`RF12mods.cpp:940-1035`) | `ezPending`, `ezNextSend`, `ezSendBuf` | `rf12_easyInit/Poll/Send` | retries against lost or late acknowledgements, clock wrap |
| Encryption (`RF12mods.cpp:1037-1117`) | `crypter`, `rf12_seq` | `cryptFun`, `rf12_encrypt` | length change and padding in place |
| Older driver (`RF12x.cpp`) | as above without `rfmstate` | the same functions | same interrupt, different power handling |
| Gateway (`RFM12_to_Pi.ino`) | configuration in EEPROM, parser stack | `loop`, `handleInput` | restarts reception while it waits to acknowledge |
| Acknowledged senders (`door_sensor`, `flood_alarm`, `keypad_sender`, `pulse_count`) | retry counter | send, `waitForAck`, sleep | lost, duplicated and late acknowledgements |
| RF12demo and its dataflash log (`RF12demo.ino:176-534`) | ring of pages, `dfBuf`, `dfFill`, `dfLastPage` | `df_append`, `df_saveBuf`, `df_initialize`, `df_replay`, `df_erase`, `df_wipe` | the end of the log is found again from the pages alone; power loss between write and erase |
| Ports library (`Portsx.cpp`) | task table, countdown, `ms100` | `MilliTimer`, `Scheduler`, `Sleepy`, `InputParser` | 16-bit time that wraps; sleeps that are interrupted |
| Relay and heating controllers | relay state, schedules | `loop` | commands by radio against local time-outs |
| Sensor sketches; TCP/IP over RFM12B | none of their own worth modelling; vendored | | straight-line code over library calls; third-party code |

How they interact: the bootloader hands over to a sketch by jumping to address 0, and a
sketch returns to it by writing the boot key to RAM and letting the watchdog reset the chip.
A sketch calls the driver; the radio's nIRQ line calls `rf12_interrupt`, which shares
`rxstate`, `rxfill`, the buffer and `rfmstate` with the sketch's thread. A sender and the
gateway talk through two drivers and a lossy channel.

What makes each part correct:

- Bootloader: an acknowledged block is in memory; what is read back is what is there;
  addresses stay out of the boot section; a board does not get stuck in the bootloader and
  does not leave it early; a stale key has no effect.
- Driver: a packet reported with a zero CRC is one whole packet; what is sent is the frame
  of what was given; `rxstate` and the radio's power bits agree; the buffer is not overrun;
  calls return; a requested wake-up comes once and is reported.
- Easy transmission, senders and gateway: a packet is reported at least once or the sender
  knows that it was not; an acknowledgement belongs to the packet it acknowledges.
- Dataflash log: the page about to be written is erased; entries are neither lost nor doubled
  except where they are given up on purpose; a reset goes on where the log ended; a replay is
  in order.
- Scheduler: no task is lost, or returned earlier than its timers' grain allows; the timer is never read after it has wrapped.

## 2. Modules and their correspondence to the code

| Module | Models |
|---|---|
| `Caterina` | the bootloader: `main`, loop, timer interrupt, USB interrupt, every compiled-in command |
| `MCCaterina` | a constraint for TLC |
| `RF12` | the radio driver with the radio and an arbitrary sketch |
| `MCRF12` | packets on the air and a constraint for TLC |
| `AckedLink` | what an acknowledged transmission promises: the abstract specification |
| `EasySend` | `rf12_easyInit/Send/Poll` of one node, a lossy channel and a peer |
| `Gateway`, `MCGateway` | sensor nodes and the gateway composed over one radio channel |
| `DataFlash` | the log of `RF12demo.ino` with the chip and loss of power |
| `Scheduler` | `Scheduler`, `MilliTimer` and `Sleepy::loseSomeTime` with an arbitrary sketch |
| `CaterinaProofs`, `RF12Proofs`, `EasySendProofs`, `GatewayProofs`, `DataFlashProofs`, `SchedulerProofs` | TLAPS proofs about the module of that name (section 4) |
| `IntegerLemmas` | lemmas about `Min`, `Max`, `\div` and `%` that several proofs need |

`PROJECT.json` maps every definition to its source lines.

### Caterina

`ctl` is where the CPU is. A step is a stretch of code an interrupt cannot see half-done.
Three places need finer steps than a C statement:

- `Timeout` is two variables `tHi`, `tLo`. The listing `Caterina.lss` shows that the test
  reads the low byte first and an assignment writes the high byte first, so the test is
  `TimeoutLow`, `TimeoutHigh` and an assignment is `ExitHigh`, `ExitLow` or `BlockHigh`,
  `BlockLow`. `BASE` is the number of values of a byte.
- Each `boot_*` macro is `Arm` (SPMCSR written) and `Spm`. An interrupt in between clears
  `armed` and SPM does nothing; so does an EEPROM write in progress (`eeBusy`).
- A call that waits for the host ends a step. `FetchNextCommandByte` returns what the host
  sends, or zeros once the cable is out; after a bus reset the endpoint is disabled and the
  call does not return.

Memory cells are symbolic: erased, zero, `Corrupt` (two values programmed on top of each
other), or the byte that a named image holds at an address, so a byte in the wrong place is
visible. Reading the RWW section while it is busy gives `Garbage`, and the timer interrupt's
read of word 0 is then a free choice. `StartSketch`, resets, the sketch's request and
avrdude are external and modelled from what `Caterina.c` does with them; the host is assumed
to keep its own addresses inside the memories (`HostInRange`, `HostBlockInRange`) and to
send blocks of an even size.

LEDs, control requests that only store line settings, and the wording of constant answers
are left out; all commands that answer a constant share `Query`.

### RF12

`rf12_interrupt` is one action, since the AVR runs it with interrupts off. In the sketch's
thread each access to shared state is a step; `rfmstate |= x; rf12_xfer(rfmstate)` is
`RmwLoad`, `RmwStore`, `ArgLoad`, `rf12_xfer`. `rf12_idle()` has two read-modify-writes in a
row, which are one here: an interrupt between them has the same effect as one before the
first or after the second. The thread runs only while no interrupt is pending, except inside
`rf12_xfer`, which blocks the radio's interrupt: this is how an interrupt comes to be served
late.

Power bits are a set of names. The CRC is symbolic: it records which packet and how many of
its bytes it has taken in, in order, and is zero exactly after the whole of an undamaged
packet. A CRC that is zero by chance (1 in 65536) is therefore not considered. The RSSI
level of a packet is compared with the threshold the driver has set.

The radio (external) delivers bytes, overruns, asks for bytes, underruns, fires its wake-up
timer until it is disabled and leaves the power-on reset that `rf12_initialize` has put it
into at any time; a reset by itself later on is not modelled yet. A power-on reset that would arrive before `rxstate = UNINITIALIZED`
is written is not considered: the radio needs milliseconds for it. The sketch calls the
functions in `Calls` in any order that the header file allows: `rf12_sendStart` only after
`rf12_canSend` or for a reply, `rf12_sendWait` only after a send. It calls
`rf12_setFixedLength` only while the driver is idle (see section 3).

Group 0 (no group byte), on-off keying, encryption and `rf12_config` are left out.

### AckedLink

`want` is the datum handed over last, `got` what the peer received last, `result` what the
caller has been told. `Settle` needs `got = want`; everything else about a transmission
(retries, timers, frames, losses) is a stutter. `EasySend!ImplementsLink` is `Link!Spec` for an
`INSTANCE` with a refinement mapping, and `Gateway!ImplementsLink` is `Link!Spec` with one more
step, `MistakenAck` (see Gateway). In `EasySend`
`want` is `ezSendBuf`, `got` what the peer heard and `result` is read off `ezPending` and
`ezNextSend`; in `Gateway` they are the node's payload, the reading that `loop()` was given
last for that node, and the outcome `rfwrite()` returned.

### EasySend

`rf12_easySend` is one action for new data and one for a repeated call; `rf12_easyPoll` is
`pollAck`, `pollSend` or `pollIdle`, the three ways through its body. `ezNextSend` is kept as
a `long` of `2 * HALF` values. The driver is what `easyPoll` sees of it: at most one frame is
on the air; a frame is lost, or received and answered within `ANSWER_MS`; another node's
acknowledgements are heard too; `rf12_canSend` fails for at most `BUSY_MS`. `Patient` says
whether the sketch waits for a result before it submits again; with `Patient = FALSE` the run
`easy_late_ack` shows what goes wrong otherwise. `rf12_easyInit` may be called again later.

### Gateway

A node is `rfwrite()` with `waitForAck()`: `StartFrame`, `SendHeader`, `SendRest`, then
`AckTimeout` or an acknowledgement, `Resume` after the sleep between retries. `StartFrame` is the
end of `while (!rf12_canSend()) rf12_recvDone();`, which may come at any time or never. The gateway is
`loop()`: `handleInput`, `receive`, `ackWait` (one poll of the wait for a free channel),
`reply`, `print`, `command`. A frame is on the air as preamble, header and rest, since what
the gateway shares with its interrupt is the buffer's header and data: `SendHeader` stores the
header if the receiver is on, `SendRest` completes the packet. Frames that overlap are
damaged; any frame may be damaged or not heard; nodes need not hear each other. Commands from
the serial line may set up the radio again in the middle of a reception, send a packet, or
switch acknowledgements off. The destination of such a packet is a byte as it was typed: the code
ORs it into the header, and 128 + n makes an `s` look like the acknowledgement of node n
(`RFM12_to_Pi.ino:282-285`), so `command` sends frames of both kinds. `gwtx.of` remembers whose
packet a frame of the gateway answers, if any; a node that is woken by a frame with the header of
its acknowledgement that answers another packet or none takes a `MistakenAck`. The sleep between two tries is longer than a pass of the
gateway's `loop()` (a guard in `Resume`): `RETRY_PERIOD` is seconds, a pass milliseconds.
The bits of the header byte are a record; digits, settings and the printed text are left out.

### DataFlash

An action is a call: `df_append`, the erase that ends `df_saveBuf` (`eraseNext`, a step of its
own because power may be lost before it when `LossBeforeErase`), `PowerFail` (a reset and `df_initialize` with
`scanForLastSave`), `df_replay`, the commands `e` and `w`. Pages hold entry numbers, so that
order and loss are visible. Programming a page that is not erased spoils it. The time that an
erase takes is as if it had passed before the save. Entries have sizes, so that pages are
filled by one or by several. A replay stops early when a byte comes in on the serial line;
its effect on the state is the same. `scanForMarker` and `ReplayPages` are operators, since
they only read; `ReplayInOrder` evaluates them for every marker in every state. The command
`e` is used outside of the log; inside, it makes `scanForLastSave` stop at the hole. `now()`
overflows after 49 days ("FIXME 49-day overflow", `RF12demo.ino:30`): `Tick` goes from `MaxNow`
to 0 without a new sequence number, and `wrapped` remembers it. A write
that is torn by the loss of power, and chips without a dataflash, are not modelled.

### Scheduler

`poll`, `timer`, `cancel` and `pollWaiting` with `loseSomeTime` period by period. All words
wrap at `WORD`; `LATEST` stands for 60000 of 65536, `TENTH` for 100 ms, `GRAIN` for the 16 ms
of the watchdog, `STEP_MAX` for 600. `MilliTimer::poll` returns the time since expiry in a byte
(`BYTE` values): a timer that is found a multiple of 256 ms late is `Expired` and set again, but
does not fire (`Fires`), and the countdown keeps its tenth. `left`, `age` and `gap` count time
that does not wrap; `left` falls by what was really slept, which after an interrupt is any part
of a watchdog period, where `millis()` is given half of one.
The sketch sets and cancels timers at any moment; it uses `poll` or `pollWaiting`, not both:
with both, one tenth is counted by `ms100` and again by the sleep, and tasks run ever earlier.
It polls within `MaxGap` while a task waits. Times are at least one tenth (a task that sets
itself to 0 starves those after it) and below `~0`, as the header file says ("up to 6000
seconds").

## 3. Runs

Passing runs:

| Run | Checks | Shows |
|---|---|---|
| `caterina_program` | `AckedBlockIsProgrammed`, `ReadBackIsReal`, `AddressesInRange` | uploads, read-backs and chip erases of two pages: an acknowledged page is in flash, read-back is real, addresses stay in range |
| `caterina_boot` | `TypeOK`, `BootKeyOneShot`, `StaysOpen`, `TimerRunsInLoop`, `SketchGetsItsTurn` | all four resets, requests by the sketch, suspends, torn `Timeout`: when the bootloader stays, for how long, that its clock runs, and that a host that talks without programming cannot keep a present sketch from starting, however often the count wraps |
| `caterina_commands` | `AckedBlockIsProgrammed` | all other commands in any order with EEPROM blocks: an acknowledged EEPROM block is in EEPROM |
| `rf12_driver` | `TypeOK`, `GoodPacketIsWhole`, `RadioFollowsState`, `RssiIsTheBand`, `SentAsGiven`, `CallsReturn` | receive, send, reply, sleep, restore and fixed length with the interrupt, overruns and underruns between any two steps; the waiting loops end once the air is quiet |
| `rf12_wakeup` | `WakeUpStands` | a wake-up request survives all other changes of the power bits |
| `easy_send` | `TypeOK`, `SuppressedIsDelivered`, `Spaced`, `Settles`, `ImplementsLink` | data that `rf12_easySend` no longer sends was received; transmissions keep their distance; retries end; together an `AckedLink` |
| `gateway` | `TypeOK`, `PrintedIfUntouched`, `CopiesBounded`, `ImplementsLink`, `RfwriteReturns`, `LoopGoesOn` | an acknowledging node, a plain node and the gateway with collisions, losses and whatever is typed: a node is told "acknowledged" only for a reading the gateway was given or by a `MistakenAck`; repeats are bounded; `loop()` goes on whatever the channel does, and `rfwrite()` returns if its waits for the channel end |
| `dataflash` | `TypeOK`, `PageAheadErased`, `EntriesAccounted`, `ScanFindsLast`, `ReplayInOrder` | the log wraps, is reset between calls, replayed and wiped at any time, and the clock overflows: no entry is lost or doubled, replays are in order, and exact as long as the marker's own pages are there and the clock has not overflowed |
| `scheduler` | `TypeOK`, `NoTaskLost`, `NotEarly`, `NeverStale`, `TaskRuns` | two tasks on a wrapping clock, polled or slept for: none is lost, none is early by more than the tenth that was running (`poll`) or the unslept ends of the sleeps so far (`pollWaiting`), each is returned in the end |

Runs that show a disagreement between the code and what the repository says of it:

| Run | Property | What happens |
|---|---|---|
| `rf12_watchdog_race` | `BufferBound` | `rf12_setWatchdog` switches the receiver back on after the last byte, and bytes go behind `rf12_buf` |
| `easy_late_ack` | `SuppressedIsDelivered` | the acknowledgement of an old packet is taken for data submitted after it, which is never sent |
| `dataflash_power_loss` | `PageAheadErased` | power lost between the first write into a block and the erase of the next: that block is later programmed over its old pages |

Modelling met more of the same kind, for which no run is kept:

- command `e` leaves the timer interrupt on, although `Caterina.c:178-179` says that it is
  disabled when erasing: a tick between SPMCSR and SPM skips a page, and the erase is
  acknowledged (`Caterina.c:541`);
- SPM is ignored while the EEPROM byte of the previous command is being written, and the flash
  block is acknowledged (`Caterina.c:331`);
- a bus reset in the middle of a command leaves the loop waiting for ever: the endpoint is
  disabled and the device state is not Unattached (`Caterina.c:396`);
- a wake-up between the read and the clear of the flag is lost (`RF12mods.cpp:926`);
- when `millis()` passes 2^31, `ezNextSend` changes its sign: all retries are due at once, or
  new data waits for 49 days (`RF12mods.cpp:981`);
- the gateway polls `rf12_recvDone()` before it replies: the header of another packet that
  comes in then is replied to, and the first packet's data is printed under that number
  (`RFM12_to_Pi.ino:253`; `RF12x.cpp:358-359` says that a reply must come right after
  `rf12_recvDone()`). `PrintedAsReceived` without the premise of `PrintedIfUntouched` fails.
  With two acknowledging nodes the same window makes a `MistakenAck`: while the
  gateway waits to reply to one node, the whole packet of the other comes in, its header
  replaces the first, the polls of `rf12_recvDone()` discard it, and the second node is
  acknowledged a reading that `loop()` was never given. The attempt to prove `Link!Spec`
  for any number of nodes met this; TLC shows it in 18 steps with `Acking = Node`;
- an `s` typed with 128 + n as its destination acknowledges whatever node n is waiting for
  (`RFM12_to_Pi.ino:284`; the help says "send packet to node ID N"): the other `MistakenAck`;
- `rfwrite()` waits for a free channel without a bound (`door_sensor.ino:110-111`, `127-128`):
  under permanent noise or traffic it never returns, and the node's battery is drained;
- command `r` of RF12demo joins the bytes of the marker with `||` where `|` is meant
  (`RF12demo.ino:672-674`): only sequence numbers 0 and 1 can be asked for;
- a marker whose pages are gone is applied to the next sequence number with the old time
  (`RF12demo.ino:467`), so that its pages up to that time are left out, and the page of the
  marker itself is never replayed. `ReplayInOrder` therefore says which pages are left out only
  while a page of the marker's own number that it covers is in the log;
- after the overflow of `now()` the times in the log fall under the same sequence number, and a
  marker from before it hides or repeats pages (`RF12demo.ino:30`, `467`): `ReplayInOrder`
  without its premise `~wrapped` fails in 7 steps;
- the errors of `pollWaiting` add up: every sleep leaves out up to 15 ms and the countdown loses
  the whole step (`Portsx.cpp:1194`), while the comment speaks of "the 0..15 ms still left to go"
  of the last one (`Portsx.cpp:1199`). Beside a task that runs every tenth, one of 100 tenths is
  about 400 ms early. `NotEarly` with a bound of one tenth fails in the mode `pollWaiting`;
- a sketch that polls `ms100` 256 ms after it has expired loses a tenth (`Portsx.cpp:252`), and
  one that polls every 355 ms never counts down at all: with `MaxGap = BYTE` the conclusion of
  `TaskRuns` fails;
- a replay drops the entries in the buffer (`RF12demo.ino:526`);
- `Scheduler::poll` returns -1 ("there are tasks waiting") after the only task was cancelled,
  until the countdown has ended (`Portsx.cpp:1183`);
- command `E` calls `boot_rww_enable_safe()` with the timer interrupt on, as `e` does
  (`Caterina.c:477`);
- the time-out does not test whether a sketch is present, although its comment says so
  (`Caterina.c:142-144`): a chip erase after the time has run out starts an erased section;
- command `C` passes the high byte of a word as the whole word (`Caterina.c:597`);
- a wake-up inside `rf12_idle` or `rf12_sleep` has its disable of the timer undone by the
  thread's store (`RF12mods.cpp:338-342`, `869-877`), and the timer fires again;
- after a reset of the radio outside `rf12_initialize`, `rxstate` stays `POR_RECEIVED` until
  `rf12_sleep` or `rf12_restore`, and `rf12_sendNow` does not return (`RF12mods.cpp:403-406`);
- `rf12_setFixedLength` with a packet in the buffer can leave the receiver off
  (`RF12mods.cpp:526-529`);
- `rf12_getRSSI` returns 2 and 6 where the table of `drssi_dec_tree` says 0001 and 0101
  (`RF12mods.cpp:135-144`, `514-516`).

### Bounds

- `caterina_program`: two pages of four bytes (two words each), so that a wrong page, a
  wrong word and a wrong half are distinguishable; one image, since a byte carries its
  address; blocks over erased, programmed and half-erased pages occur. `TIMEOUT_PERIOD` is
  one tick: time-outs fall everywhere.
- `caterina_boot`: `BASE = 4` and a period of 11 with a grace of 3, so that the count has
  carries between its bytes, the assignment by `E` has a non-zero low byte, and the
  bound of `StaysOpen` (six ticks for `B`) is not vacuous. `idle` stops at `IdleCap`.
- `caterina_commands`: one page, two EEPROM bytes, sizes 0 and 2.
- `rf12_driver`: two data bytes; packets for everyone, for this node, for another node, and a
  damaged one whose length byte exceeds the buffer; RSSI decisions after bytes 1 and 5, so the
  search finishes inside the longest good packet and not inside the shorter ones.
- `NoGlitch` (all safety runs of the bootloader) stops exploring once a USB interrupt has
  fallen between SPMCSR and SPM. The code does not mask that interrupt: it fires on cable,
  bus reset, suspend and resume only, and such a block can be lost. `AckedBlockIsProgrammed`
  states this exception itself (`glitch`).
- `RadioStops` (run `rf12_wakeup`) stops exploring once the race of `rf12_watchdog_race` has
  left the receiver or transmitter on, after which the interrupt runs past its buffer.
- `rf12_driver` does not call `rf12_setWatchdog`: with it, `rf12_watchdog_race` applies.
- Flash blocks right after EEPROM writes are excluded from the runs by their sets of commands
  and memory types (see above).
- `easy_send`: three transmissions, two packets besides the empty one, intervals of 0 and 1
  second; submissions until `LastSubmit` and a clock until `MaxMillis`, which leaves time for
  every retry of the last submission. `HALF` is above every time that is reached.
- `gateway`: one retry, one poll before the reply, an acknowledging node with two readings and
  a plain node that collides with it and overwrites its header. With two acknowledging nodes
  there are 7.3 million states, too many for the liveness properties; the safety properties were
  checked there as well, and the theorems cover any number.
- `dataflash`: a log of three blocks of two pages; ten entries of size 1 or 2 in pages of size
  2, enough to fill all six pages, wrap and write over the first block; three bumps of the
  sequence number. The clock overflows behind `MaxNow` and starts anew at a reset. The run may stop,
  because these bounds do, hence no deadlock check.
- `scheduler`: words of 16 values, tenths of 3 ms. With `MaxGap = 2` the timer comes within a
  millisecond of being stale: `LATEST = 10` breaks `NeverStale`. A byte of 4 values is above
  `MaxGap`, as `TaskRuns` asks; tenths are still lost, when the calls that return two tasks in a
  row are late together.

### Fairness

`Caterina!Fairness`: the CPU executes its next instruction, the timer ticks while it is
enabled, and an EEPROM write ends: hardware that runs. Weak fairness of the CPU includes that
a configured host sends the bytes of a command it has begun and reads the answer. Nothing is
assumed of cables, resets, bus resets or further commands. `SketchGetsItsTurn` also assumes
that resets stop, that the bus settles in Configured or Unattached, that the host no longer
sends `B`, `g` or `E`, that a sketch is present and the RWW section readable, and
`TestedInTime`: if the count is above `TIMEOUT_PERIOD` again and again, the loop tests it again
and again while it is. `Timeout` may wrap any number of times; on the device it spends a minute
above `TIMEOUT_PERIOD`, and a pass of the loop is shorter. With the test in `main` deleted, or
without `TestedInTime`, the property is violated.

`RF12!Fairness`: the CPU runs the driver and serves interrupts; the radio leaves its reset,
goes on with a packet it has begun to receive and asks for bytes to send. `CallsReturn`
assumes that new packets stop coming in: under endless traffic `rf12_sendNow` may wait for
ever, as its documentation says.

`EasySend`: the clock runs and the sketch calls `rf12_easyPoll` again, so that a transmission
that is due happens. `Gateway`: each node's code, the frame the gateway is sending and
`loop()` go on; nothing is assumed of the channel, so the step that ends a node's wait for it,
`StartFrame`, is not fair. `RfwriteReturns` has as its premise that each such wait ends;
`LoopGoesOn` has none. `Scheduler`: the clock runs, the sketch
goes on calling `poll` or `pollWaiting`, and a sleep goes on. `TaskRuns` assumes that sleeps
are no longer interrupted (an interrupted sleep is not taken off the countdown, so a task can
be put off for ever), that the sketch does not go on setting that same task, and, as a condition
on the constants, that it polls within `BYTE - 1` milliseconds ("no later than 255 millisecs after
the timer has expired", `Portsx.cpp:250-251`).

## 4. Proofs

Every safety property of the passing runs is also a theorem, for every value of the constants
that satisfies the named assumptions of its module. Each proof has the same shape: an inductive
invariant that implies the property, one lemma per action or group of actions that it is
preserved, and a last step by temporal logic. The invariants were first checked by TLC as
invariants of the runs. A premise in front of `Spec` is a condition on the constants; it is
there where the property fails without it, and the run or the remark in section 3 that shows
the failure is named below.

### CaterinaProofs

From `TimerAssumption`, `MemoryAssumption`, `HostAssumption` and `ImageAssumption` (the names
of images are none of the tags that stand for erased, zero or corrupted bytes and for constant
answers, so that a host's byte cannot be mistaken for one), for every byte width, time-out,
number and size of pages, EEPROM size, images and host inputs:

- `TypesAndAddresses`: `Spec => [](TypeOK /\ AddressesInRange)`, and `TypeCorrect` from it. The
  two are inductive only together: the type of an answer needs the address that was read to be
  inside the memory.
- `BootKeyTheorem`: `Spec => []BootKeyOneShot`. Not inductive: `KeyInv` adds where a key can
  be (in RAM only while the sketch that wrote it runs or right after a reset; in `main`'s
  copy until it has decided) and that such a key was requested or came with a power-on reset.
- `StaysOpenTheorem`: `Spec => []StaysOpen`. `CountInv` bounds how far `Timeout` can run ahead
  of the ticks counted since its last assignment: by less than one byte, because a tick
  between the two halves of an assignment may carry out of the old low byte. A second byte is
  lost in the torn test. The bound `TIMEOUT_PERIOD - slack - 2 * BASE + 3` follows.
- `TimerRunsTheorem`: `Spec => []TimerRunsInLoop`. `MaskInv` says that the interrupt is masked
  only inside `ReadWriteMemoryBlock`, also across the SPM steps it waits for.
- `ReadBackTheorem`: `ReadBackIsReal` for a host that reads by blocks and does not write the
  EEPROM. `R` reads a word without `boot_rww_enable()`, which is why it is excluded; and while
  an EEPROM byte is being written the SPM of `boot_rww_enable()` is ignored.
- `AckedBlockTheorem`: `AckedBlockIsProgrammed` if `FlashHost` (no EEPROM writes, page buffer
  filled by blocks only, as in `caterina_program`) or `EepromHost` (no flash blocks, as in
  `caterina_commands`). Without a premise it is false: SPM is ignored during an EEPROM write
  (`Caterina.c:331`), and `C` and `c` leave words in the page buffer that the next block does
  not overwrite. `BlockInv` says that inside a block only a USB interrupt, which `glitch`
  remembers, can part SPMCSR from SPM, and that the page buffer is empty outside of a block.
  `FlashInv` follows a block: how far it has come (`Progress`), that the page is erased before
  it is written (`PageErased`), that the buffer holds the bytes sent so far and blanks behind
  them (`BufferAsSent`), and that flash holds them once they are written (`FlashDone`).
  `EepromAsSent` is the same for the EEPROM.

Frame lemmas (`MemFrame`, `BootFrame`, `TimerFrame`, `CdcFrame`, `HostFrame`, `BlockFrame`) say
which actions can change which variables, so that each preservation proof looks only at those.

### RF12Proofs

For every buffer size, set of packets on the air and RSSI decision bytes. All but the last
assume `NoWatchdog` (the sketch does not call `rf12_setWatchdog`): with it, they are false, as
`rf12_watchdog_race` shows.

- `TypeCorrect`: in particular `rxfill` stays inside `rf12_buf`. `TypeOK` is not inductive: that
  no byte comes in for a full buffer depends on the receiver being off, hence on the power
  bits, and these go through `rfmstate`, a register and the radio in four steps. `DriverInv`
  relates the three at each step of a read-modify-write (`Power`, `Halfway`), says which
  interrupts can be pending (`Pending`), where the thread can be (`Control`), and that the
  lengths fit (`Framed`, `SendBound`).
- `RadioTheorem`: `RadioFollowsState`, from `Power`.
- `GoodPacketTheorem` and `RssiTheorem`: `ReceiveInv` says that the buffer holds the packet that
  the CRC was computed over (`Reception`), that a byte received belongs to what is on the air
  (`OnAir`), and that the decisions of the RSSI search so far agree with the packet's band
  (`Search`). The proof showed that one byte more may come in after the receiver was switched
  off, before `rxstate` changes; `Reception` leaves out those places (`Listening`), since the
  buffer is not used any more there.
- `SentTheorem`: `SentAsGiven`, an action property. `Transmission` says which bytes have gone out
  in each state of the interrupt, and that the CRC was taken over them.
- `WakeUpTheorem`: `WakeUpStands` also with `rf12_setWatchdog`, for a sketch that does not call
  `rf12_restore`, which switches the timer off. `WakeInv` follows the request through its
  read-modify-write (`Arming`) and says afterwards that no other read-modify-write is about to
  lose the bit (`Armed`), even where it loses the receiver's bits.

### EasySendProofs

For every interval, retry time, number of retries and width of a `long`. `NoWrap` says that the
clock and the times computed from it fit a `long` (24 days after a reset; section 3 says what
happens later, `RF12mods.cpp:981`). `Orderly` says that the sketch waits for a result and that
an answer comes before the next retry or never; without it `easy_late_ack` applies.

- `TypeCorrect` (no premise) and `SpacedTheorem` (`NoWrap`): `TimersFollowSends` relates
  `ezNextSend` to the time since the last transmission.
- `SuppressedTheorem` and `LinkTheorem` (`NoWrap`, `Orderly`): `OneExchange` says that a frame or
  an answer on the air belongs to the data in `ezSendBuf`, because each is gone before the next
  transmission. `LinkTheorem` shows the refinement of `AckedLink`: its initial state, and each
  step as a step of `AckedLink` or a stutter.

### GatewayProofs

For any number of nodes, readings, retries and polls.

- `TypeCorrect`, `PrintedTheorem` and `CopiesTheorem` have no premise. `Channel` ties the driver's
  state to the frames on the air; `Kept` says that the buffer keeps the packet between
  `rf12_recvDone()` and the line that is printed, if no header came in; `Counted` says that a
  packet the gateway holds is of the transmission made last and has not been counted.
- `LinkTheorem`: `Spec => ImplementsLink`, for any number of acknowledging nodes and without a
  premise: a wait for an acknowledgement ends by the answer to the packet waited for or by a
  `MistakenAck`. `Answered` says that a good packet, a packet replied to and the packet that a
  reply on the air answers belong to the reading its node still waits for.
- `SingleLinkTheorem`: with one acknowledging node and no acknowledgement typed on the serial line
  (`Unforged`) there is no `MistakenAck`, and the whole of `Link!Spec` is implemented.

### DataFlashProofs

For every number of blocks, block size, page size and set of entry sizes. `TypeCorrect` has no
premise; the others assume `Undisturbed`: power is not lost between a save and its erase
(`dataflash_power_loss`), and the command `e` is not used inside the log.

- `PageAheadTheorem` and `ScanTheorem`: `RingInv` says that the rest of the current block and, when
  no erase is due, the block behind it are erased (`AheadErased`), that the pages written follow
  each other in the ring up to `dfLastPage` (`Contiguous`), and that a page without a number is
  erased (`Blank`). That `scanForLastSave` finds the end in a wrapped log follows from there being
  exactly one gap.
- `EntriesTheorem`: `OnePlace` says that each entry is in one place; that it counts exactly one
  page follows.
- `ReplayTheorem`: `InOrder` says that of two pages the one that is older in the ring has older
  entries and a number that is not higher, and, where the numbers are equal, a lower address and
  a time that is not later; and that all pages are so before the buffer. It is inductive because
  a save takes a new number exactly when it wraps, and a reset and a replay take one that is
  higher than all. The order of times holds until the clock overflows (`~wrapped`); the order of
  entries does without it. What `scanForMarker` finds and which pages `df_replay` goes through are lemmas
  about the operators (`MarkerPage`, `ReplayPagesOrder`).

### SchedulerProofs

For every number of tasks, word size, length of a tenth and watchdog period.

- `TypeCorrect`, `NoTaskLostTheorem` and `NotEarlyTheorem` have no premise. `Table` bounds each entry
  plus the countdown below `IDLE`, so that the shifts of the table wrap nowhere; `Countdown` and
  `Sleeping` relate the countdown, the timer and the rest of a sleep to the time that is left for
  each task: what a sleep does not sleep is less than `GRAIN`, and each sleep counts a tenth or
  more, so the slack grows by at most `GRAIN - 1` per tenth.
- `NeverStaleTheorem` assumes `PollsOften`, which says what "often enough" is: a gap between two
  polls must leave room for a poll for each task that is due at the same time, since `poll()`
  returns one task per call and does not look at the timer meanwhile. The comment in the source
  ("no later than 5535 millisecs after the timer has expired") speaks of a single poll.

### What is only model-checked

Liveness under fairness, which is beyond the prover: `SketchGetsItsTurn`, `CallsReturn`, `Settles`,
`RfwriteReturns`, `LoopGoesOn` and `TaskRuns`.

## 5. Not modelled

See "components" in `PROJECT.json`. Nearly all lines of the repository are third-party code:
LUFA with its demos and projects (FatFs and uIP among them), SerialIP, and Arduino libraries. They are
used as they are or not at all, so the models cover a small share of the lines and most of
the control that this repository adds. Of its own code, XXTEA is 32-bit arithmetic; the port,
plug and display classes of the Ports library are register and I2C accesses; the sensor and
relay sketches are straight-line calls of libraries around the transmission that `Gateway`
models.

## 6. Plan

1. Done: `Caterina`, `RF12`, `AckedLink`, `EasySend`, `Gateway`, `DataFlash`, `Scheduler`, and the
   proofs of their safety properties.
2. Proofs under weaker premises: `RadioFollowsState` for a sketch that calls `rf12_setWatchdog`
   only while the receiver is off; `PageAheadErased` with the command `e` inside the log,
   restricted to blocks that are empty.
3. Faults of the radio (a dip of its supply) in `RF12`.
4. `CdcEndpoint`: banks and the zero-length packet, refining a byte stream.
5. `Pads`: the padding of `cryptFun` as operators, checked against their inverse.
