# Verification of the PoCat-Lektron flight software

TLA+ models of the flight software in this repository (FreeRTOS on an STM32L476, C, about
8,000 lines) and of the event-driven part of the reference firmware kept beside it
(`src/reference`), TLC runs that check them on small instances, and TLAPS proofs of what they
promise for every instance. Source files are named by their file name; `PROJECT.json` gives
their paths and lines.

Contents: [inventory](#1-inventory), [modules](#2-modules-and-the-code),
[runs](#3-runs), [fairness](#4-fairness), [proofs](#5-proofs), [findings](#6-findings),
[not modelled](#7-what-is-not-modelled), [plan](#8-plan).

## 1. Inventory

### Components

| Component | State | Operations | Talks to | Modules |
|---|---|---|---|---|
| OBC state machine (`obc.c`, `state_machine.c`) | the state, notification bits | boot, idle loop, `change_state` | task management, flash queue, clock, health | ModeChange |
| Task management (`task_management.c`) | `task_table[]`, the acknowledgement event group | create, pause, resume, `tm_check_pause`, `tm_reset_task` | every task, health | ModeChange |
| Health monitor (`health.c`), watchdog (`periph.c`) | expected and kicked bits, period, IWDG counter | `health_kick`, `health_check`, refresh | every task, OBC | ModeChange, Clock |
| Flash driver and request queue (`flash.c`, `obdh.c`) | the flash pages, `obdh_queue`, the notification of index 1 of each client | submit (blocks), serve, erase and program a page | OBC, COMMS, BEACON, TRANSCEIVER, EPS as clients | Flash, StableStore, ModeChange |
| Task loops (`comms.c`, `beacon.c`, `eps.c`, `adcs.c`, `payload.c`, `transceiver.c`) | control points, `rx_queue` and `tx_queue` | wait, check for a pause, work, kick | all of the above | ModeChange |
| LoRa reconfiguration (`lora_cfg.c`) | committed, candidate and previous slots, `s_state`, deadline | request (COMMS), tick and disarm (TRANSCEIVER) | radio, wall clock | LoraConfig, Telemetry |
| ARQ transfers (`arq.c`) | one session, reassembly buffer, bitmaps, window | arm, begin, data, end (uploads, COMMS); `arq_run_dl` (downloads, TRANSCEIVER) | both queues, flash, ground | ArqUplink, FileStore, ArqDownlink, SnapshotFile |
| Link layer (`transceiver.c`, `saw.c`, `cad.c`, `dedup.c`) | ring of 16 seen frames, sequence counter, frame in hand | receive, acknowledge, forward, stop-and-wait, channel assessment | radio, COMMS | Link, Radio |
| Frames (`frame.c`, `auth.c`), timing (`timing.c`) | - | encode, tag, decode; time on air, timeouts | link layer | Frame, Timing |
| Radio driver (`RadioLib/`) and the SX1262 | mode, flags, DIO1, callback | start, read and clear, interrupt, blocking receptions | TRANSCEIVER | Sx1262, Radio, BlockingReceive |
| Telecommands (`tc_handler.c`), reports (`tm_builder.c`, `temperature.c`), beacon (`beacon.c`) | last command, session counters | dispatch, encode | OBC and all tasks by notification | Link, TimeUpload, Telemetry |
| Clock tree (`clock.c`), peripherals (`periph.c`) | oscillators, PLL, voltage, wait states | switch between 80, 8 and 2 MHz, initialise peripherals | OBC, `main` | Clock |
| Wall clock (`time.c`) | two RTC registers, a mutex | set, get, convert | all tasks | WallClock, TimeUpload |
| Compression (`compression.c`), history (`ht_handling.c`) | masks, histories of changes, counters | start, compress a packet, pack bytes | no caller yet | Compression |
| Start-up (`main.c`) | - | restore the state from flash, start the scheduler | all | Clock, Flash, ModeChange |
| Reference COMMS (`reference/COMMS/comms.c`) | `COMMS_State`, flags, packet counters | loop, callbacks, beacon timer, telecommands, interleaver | radio, camera | RefComms, Interleave |
| Reference camera (`reference/VGA/camerav2.c`) | index and flags of the DMA transfer | commands with retries, transfer | flash | RefCamera |
| Reference OBC (`reference/OBC/`) | state in flash, event bits, clock | a function per state, waits for COMMS | EPS, COMMS | RefObc |

### How they interact

Tasks have fixed priorities (OBC 6, OBDH 5, COMMS, TRANSCEIVER and BEACON 4, EPS 3, ADCS 2,
PAYLOAD 1) on one core, preemptive and time-sliced among equals. They interact by task
notifications (one 32-bit value each, read and cleared as a whole, so two signals merge),
event groups (acknowledgements, kicks), queues (flash requests, frames), plain shared
variables (`task_table[].paused`, the expected set, `s_state`, `g_sess`), and by one task
deleting another (`tm_reset_task`). The program takes almost no lock.

### What is hard in it

* **Mode changes.** A transition pauses tasks, switches the clock, resumes tasks and writes
  two bytes to flash, while each paused task is somewhere in its own loop and the watchdog runs.
* **Deletion.** The health check deletes a task wherever it is, also blocked on flash.
* **No locks.** The expected set, the configuration slots and the ARQ session are read and
  written by tasks of one priority.
* **The radio.** Frames are lost, repeated, acknowledged and then dropped by a full queue.
* **Time.** A configuration commits at a date and reverts at another, on a clock that
  telecommands set; health periods, acknowledgement timeouts and the watchdog overlap.
* **Flash.** It is erased by the page and programmed by the doubleword, and power is lost in
  between.
* **Three actors on the radio.** The chip raises flags, the interrupt sets a notification bit and the
  task reads, clears and acts on both, in steps that a frame may fall between.

`PROJECT.json` lists every hazard at its line with the properties that watch it.

### What makes each component correct

* OBC and task management: a paused task does no work; an acknowledged pause is a pause; a
  transition takes effect; a reset at any moment boots in the old or the new state.
* Health and watchdog: a healthy system is not reset; the watchdog bites only after a fault.
* Flash: the queue is never full, with one live request per blocked client; what was answered
  is read back; a write is seen whole or not at all; a fault costs one page.
* LoRa reconfiguration: no torn commit; a link nobody was heard on is given up; the slot
  is released.
* ARQ: an upload puts a whole file at one address; a DATA_ACK says what came; a download is one
  moment of flash; lost frames are repaired; sessions end.
* Link layer: a command that was acknowledged is executed, and once; the answer to a frame is
  that frame's; the radio always listens again; what is queued is sent.
* Clock tree: wait states and voltage always suit the frequency. Wall clock: what is read is
  the time, and what is set was sent.
* Compression: a receiver that missed no more than the protection level follows.
* Reference firmware: what is asked for is answered, the loop comes back to listening, a photo
  ends with as many bytes stored as it has, the clock suits the state.

## 2. Modules and the code

### ModeChange (`ModeChange.tla`)

OBC, the subsystem tasks and the flash server in one module, because what can go wrong is in
their interplay. `obc` is the control point of the OBC task: `boot`, `bootWrite` (the write
of the boot state), `idle`, then one transition `savePrev`, `pause`, `pausing` (waits for
acknowledgements), `resuming`, `saveCur`, and back. `loc[t]` is the control point of a task:
`top` (before the notification wait), `pause` and `resume` (the two branches of
`tm_check_pause`, split between `health_get_expected` and `health_set_expected`), `body`,
`wait` (on a queue or notification), `flash` (in `obdh_submit_request`), `radio` and
`session`. `bits[t]` are the PAUSE and RESUME bits of a task's notification value;
`received` whether the task has any notification to wake it.

| Actions | Code |
|---|---|
| `ObcBoot`, `ObcIdle`, `ObcCheck` | `obc_task`, `process_obc`, `health_check` |
| `ObcChangeState`, `ObcPause`, `ObcSwitchAndResume`, `ObcEnterState` | `check_next_state`, `change_state`, `tm_pause_tasks`, `tm_resume_tasks`, `clock_set_freq` |
| `ReadNotifications`, `FinishPause`, `FinishResume`, `EndLoop` | `wait_for_notification`, `tm_check_pause`, the loop of each task |
| `Submit`, `Serve` | `obdh_submit_request`, `process_obdh` |
| `StartExchange`, `KickInSession`, `EndExchange` | `saw_send`, `arq_run_dl` as seen by the scheduler |
| `ReceiveCommand`, `ReceiveFrame`, `Signal` | `tc_process`, radio interrupts, the beacon timer |
| `Tick`, `Expire`, `Reboot` | the second, timeouts, the independent watchdog and `main` |

The scheduler is part of the model: a step of a task needs that nobody of a higher priority
is ready (`MayRun`), which is what makes the starvation by a paused poller visible. A timeout
that has run down may expire at any moment of its second, so all sub-second phases occur.
A task body is one step except where it blocks or where another task may see it half done.

### LoraConfig (`LoraConfig.tla`, `MCLoraConfig.tla`)

`slot` is `s_state`; `committed`, `candidate` and `previous` are the slots; `comms` and `trx`
are the control points of the two tasks inside `lora_cfg_request` and `lora_cfg_tick`, which
are split wherever the other task could run in the middle of a structure copy
(`CommsWriteLink`/`CommsWriteTimes`, `TickCommit`/`TickCopyTimes`/`TickApply`). A configuration
is its link parameters (one value) and its two times. Pausing and
priorities are not in this module: the two tasks have the same priority and interleave freely.
Resets of either task are actions, with what they leave behind: a reset COMMS makes new queues
and the transceiver keeps the old ones (`deaf`).

### ArqUplink (`ArqUplink.tla`, `MCArqUplink.tla`) and FileStore (`FileStore.tla`)

The receiver of uploads: `RxArm`, `RxBegin`, `RxData`, `RxEnd` and `RxAbort` are the handlers
of `arq_rx` and `arq_arm_ul`, on the frame at the head of `rxq`. `sess` is `g_sess`, with
`base` and `bits` for `ul_rx_base` and `ul_bitmap`; `Advance` is the loop that moves the base,
including what it leaves unshifted. The content of a block is the upload it belongs to, and a
CRC is the sequence of blocks it was computed over, so two files that differ have different
CRCs (collisions are not modelled). The write itself goes to OBDH while COMMS waits, and by
`AtMostTwoQueued` of ModeChange it is never refused; here it is part of `RxEnd`.

The sender is on the ground and outside the repository. `arq.h` says both directions run the
same selective-repeat ARQ, so the sender is the counterpart of `arq_run_dl`: a window, a wait
for a DATA_ACK, the blocks it reports missing, three repetitions. Commands, DATA_BEGIN and
DATA_END are exchanged with ACKs: such an exchange fails only as a whole (`failures`), with or
without the frame having arrived, and a frame for a full queue is acknowledged and dropped,
as the transceiver does. DATA and DATA_ACK are lost one by one (`losses`). DATA_ACKs
reach the ground only while it listens. Its timeout is longer than what COMMS and the
transmission take, so it runs out only when nothing is on the way.

`flash` is the area from TLE_ADDR on, block by block. The calibration begins `TleRoom` blocks
behind the TLE (0xAB - 0x20 bytes), and `ul_write_flash` puts as many blocks as the buffer has at
the address of the armed type, with no bound: a TLE of more than `TleRoom` blocks runs over the
calibration, and a calibration put there later over the end of that TLE. `FileAt` is what a
reader finds at an address: nothing, one whole file, or a damaged one.

`FileStore` is the abstract promise: one step puts one whole file at one place; a place changes
otherwise only to `Damaged`, and only next to a file that is longer than its place.
`ArqUplink` implements it (`WritesWholeFiles`, with `store <- [t \in Types |-> FileAt(t)]`).

### ArqDownlink (`ArqDownlink.tla`, `MCArqDownlink.tla`) and SnapshotFile (`SnapshotFile.tla`)

The sender of downloads, with the receiver on the ground. `pc` is the phase of `arq_run_dl`:
an exchange (`BEGIN`, `COMPLETE`, `ABORTED`), `window`, `wait` for a DATA_ACK, `gaps`, `crc`.
`SawTransmit`, `SawHear` and `SawTimeout` are `arq_saw_frame`; `SendWindow`, `EndWindow`,
`HearReport`, `WindowTimeout` and `SendGap` the loop over windows, with base, bitmap and
retransmission count; `ReadForCrc` the second reading of flash. `WriteFlash` is any other task.
`Reset` is a reset of TRANSCEIVER; `TakeBit` also takes a pause together with the start bit.
A CRC is the function from blocks to the versions it was computed over. `SnapshotFile` is the
promise: the file that arrives is what the store held at one moment (`AcceptedIsASnapshot`).

### Link (`Link.tla`, `MCLink.tla`), Frame (`Frame.tla`), Timing (`Timing.tla`)

TRANSCEIVER is at `loop`, has loaded the number of an ACK (`encode`), transmits (`tx`), takes the
next frame of `tx_queue` (`drain`) or waits for an ACK in `saw_send` (`listen`). `CommsExecute`
and `CommsReply` are `tc_process`, which takes every frame for a telecommand.

`comms_next_seq` is `s_seq++` without a lock, called by three tasks of one priority. Its
load and its store are two steps in each of them: `CommsExecute` and `CommsReply` (the frame with
the number it loaded is `reply`), `TakeBeacon` and `SendBeacon` (`beacon`), `LoopReceive` and `LoopAck`
(`number`). Between the two any of the others may store, several times, and the late store sets
the counter back (`StoreNumber`, which remembers it in `setBack`): two frames then have one
number. The frames of telemetry have an identity of their own, `which`, that is not sent, so
`told` (received on the ground) and `confirmed` (SAW_OK) tell apart frames of one number.

The ground station sends a command up to four times until its ACK. `TxCut` is the
wait for TX_DONE that a notification ended. Sequence numbers are not wrapped; `dedup` is a
ring of `RingSize`. What may go wrong in a behaviour is one of `Budgets`: losses, timeouts
before a late answer, breaks (resets, contact lost) and beacons. `Timing` holds the integer
formulas of `timing.c` and three assumptions that TLC evaluates for every configuration that
`validate` accepts: the estimate is never below the time on air, and both timeouts cover the
answer. They justify `Quiet`, the rule that a timeout comes when the answer is lost, or else counts
as a fault.
`Frame` has the fields, the tag and the checks of `air_decode`; the HMAC is taken to be ideal.

### Sx1262, Radio, BlockingReceive (`MCRadio.tla`)

The same tasks one level down. `Sx1262` is the chip (mode, flags, mask, buffer), DIO1 and the
interrupt with the callback attached to it. `Radio` is TRANSCEIVER with a step for each access to
the chip: wait, read the flags, clear them, read the buffer, rearm; standby, clear the
notification, start, wait, clear; scan. `BlockingReceive` adds `RadioLib_DutyCycleReceive` and
`RadioLib_CadReceive`, which have no caller in the flight build: a behaviour has one user of the
radio or the other.

### Flash (`Flash.tla`, `MCFlash.tla`) and StableStore (`StableStore.tla`)

`Submit` is `obdh_submit_request`, `ServeRead` and `ServeWrite` `process_obdh`; `Setup`, `Erase`,
`Program` are the steps of `Write_Flash` with its copy of the page, and `NextPage` its loop
over pages. `FlashError` and `PowerLoss` happen between any two of them or in the middle of
one (a cell cut short is `Torn`); after a power loss `main` restores the state. What is
written is a version. `StableStore` is the promise: a write puts one page's part in one step, and a
fault destroys at most one page (`WritesAreIsolated`).

### Clock (`Clock.tla`)

A function of `clock.c` is the sequence of the HAL calls it makes (`calls`). Each call is a
step that succeeds, or fails with or without effect; a failure ends the function, in the
initialisation of a peripheral by `Error_Handler`, which hangs until the watchdog bites, if
it runs.

### WallClock (`WallClock.tla`) and TimeUpload (`TimeUpload.tla`)

Set and get under `time_mutex`, with the two HAL calls as two steps between which the RTC
counts, and `calendar_to_secs2000`/`secs2000_to_calendar` over real calendars with days of
`SecsPerDay` seconds (`ToSecs`, `ToCalendar`; the days before a year are a recursive function).
`TimeUpload` composes it with `Frame`: the time goes up as bytes in a tagged frame that the air
may damage in one field, and comes down in the header of a report.

### Telemetry (`Telemetry.tla`)

Pure: the bodies of both reports and of the beacon, `lora_cfg_parse`, `validate`, and
`mcu_get_temperature` with the division of C. Its assumptions, evaluated in run `commit`,
compare them with references: a report is the command it reports on byte by byte, and would be
accepted again as a command; the temperature is right to two degrees at every supply the chip
runs at; a failed reading is told from any temperature; the uptime never underflows.

### Compression (`Compression.tla`, `MCCompression.tla`)

The POCKET+ encoder: `NewLevel`, `ShiftNumbers`, `Shift`, `Insert`, `Wrapped` are the parts of
`getMaskChanges`, `Hxor` the anchor, `CompressPacket` the whole call with its three ways to
run out of room. A packet is a set of bits. The decoder is not in the repository: `Decode` undoes
what the code writes, a stale entry of a history included. `crowded` says that the packets of the
level have more deltas than a history keeps: the code then drops one and sends what is left.
`GetBinaryData` is the packing of bytes into words of `ht_handling.c`, checked
for lengths 0 to 21.

### Reference (`Reference.tla`, `RefComms.tla`, `RefCamera.tla`, `RefObc.tla`, `Interleave.tla`)

The reference firmware is outside the CMake build; it is modelled because it is source of
the repository with concurrency of its own. Its three units share nothing but the length of the photo, so `Reference`
runs one of them per behaviour. `RefComms` has a step for each stretch of the loop between
the points where the timer task or the radio can come in; `RefCamera` the commands with their
nested retries and the DMA interrupts during `getData`'s polling; `RefObc` a function per state.
Of a photo, RefCamera has the places and the sizes of what is stored, the half of the buffer the last
part is read from (`taken`), and whether it had arrived by then (`complete`): `LastPart` copies the
second half before the wait of 200 ms, `StoreLastPart` reads the first half after it.
`Send_to_WFQueue` is not in the repository and is taken to copy its value.
`Interleave` is the interleaver as functions on positions.

## 3. Runs

| Run | Instance | Shows |
|---|---|---|
| `transition` | OBDH, COMMS, BEACON, EPS; NM to SM by command; fairness | paused tasks idle, the flash always names a state to boot in, no fault without a command, acknowledged pauses are pauses, and the commanded state reaches flash before a watchdog reset can undo it |
| `radio` | OBDH, COMMS, TRANSCEIVER; command SSM; exchanges and sessions | at most two requests queued, one per blocked client, the watchdog bites only after a fault |
| `commit` | three links, one invalid; four kinds of configuration, three telecommands, a clock set once, one reset; fairness | no torn commit, no unheard link kept, slot released; and the assumptions of Telemetry |
| `transfer` | uploads of 3, 3, 4 and 5 blocks, a buffer of 4, room for a TLE of 3; three losses, two failed exchanges; fairness | whole files are written and others spoiled only by one that is too long, a DATA_ACK says what came, one loss is repaired |
| `download` | files of 3 and 2 blocks in windows of 2; four losses, one failure, one write; fairness | what is accepted is one moment of flash, sessions end, three losses do not stop a download |
| `exchange` | two commands answered by telemetry; three losses, or any two of a loss, a late answer, a break and a beacon; fairness | executed once but for copies heard in an exchange, acknowledged means kept, SAW_OK means received unless the counter was set back, every command arrives after up to three losses |
| `store` | four places on two pages of 4 cells, three requests, two faults; fairness | what was answered is read and booted from, writes are isolated, requests are answered |
| `clock` | three states, two failures, one reset | clock, wait states and voltage fit; without a failure the peripherals fit the clock |
| `compress` | packets of 4 bits in words of 2, five packets of six kinds, levels 1 and 3, with anchors and without | the receiver is in step |
| `time` | leap day, year end and century; two sets, one reader beside COMMS, three ticks, one deletion, two harms | what is read is the time; what is accepted was sent and nothing intact is refused |
| `chip` | three links, two arrivals, two frames queued, a pause; both blocking receptions; fairness | never deaf, no frame twice, no frame cut off but by others, the queue is served, blocking reads are fresh |
| `units` | every class of command, two radio events, photos of eight lengths, three changes of state; fairness | as many bytes downloaded as the image has, clock safe, pings answered, listening resumes, a photo ends with its number of bytes stored and its last part read from the right half, the OBC follows the state |

Every property of a run has a mutant, a plausible bug in the code it is about
(`PROJECT.json`); each is a "wrong variant" definition just before the correct one.

### Bounds

* *Tasks.* Each run takes the tasks its question needs: OBDH and COMMS always (the pollers),
  BEACON for a task a transition to SM pauses for good, EPS for one of a lower priority that
  can starve, TRANSCEIVER for radio exchanges. ADCS and PAYLOAD behave as EPS with a lower
  priority and without flash. The proofs of section 5 hold for all of them at once.
* *`MaxCommands`* 1: a second command during a transition only sets a bit that is read after
  it; every path of a transition, followed by resets and reboots without end, is in one.
  Periods, timeouts and the watchdog are those of the code, in seconds. Exchanges last up to 1 s.
* *`MaxSent`* 3 configurations: one to commit, one to be BUSY, one after a revert; *`MaxTime`*
  2 gives a schedule, a grace period and a clock set back between them.
* *Uploads*: a TLE that keeps to its place, a calibration, a TLE that runs over it, and a file
  larger than the buffer, so that either place is written before and after the other; four blocks
  are the fewest with two gaps below and above a received block. Each upload is sent in one
  window (see the hazard of `arq.c:537`). Session numbers differ.
* *Downloads*: windows of 2 with a bitmap of 2 make a file of 3 take two windows, with a gap in
  the first; four losses are one more than a window is retried.
* *Link*: three losses (or frames cut off) use up the four attempts at a command and at an
  exchange: with one attempt fewer `CommandsArrive` fails. Any two of a loss, a late answer, a break
  (a reset, contact lost) and a beacon meet at each of the steps of two commands: a beacon that
  stores its number late and a late ACK are what it takes for two exchanges with one number. A ring
  of 1 forgets the first command when the second comes, which is when a ring of 16 forgets it
  after 16.
* *Flash*: a page of 4 cells in doublewords of 2 with an item across two pages, one that
  shares a page with the state, and two faults, one in the recovery from the other.
* *Clock*: two failures, so that a fallback fails too.
* *Compression*: 4 bits in 2 words for anchors across a word; a capacity of 5 bytes lets some packets
  fit and some not, after each of the fields; 5 packets are two more than the level, so that a
  change passes through a whole history and out of it. With 4 bits a history of 3 packets also
  overflows.
* *Time*: days of 2 seconds put midnight between any two steps; the calendar is the real one.
* *Radio*: two arrivals, the second before or after the first is read; of the links one is
  too slow for the wait for TX_DONE, one has a preamble too short for a duty cycle, and on one the
  driver refuses to listen.
* *Reference*: halves of 8 bytes for 2048, with photos of less than one to more than three
  halves, with and without a rest, and of one byte less than a half, after which the next photo
  finds a flag set; the beacon timer expires after at most 5 passes of the loop.

Deadlock is checked in every run but `compress`, `time` and `units`, whose behaviours end when
their bounds are used up; in the others finished behaviours stutter (`Finished`) or there are
none.

## 4. Fairness

* ModeChange: OBC steps, the flash server and the task steps are weakly fair, because the
  kernel runs the highest ready task and the guards include `MayRun`; nothing is assumed of
  radio interrupts, telecommands or the beacon timer. Ending a loop is strongly fair: a body that
  is preempted again and again still ends, which the kernel's saved context justifies. Time
  is strongly fair: it passes whenever nobody can run, again and again. A paused poller
  that never blocks does not stop time (`Spinning`).
* LoraConfig: the transceiver reaches `lora_cfg_tick` in each loop, COMMS ends the request it
  is in, seconds pass. Receiving or being commanded is not fair.
* ArqUplink, ArqDownlink, Link: COMMS and TRANSCEIVER are scheduled, the ground station goes
  on, a frame on the air arrives or is lost. Faults are bounded by constants and otherwise
  free, and the liveness properties name the ones they except.
* Flash: OBDH is scheduled. Radio: the task is scheduled, the chip ends what it does, the OBC
  resumes what it paused; arrivals are not fair.
* Reference: loops, timers, DMA and the radio's transmissions go on; commands do not come by
  fairness.

## 5. Proofs

TLAPS checks them for every value of the constants within the assumptions of the modules, which
TLC evaluates on each run: every set of tasks that includes OBDH and COMMS, every list of
uploads, downloads or commands, every layout of the flash, every length of the ring, every
number of losses, faults and resets, every packet length and protection level. Each argument is an inductive invariant: `Init` implies it, each action
keeps it (one step per action), and it implies the property.
All safety properties of the passing runs are proved. Where each argument lies:

| Module | Theorems | Properties of runs |
|---|---|---|
| `ModeChange_proofs` | `TypeCorrect`, `PausedTasksIdle`, `StateIsPersisted`, `QueueNeverFull`, `RoundTrip`, `WatchdogBitesAfterFault`, `QuietSystemIsHealthy`, `AckedPause`, `PauseAlwaysTimesOut` | `PausedDoesNoWork`, `StatePersisted`, `AtMostTwoQueued`, `OneRequestPerBlockedClient`, `WatchdogNeedsFault`, `QuietNeverFaults`, `AckedPauseIsPaused` |
| `LoraConfig_proofs` | `TypeCorrect`, `CommitsWhole`, `LinkSettles` | `NoTornCommit`, `UnheardLinkIsTemporary` |
| `ArqUplink_proofs` | `Implements`, `AcksAreExactHolds`, `TypeOKHolds` | `WritesWholeFiles`, `AcksAreExact` |
| `Flash_proofs` (also downloads) | `AnsweredIsKeptHolds`, `WritesAreIsolatedHolds`, `AcceptedIsASnapshotHolds`, `DlTypeOKHolds` | `AnsweredIsKept`, `WritesAreIsolated`, `AcceptedIsASnapshot` |
| `Link_proofs` | `TypeOKHolds`, `OnceOutsideExchangesHolds`, `AckedIsKeptHolds`, `OkMeansReceivedHolds` | `OnceOutsideExchanges`, `AckedIsKept`, `OkMeansReceived` |
| `Radio_proofs` | `NeverDeafHolds`, `CutOnlyByOthersHolds`, `PassedOnOnceHolds`, `BlockingReadsAreFreshHolds`, `TypeOKHolds` | `NeverDeaf`, `CutOnlyByOthers`, `PassedOnOnce`, `BlockingReadsAreFresh` |
| `Clock_proofs` (also the wall clock) | `SafeClockHolds`, `ClockAgreesHolds`, `ReadsTheTimeHolds`, `OnlyWhatWasSentHolds`, `ToCalendarInverts`, `AfterIsNext` | `SafeClock`, `ClockAgrees`, `ReadsTheTime`, `OnlyWhatWasSent` |
| `Compression_proofs` (also the reference firmware) | `InStepHolds`, `NeverCrowded`, `SetOfDeltas`, `UnhxorInverts`; `DeinterleaveInverts`, `ImageIsCoveredHolds`, `ClockIsSafeHolds`, `PhotoIsPlacedHolds` | `InStep`; `ImageIsCovered`, `ClockIsSafe` |

Three of them are refinements: uploads implement FileStore, `Write_Flash` implements StableStore,
and downloads implement SnapshotFile, step by step.

**Mode changes.** The first invariant is `TypeOK /\ QueueShape /\ PauseShape /\
StatePersisted /\ OneRequestPerBlockedClient`. `QueueShape` says that the queue holds at most
one request of a subsystem task, followed by the one of OBC exactly while OBC is in a write.
It is inductive because of the priorities: OBDH outranks every other client, so a client that
runs sees an empty queue (`ClientSeesEmptyQueue`), and OBC submits only from its
own control points. `PauseShape` adds to `PausedDoesNoWork` that a paused poller is not
in its queue wait, and that nothing has started before OBC has booted.
The second, `TimedInv`, is about real time. `ObdhTurn` follows the one task that always runs
before the others through a transition: it pauses, then polls without end, so COMMS, of a lower
priority, cannot acknowledge, and the wait of `tm_pause_tasks` lasts its whole ten seconds in
every transition (`PauseAlwaysTimesOut`). `WatchdogBudget` bounds the time since the
last refresh at each control point of OBC, its waits added up; `KicksInTime` says of each monitored
task that has not kicked that what is left of its wait ends before the period does, and
`QuietShape` that nothing but a transition disturbs that.

**Link configuration.** `s_state` is a token (`Turn`): COMMS holds it while it is past its
check and the slot IDLE, TRANSCEIVER while it is PENDING. From who holds it follows which copy
is whole (`Request`, `Slots`), what the radio is set to (`Radio`) and that the fallback of a revert
is a link that was heard, a default or kept on demand (`Fallback`).

**Uploads.** Only DATA_END changes flash; its CRC makes the buffer equal to the file of the frame,
and `IInv` (every queued frame belongs to an upload; the session has a known type) makes
that one of the files of the ground station (`EndStores`). What is then found at the two addresses
is a matter of which blocks the write covers (`FoundAtItsPlace`): a TLE leaves the calibration
unless it is longer than its room (`CalibrationAfterTle`), and a calibration leaves the TLE unless that
one is (`TleAfterCalibration`); a file that is not all there is `Damaged`, since a cell knows its block.
It needs nothing about the bitmap: this is why flash is safe although acknowledgements are not
always true. `AcksAreExactHolds` does need it, and
has a hypothesis, `FilesFitBitmap`: files of at most 65 blocks, since blocks beyond base + 64 have
no bit (the buffer of the code holds 512 bytes, far below). `Exact` says that what base and bitmap report
is what came; moving base over the reported blocks keeps it (`AdvanceReports`) unless a block was
missing between them, for then the bitmap is shifted once too little: that is `skewed`, the
exception of the property. It is not said that every full window is answered: a block that comes twice after a
skew counts twice, and the count then passes the multiple of the window (`arq.c:537`).
`TypeOKHolds` needs no such hypothesis: `SessionTyped` keeps
base inside the file, since it moves by `AdvanceMoves` over no more blocks than are left, and an
armed session has base 0 when DATA_BEGIN gives it its length. With `Plan` (a block to send while
sending, `txBase` below the length) it makes every step of either side one of numbers and blocks
that exist.

**Downloads.** Versions only grow (`Versions`), and a session that is served stays the one it is
(`InSession`). What the ground station holds is no newer than the file in flash when
the last window was acknowledged, and what the second reading finds is no older
(`Bracketed`): a CRC that agrees squeezes all three together. That is why the second reading of
step 3 of `arq_run_dl` is needed, and why no lost, late or repeated frame matters.

**Flash.** `Rewriting` says where `Write_Flash` is: the pages before are written, `dataSave` is the
page with the new bytes over it, and flash has its first doublewords. `Waiting`: queued requests are of
different places and newer than what is stored. The assumption `SeparateAssumption` (the places of
`flash.h` do not overlap) is what the proof needs and the code does not enforce for one file:
`arq.c:134` does not limit the length of a TLE to the 139 bytes before the calibration. What that
does to the two files is in ArqUplink (`PlacesAreKept`).

**Link layer.** `Received`: unless a store has set the counter back, an ACK on its way was sent
for telemetry that was received, and no two frames of telemetry have one number (`NumbersTell`):
each number in a frame is below the counter, or below the number that COMMS has loaded and not
stored yet, and what is made later is numbered higher. Without the exception that is false (`NumbersTellFrames`).
`PromisesKept`: whatever makes the satellite acknowledge a command (the ring, an ACK in
the air) is matched by the command itself somewhere between the antenna and
`tc_process`. `Ordered`: commands come in their order and none is older than the newest entry of
the ring, so a ring of one entry suffices; `Counted` then bounds executions, queued copies and the frame in hand
together.

**Radio.** `Seats`: who uses the chip, and in which mode it can be there. `Undisturbed`: during a transmission
the task waits, unnotified, unless another task notified it or the frame is too slow for the
wait. `Fresh`: a flag RX_DONE is about a frame nobody has had. `Caller`: the same for the blocking
receptions, whose flag must be newer than the call. `Typed` adds to the types where the attempts are
bounded: the scan is left at the last one, and an exchange ends before the loop is at its places.

**Clock tree.** The calls that are left are always a suffix of a program (`Programs`), and `Tree` says what
the calls that are left imply of the ones done: while the switch to the PLL is not left, the PLL runs and the voltage
and the wait states suit it. A failure ends the program at any point, so `SafeClock` has to hold after each suffix
and each half effect; `Agree` adds what the idle system relies on.

**Wall clock.** The calendar comes first: the days before a year in closed form, the months and years
that hold a day, hence that the two conversions are inverse on every second up to the last
year (`ToCalendarInverts`) and that the RTC's second is the conversion's (`AfterIsNext`).
`RtcInv`: the calendar agrees with the time while nobody holds the mutex, and between the two
writes of a set only the seconds do; midnight there is the exception the property names (`jumped`).
For `OnlyWhatWasSent`, `LinkInv` says that what is on the air is the command as encoded or marked
as sent again, so what the air harms has a tag of something else. The HMAC is ideal; the time fits
a `uint32_t` (`WordAssumption`) and 2000 to 2099 (`EpochsAssumption`), where the code wraps around.

**Compression.** Two inverses carry it: the receiver's sums of deltas give back the set
(`SetOfDeltas`, by the rank of a position: the i-th sum is the i-th position), and its parity
of the bits to the left gives back the mask (`UnhxorInverts`). Both are recursions over a
packet, proved without an induction theorem from a least counterexample, which a set of naturals
has. A history is read in windows: `P(i)` and `N(i)`
are the positions that the entries of the i-th packet back stand for, the sums taken through the whole
buffer. Without `crowded` the counts and the buffer agree (`Good`), and then a new packet puts its
changes in window 1 and moves each other window one place, which is what shift, insertion and
wrap-around come to. `Recent` orders the changes: what window i added is still in the mask, and what it
removed and is there again was added by a window no older. It needs that `startPocket` refuses a level above the
update rate (446): an update of the mask then finds every position that a window added in
`positive`, and keeps it. So the receiver may take out the removed positions of
all windows first and add the added ones after. `ReceiverOK`: where its mask differs from the encoder's is in
the windows of the packets it missed. `NeverCrowded` is about level 1, the only one
`safeStartPocket` starts and the build has memory for.

**Reference firmware.** `COMMS_State` never leads into the inner loop, and packets are counted with
a size no larger than what each one carries (`Downloads`). The OBC's clock is that of the state whose
function runs, and low-power run mode is on only in SURVIVAL after its clock is set (`Clocked`).
During a transfer the index is the number of halves filled, in bytes, and so is what is written
(`Halved`): the interrupts and the poll never disagree about the place of the next byte.
As long as the DMA delivers each photo, the flag that is set is that of the half filled last, and no
photo finds one of a photo before (`Flagged`). `PhotoIsPlaced` follows, which no run has as an
invariant: for a photo that is accepted as many bytes were written as it has, each part after the
one before, and the last was read from its half. It does not say that the last part was there when
it was read, which is false (`LastPartHadArrived`).
The interleaver's columns are disjoint and cover the packet.

**Only model-checked.**

* Liveness (`CommandTakesEffect`, `SlotIsReleased`, `UploadsComplete`, `SessionsEnd`, `DownloadsArrive`,
  `CommandsArrive`, `RequestsAnswered`, `QueueIsServed`, `PingIsAnswered`, `CommsKeepsListening`,
  `PhotosEnd`, `ObcFollowsState`): the provers have no rule for fairness.
* The assumptions of Telemetry and Timing: arithmetic over finite sets, which TLC enumerates in full.

## 6. Findings

`PROJECT.json` has each at its line with the text it contradicts. Those with a property are
behaviours TLC finds; to see one, add the property to a configuration with these constants:

| Property | Module | Constants | What it shows |
|---|---|---|---|
| `TransitionResumesTasks` | ModeChange | OBDH, COMMS, EPS; boot and command NM | RESUME merges with PAUSE in one notification value, and the task stays paused |
| `CommandLinkReturns` | ModeChange | OBDH, COMMS, BEACON; command NM; `FairSpec` | the same of COMMS, for ever; it holds with EPS in the place of BEACON |
| `NoAbandonedRequest` | ModeChange | OBDH, COMMS, TRANSCEIVER; no command; `MaxExchange` 6 | a task is deleted with its flash request queued |
| `MonitoredAreRunning` | ModeChange | OBDH, COMMS, BEACON; command NM | the expected set is updated without a lock, and a paused task stays monitored |
| `RevertsToWorkingLink` | MCLoraConfig | Links {SF9}, none invalid, `OnlyAtOnce`, `MaxTime` 3, `MaxSent` 1, no clock set, no reset | the boot configuration is not what the radio is set to |
| `WrittenInItsPlace` | MCArqUplink | `TwoFiles`, `Capacity` 4, `TleRoom` 3, `MaxFailures` 1, no loss | a calibration is written over the TLE |
| `PlacesAreKept` | MCArqUplink | `TwoFiles`, `Capacity` 4, `TleRoom` 3, no loss, no failure | a calibration is written over the end of a TLE that is too long |
| `AcksReportReceived` | MCArqUplink | `OneFile`, `Capacity` 4, `TleRoom` 3, `MaxLosses` 3, no failure | the bitmap is not shifted when the base advances by one |
| `CommandsAreCommands` | MCLink | `TwoReports`, ring 1, `Budgets <- LateAndBeacon` | a late ACK is executed as a telecommand |
| `NumbersTellFrames` | MCLink | the same | a beacon stores its number late, and telemetry takes the late ACK of another for its own |
| `LastPartHadArrived` | MCReference | those of `units` | the second half of the buffer is copied before the wait for it |
| `LastPartIsFound` | MCReference | those of `units` | a flag left set sends the next photo to the wrong half |
| `WaitsForTxDone` | MCRadio | those of `chip` | a transmission is cut off by any notification |
| `NeedsNoHistory` | MCCompression | `ScriptSpec`, `Packets <- ScriptPackets`, 32 bits in one word, `PacketSize` 4, `Capacity` 16, level 8, rate 20, anchor 0, `MaxPackets` 12, no deadlock check | a full history drops a packet in its middle and sends stale deltas |

Others were met while the code was translated, and a property of a run has to except them:
a flash error is answered HAL_OK (`AnsweredIsKept`), a failed clock switch is ignored
(`ClockAgrees`), midnight between the two RTC writes sets the clock a day back
(`ReadsTheTime`), a start bit taken with a pause leaves the session active (`SessionsEnd`), TX_READY
taken while paused is lost (`QueueIsServed`), a preamble the driver refuses leaves
the radio deaf (`NeverDeaf`), and in the reference firmware a configuration command is
applied over and over (`CommsKeepsListening`) and a photo one or two bytes short of
a full half never ends (`PhotosEnd`).

## 7. What is not modelled

* SHA-256 (`auth.c`): the HMAC is ideal. `log.c`: formatted output. SPI, pins and delays of the
  radio HAL, and the conversion by the ADC: I/O.
* A pause or a reset of BEACON, EPS, ADCS and PAYLOAD inside their work: their work is empty or
  one frame. The two functions of `ht_handling.c` that have no body.
* `lora_cfg_active_snapshot` copying a configuration while TRANSCEIVER commits: a configuration's
  link is one value in LoraConfig, so a report of half of each is not in the model.
* The wrap of the 8-bit sequence number in Link (256 frames are beyond its bound).
* TRANSFER_FLIGHT_PARAMS: no telecommand arms it. What lies in flash behind the calibration.
* Of compression: a second `startPocket` at a level above 1 (it keeps the level and the size of the
  last packet; at level 1, the only one the build has room for, it begins as the first),
  `npBitsOffset`, and packets of more than 2048 bytes, which `startPocket` accepts.
* Of the reference firmware: the bytes of an image, in the camera's DMA and in a download; the
  peripherals that `HAL_DeInit` of `Clock_8MHz` resets (`clock.c:159`).
* The reference firmware's ADCS and RFI: floating-point numerics in straight-line code (SGP4,
  IGRF, quaternions, FFT), which TLC cannot compute. Its `store_telemetry` and
  encryption, which nothing in the repository completes.
* Vendored code (`external/`), generated start-up code, the mock of the radio.

## 8. Plan

Every component with behaviour of its own has its module, and every safety property of the passing
runs its theorem. What could come next, in this order:

1. Type correctness as a theorem of its own for the modules where it is only part of the invariant
   (`Good`, `RtcInv`, `Halved`), as it is for ModeChange, LoraConfig, Link, Radio and both directions of ARQ.
2. Telemetry builder and Timing as functions proved about: TLC enumerates them in full today.
3. The bytes of a photo: RefCamera counts places, and of the last part which half it was read
   from and whether it had arrived.
4. The ring of `dedup.c` with sequence numbers of its width, and its wrap after 256 frames.
