# EmbeddedPixel in TLA+

A verification development of the EmbeddedPixel firmware (C++17, FreeRTOS and
lwIP on an STM32H7). Its core is the field update: an image is uploaded over TCP
into RAM, announced to the bootloader through a control block that survives a
reset, and installed in external flash. Around it: the server and the hosts that
upload through it, the telemetry streams, the network manager with the Ethernet
driver's receive side, the clock, and the packets all of them share. Source paths are relative to the
repository; they name lines as `file:line`.

## The system

Five application tasks, a network thread and, on every reset before them, a
second-stage bootloader:

| Part | State it keeps | Operations | Interacts through |
|---|---|---|---|
| `OtaService` | session state, expected size and CRC, flags, 160 KB staging buffer | begin, data, end, abort | RAM control block, staging RAM |
| Bootloader `apps/bootloader/main.cpp` | progress of an installation, slot A in flash, boot info | check, erase, program, verify, jump | reads what `OtaService` left in RAM |
| `CommandService` (priority 5) | listening socket, one client, receive timeout | accept, read, dispatch, close | calls every service; delayed reset |
| `ConsoleTask`, `CliEngine` (2) | line buffer | the CLI, also reached through `CMD_CLI_EXEC` | `SystemController` facade |
| `SystemController` | feature flags, boot info | set feature, start and stop streams, abort, reboot | called from two tasks |
| `TelemetryService` (3) | channels, `is_streaming_`, destination, sequence number | start, stop, the sending loop | UDP 50001 |
| `DiscoveryService` (2) | node state, sequence number | heartbeat, ping/pong | UDP 50000 |
| `NetManager` (4) | link, address, fallback | poll link, DHCP, static fallback | callbacks posted to `tcpip_thread` (6) |
| `TimeManager`, DWT time source | offset, drift, mode; software extension of a 32-bit counter | RTT samples, beacons, reading the clock | called from tests only, no application wires it |
| Ethernet driver, lwIP port | DMA descriptors, round-robin buffers | receive, send | polled by `NetManager`, frames posted to `tcpip_thread` |
| `Crc32`, `PacketHelper`, `ProtocolTypes.h`, `Version.h` | none | checksums, headers, layouts, versions | called by every service; spelt a second time in the hosts' scripts |
| `Stm32ExtMemFlash` | none (controller and chip) | erase, write, read | the application only calls `init` |

There are no application mutexes and time slicing is off: a task is preempted
only by one of higher priority, at any instruction, and what two tasks share is
plain memory. The services' handlers do not block, so the console (priority 2)
never sees a handler of the command task (priority 5) half done, but the command
task may run whole handlers between any two stores of the console.

### What is hard, and what makes each part correct

- *OtaService*: two tasks without a lock; data that is in the cache but not in
  SRAM when the node resets; sessions that outlive a connection. Correct: READY
  means that a reset at any moment installs exactly the acknowledged image.
- *Bootloader*: reset, power loss or failing flash between any two operations.
  Correct: only a verified and compatible image is written; an untouched or
  finished slot is intact; from outside, an update is atomic.
- *CommandService*: one client at a time; silent and vanishing clients; uploads
  spread over connections. Correct: everyone in the queue is dealt with, a lone
  uploader finishes, and interleaved uploads never mix.
- *Telemetry, discovery, flags*: start and stop from two tasks, one of them
  preempted anywhere, and a loop that acts on what it read before blocking.
  Correct: enabled channels, the engine's flag and the reported state agree,
  streams that run do not starve, stopped ones stop.
- *Network manager*: the static fallback against a late lease, links that go and
  return while frames of the old one wait, a memory that runs out. Correct: no
  packet buffer is lost, no address outlives its link or lease, a node that can
  have an address gets one, heartbeats go on.
- *Time*: a counter that turns over, two tasks that start it, steps backward,
  late beacons, a correction whose readings and stores others look between.
  Correct: local time runs true, UTC between corrections turns back by steps
  alone, a beacon leaves a bounded error, a silent master is noticed.
- *Ethernet driver*: buffers handed out round-robin without asking whether they
  are in use. Correct: no two descriptors share one; the ring is a queue.
- *Packets and checksums*: written once in C++ and once in Python. Correct: both
  mean the same, for every field, code, length and checksum.
- *Flash driver*: it unmaps the flash the program runs from, waits for the chip by
  fixed delays and drops the data cache unwritten. Correct: no other byte of the
  flash changes, no interrupt finds the flash unmapped, stale in the cache or, if
  the delays suffice, busy; what memory has of the data is stored.

`PROJECT.json` lists every hazard at its line with the properties that cover it.

## Modules

| Module | Models | Notes |
|---|---|---|
| `OtaMemory` | what application and bootloader share: staging RAM, control block, image header | chunks of 1024 bytes, the unit of `CMD_OTA_DATA` and of programming |
| `Core` | which program the core runs | a variable that `Bootloader` moves and `FlashDriver` looks at |
| `Peers`, `Activity` | what others look at: the connections of the server; whether the node streams and where the console is | variables that `CommandServer` and `Telemetry` move, and `Wire`, `Streams` and `Cli` look at |
| `OtaService` | `OtaService.cpp` and the two tasks that call it | one action per outcome of a handler; the console's abort store by store; `WriteBack` is the cache |
| `OtaInstall` | abstract: what an update promises of slot A | no RAM, no flash operations, no block |
| `Bootloader` | `check_and_install_ota`, `main`, resets and power loss | `Spec` runs it against an arbitrary application |
| `OtaUpdate` | the application, the reset and the bootloader composed | `EXTENDS OtaService, Bootloader` |
| `OtaProgress` | `OtaUpdate` with fairness | liveness |
| `OtaCancel` | `OtaUpdate` with a memory of aborts | a documented promise that fails |
| `CommandServer` | the TCP server with the hosts of `ota_updater.py`, the feature word that console and command task set | `EXTENDS OtaService` |
| `Telemetry` | `TelemetryService.cpp`, the stream commands of `CommandService`, `SystemController` and the CLI, the state `DiscoveryService` reports | the command task in whole handlers, the console access by access, the sending loop |
| `FrameQueue` | abstract: what the manager may take the receive side for | a bounded queue |
| `EthRing` | the receive descriptors and buffers of `Stm32H7Eth.cpp` | the MAC stores, `HAL_ETH_ReadData` takes and rearms |
| `NetManager` | `NetManager.cpp`, `ethernetif.cpp`, the mailbox of `tcpip_thread` and the callbacks posted to it | `EXTENDS EthRing`; cable, DHCP server and lwIP's memory are external |
| `Network` | `DiscoveryService::run` on top of it | `EXTENDS NetManager` |
| `TimeSource` | `Stm32H7DwtTimeSource.cpp` | a counter of `Wrap` values extended in software |
| `TimeManager` | `TimeManager.cpp` on top of it, with a master whose beacons come late, twice or out of order | `EXTENDS TimeSource` |
| `Streams` | channels, stream requests, intervals, frames and sequence numbers | operators only: the numbers behind `Telemetry` |
| `Cli` | `ConsoleTask`'s line editor, `CliEngine`, `SystemController` and what a command does behind it | operators; commands one after another |
| `Checksums` | `Crc32.cpp`, `crc16_ccitt` here and in `ota_updater.py` | operators; a word is the set of its one bits |
| `Versions`, `Wire` | `Version.h`; `ProtocolTypes.h`, `PacketHelper.h`, what handlers and scripts read and write | operators; a layout is a sequence of fields with widths |
| `FlashDriver` | `Stm32ExtMemFlash.cpp`, with core, cache, controller and chip external | operators; an operation is the sequence of its steps on a node |
| `BootloaderProofs`, `OtaUpdateProofs`, `CommandServerProofs`, `TelemetryProofs`, `NetworkProofs`, `TimeManagerProofs`, `AlgorithmProofs`, `AgreementProofs` | the theorems | the last two about the operator modules |
| `MC*` | instances for TLC | |

`Bootloader` implements `OtaInstall` (property `UpdateIsAtomic`), and `OtaUpdate`
implements `Bootloader` (property `RefinesBootloader`): what is established for
the bootloader against any application holds of the real one. `EthRing` implements
`FrameQueue` (property `RingIsQueue`), on its own and under the tasks of `Network`.

The operator modules `Streams`, `Cli`, `Checksums`, `Wire` and `FlashDriver` have no
state of their own. Each ends in one definition that compares the code with a
reference over bounded inputs, as an invariant of the states in which some
component relies on it: a pending image was held against its
checksums (`ChecksumsHold`), a connected host's requests are understood
(`WireHolds`), a streaming node sends what was asked for (`StreamsHold`), a console
that waits for a line does what the next ones say (`CommandsHold`), a running
application's flash driver does what its callers may take from it (`FlashHolds`). `AlgorithmProofs` proves
what they compare for inputs of every size, and `AgreementProofs` concludes the invariants.

### Correspondence with the code

- `state`, `expected`, `bytesWritten`, `autoReboot`, `rebootPending`, `lastError`
  are the fields of `OtaService`; `expected` stands for the pair of image size and
  CRC. `VERIFYING` is not a value of `state`: handleEnd leaves it before anyone
  who can see it runs.
- `staging` is the staging buffer as the CPU reads it, `ram` as the SRAM holds
  it. `AcceptBegin`, `StoreData` and startup write `staging`; `WriteBack` moves
  one chunk at any time; `Cleaned` is `SCB_CleanDCache_by_Addr`. A reset keeps `ram`.
- `cmd` is where the command task is: waiting for a command, writing the
  acknowledgement of END (which may block), or in one of the two delays before a
  reset. `aborting` holds the stores the console's handleAbort still owes, in any
  order: the fields are plain, so the compiler may order or merge them.
- `block` is the control block: a valid PENDING_INSTALL one with its image, or
  anything else. It occupies one cache line, cleaned before anything can reset.
- `bpc`, `sector`, `offset`, `slot` follow `check_and_install_ota`: sectors of
  4096 bytes (`SectorChunks`), chunks of 1024. A program operation on a chunk
  that is not erased, or one that goes wrong unnoticed, leaves `Junk`; a failed
  or interrupted operation may or may not do the same.
- `current` and `torn` are history variables: the image last known to be in the
  slot, and whether the slot has been written to since.
- `enabled`, `streaming`, `nodeState` are each channel's `enabled_`, `is_streaming_`
  and the discovery service's `state_`. `period` is the packet interval that rate
  and batch give, any up to `Longest` after a start: a rate above a thousand
  batches a second still means one tick. `age` counts the ticks since
  `last_wake_tick`; the loop's `now` stands still while a packet is being sent.
- `cpc`, `target`, `todo` are where the console's start or stop is. `raced` and
  `late` are history variables.
- A start over TCP does not ask for `FEAT_TELEMETRY_STREAM`, and one of an unknown
  tag turns the engine on with no channel, as in the code. The console's start
  does ask; refused, it changes nothing, so the flag is not a variable here.
- `srv`, `conn`, `queue` are the loop of `CommandService::run`; `link`, `step`,
  `phase`, `sent`, `reply` are the hosts. `set_feature` is a load and a store of the
  whole feature word: `held` is what the console has loaded, `wanted` a history
  variable with the last setting of the update flag, empty while that is in doubt.
  A script that was refused or is done exits, and its connection with it (`Closes`,
  in `Hear`). `Reset` may keep the block: an installation that fails leaves it.
- `armed`, `bufferOf`, `content`, `dmaAt`, `cpuAt`, `rxAllocIdx` are the receive
  descriptors (`OWN`), the addresses in them, the buffers, the MAC's and the HAL's
  positions and the driver's `rx_alloc_idx`. Every frame fits one buffer.
- `pc` is where `NetManager::run` is; `mbox` is `tcpip_thread`'s mailbox with frames and
  callbacks. That thread has priority 6 and the manager 4, and only the manager
  polls the ring (no interrupt does), so the manager's steps require an empty
  mailbox (`TcpipDone`): this is why the fallback, decided before it is applied,
  never overwrites a lease. `addr`, `ifUp`, `dhcp` are the netif's; DISCOVER to ACK
  is one frame, "lease"; `LWIP_ACD` is 0, so a lease binds at once. `free`, `udp` are
  the pbuf pool and the discovery port's mailbox. `lost` and `expired` are history
  variables: a callback found no memory, a lease ran out.
- `dpc` is where `DiscoveryService::run` is; `beatAge` the time since
  `last_hb_tick`, counted in the manager's delays.
- `zeroedAt`, `lastCyccnt`, `accumulated`, `initialized` are the time source's;
  `asking` is where each task is in `init()`, which no lock guards. `cycles` is true
  time. The names of `TimeManager` are the fields named beside them. A slope is
  1 + `drift` / `SlewUnit`; both gains are 1, and conversions truncate as C's do.
- A handler of `TimeManager` is several actions. `RttSample`, `Beacon` and `ForceStep`
  are its decision with the first reading of the clock it makes; `ReadUtc` and
  `ReadLocal` are the two readings of `apply_slew` (`TimeManager.cpp:189`, `:190`),
  `StoreBase`, `StoreRef` and `StoreDrift` the stores of the line (`:191` to `:193`, `:166` to
  `:170`), `StoreState` that of `m_state`. `handler`, `stepping`, `goal`, `point`, `rate`
  are the handler's locals, `at` says what it does next; time passes and
  other tasks read the clock in between (`Runs`, `Reads`). `Observe` is a reading of UTC
  while no handler runs; `began` and `seen` are history variables.
- In `Streams` a channel is a record of what the service asks it for. Interval,
  batch and frame are computed as the code computes them, in integers; a request
  is what `CMD_START_STREAM`'s payload or the CLI's words make of it.
- In `Cli` a line is a sequence of words, spaces and control characters; in the
  editor, of keys. `Stripped` and `Tokens` are the two loops and `strtok_r` of
  `CliEngine::execute`; each `cmd_` operator gives the node after a command and whether
  the answer is OK, an error or only shown. A node is what the commands change:
  features, channel slots, the engine, the reported state, the LED's period.
- `readExact` in `Wire` is `NetconnStreamReader`: what is left of the last buffer, and
  the buffers to come. `CommandServer` takes requests whole; this is why it may.
- In `Wire` a host's format string is a layout whose values are named after the
  fields the script takes them for; agreeing means that every byte of every
  field has the same place. The structures' sizes are those the code asserts.
  `HostPongFormat` is a PONG's format string value by value and `HostPongNames` the
  names it is unpacked into, of which there are fewer; the image header has a
  place at each end, `APP_HEADER_OFFSET` and `APP_HEADER_FLASH_OFFSET`.
- In `FlashDriver` the driver's functions are sequences of steps of a node: the
  chip with its cells, latch and busy state, the controller, interrupts, the
  cache. The chip forgets its latch after a command, wraps inside a page and
  only clears bits; it is busy for a while after a command, at least until the
  next step, and the driver, which only delays, does not ask (`slow` are the steps
  it is still busy in). A command that comes while it is busy or does not reach
  it (`missed`) does nothing. The data of a write is a pointer: each page reads
  it from where it is (`Byte`), as the cache has it or, once `SCB_InvalidateDCache`
  has dropped a line that was not written back (`held`, then `lost`), as memory has
  it; data in the flash itself and not in the cache faults, since the flash is
  unmapped then. Line 0 stands for all other RAM. Sectors, pages and words are
  scaled down.

## Runs

| Run | Question | Instance |
|---|---|---|
| `bootloader` | is an installation safe and atomic? | slot of two sectors of two chunks; good, foreign, empty and oversized images |
| `ota_update` | does READY survive everything, and is the application a legal environment of the bootloader? | images of two chunks, the second with a header; two bytes of data and 0xFF; the abort in two stores |
| `ota_progress` | does an announced reset end in the new image, does every boot end? do node and host compute the same checksums? | one image, two resets from outside; every message of one byte, corner cases of two and three, the check message, with every single changed byte |
| `command_server` | is everyone served, does an upload complete? do scripts and node mean the same packets? | an uploader and two clients that are silent or vanish, two accept errors; every structure, code and request, and every cut of six bytes into buffers |
| `two_uploads` | can interleaved uploads mix, does a lock keep them out? | two uploaders of different images, one slow, a third host that locks, aborts and reboots, a console that sets this flag or another |
| `ota_cancel` | does abort cancel a pending update? (no) | one image |
| `end_names_image` | is END's OK about the caller's image? (no) | two slow uploaders |
| `telemetry` | do channels, engine and heartbeat agree, do streams flow and stop? does a request set what it names, and does loss show? does a line at the console mean what it says? | two channels with intervals of one or two ticks; the application's five channels, every setting that two requests reach, every schedule of four packets of two channels with or without a buffer; every line of up to four words at every node that two commands make, every five keys at a buffer of three |
| `stop_is_selective` | does stopping one channel leave the others? (no) | two channels |
| `network` | are buffers conserved, are address and link consistent, does a node come up and go on? | two descriptors, one pbuf, two frames between delays, one lost callback, all three address modes |
| `time_manager` | does time run true, does UTC turn back, how far off is it, is silence noticed? | two tasks, a counter of three values over five cycles, two synchronizations, a master one microsecond ahead |
| `clock_readers` | does no reader ever see UTC turn back but by a step? (no) | one task, a master level or three microseconds ahead |

Bounds. Two chunks are the least that put the header in a chunk of its own and
let an upload be partial; three chunks in sectors of two make an image that ends
inside a sector; a slot larger than the buffer has a tail no image reaches.
In `two_uploads` the queue holds one connection, so that it is full at times.
The flash driver, in `bootloader`, takes every range of up to
30 bytes on three sectors of two pages, three sets of lines that only the cache
has (none, all, some of each page), data in RAM and in the flash, any one missed
command, and a chip that is always or never slower than expected.
`Junk` and `Zero` coincide with a chunk of an image in the instances, so that
accidental matches happen. Two data values tell a mixture from an image. Two channels are the
least in which a scan passes one before it comes to the other, and two intervals
the least that let one wait while the other is sent. Two
resets from outside (`MaxResets`) interrupt one installation twice. In `network`
one pbuf and two descriptors make ring, pool and mailboxes run full and each
other's neighbours empty; two polls (`LeasePolls`, `ResetPolls`) are a first and a
last one; `Burst` limits the frames between two delays, of which there are
endlessly many; `MaxLost` is one because after a lost callback nothing is
promised. In `time_manager` `MaxCycles` lets the counter turn over once between
readings and once unread (`Overdue`); `MaxSyncs` 2 gives a step and a correction in
either order; a forced step of five microseconds (`MaxSteps` lets one be the
second step) leaves a clock further off than the threshold; a delay of
one microsecond reorders two beacons. Nothing else
is bounded: sessions, aborts, installations and power losses recur for ever.

The `VIEW`s leave out variables that are only reported (`lastError`,
`bytesWritten`, `reason`, `bootCount`); no guard, no other variable and no
property of those runs except types depends on them. `CHECK_DEADLOCK FALSE` is
used where the system really stops: a node whose flash did not start stays in
the recovery loop, a torn application may hang, and hosts that have finished or
given up leave a server that waits, and time ends after `MaxCycles`.

### Fairness

- `ServerStep` is weakly fair: `CommandService` blocks only in calls that return
  (the receive timeout is modelled as `TimesOut`, and only for hosts in `Slow`).
  `tcpip_thread` and `NetManager` are above it in priority and always wait again.
- `HostStep(h)` is weakly fair for the hosts that are not slow: the script goes
  on as long as it is answered. Nothing is assumed of slow ones.
- `LoopStep` in `Telemetry` is weakly fair: the loop has priority 3, the command
  task above it waits for the next command after each one, `netconn_sendto` returns,
  and `NetManager` and `tcpip_thread` wait between frames.
- In `Network` the manager, `tcpip_thread` and the discovery task are weakly fair:
  each blocks only in waits with a timeout or in delays. Nothing is assumed of
  cable, DHCP server or memory; `LinkGivesAddress` asks that the link stays, that
  no callback was lost and that the manager was started.
- `Update` in `TimeManager` is weakly fair: the header asks for it to be called
  periodically. So is `Continues`, the rest of a handler, which is sequential
  code. No application wires the clock; its tests do.
- In `OtaProgress` the steps of the bootloader, the jump, and the reset after a
  delay are weakly fair: the first two are sequential code, the last is a timer.
  Faults of power, flash and external memory are counted out by `disturbed`,
  since after them the code promises nothing.

### What the failing runs show

- `ota_cancel`: `handleAbort` (`OtaService.cpp:169`) resets the service but not the
  control block, so a completed upload is installed by the next reset although
  `ota abort` is documented as "Cancel pending OTA update" (`CliEngine.cpp:99`;
  `docs/DESKTOP_INTEGRATION.md:82` says it "frees staging buffers").
- `end_names_image`: `handleEnd` (`OtaService.cpp:121`) ignores
  `PayloadOtaEnd.image_crc32`, "Final full image CRC32" (`ProtocolTypes.h:267`). When
  another host begins a session between two connections of the first, the first
  is told OK for the other's image. The image is still whole (`EndIsWhole`).
- `clock_readers`: `apply_slew` stores base, reference and slope one by one
  (`TimeManager.cpp:191` to `:193`). A task that reads UTC after the first store adds
  the time since the old reference to a base that has it already, and once the
  second is done reads less: time turns back without a step, although
  `TimeManager.h:42` and `:70` promise "Strict Monotonicity". `OnlyStepsTurnBack` shows
  that this is confined to readers who look inside a handler: two readings
  between handlers are in order, because `apply_slew` reads UTC before local time,
  so that what passes between its two readings is lost from UTC and not
  counted twice, and the base is no less than any earlier reading.
- `stop_is_selective`: `stop_streaming` of one channel scans for another that is
  enabled and stores the result afterwards (`TelemetryService.cpp:121`, `:128`). A
  start by the command task in between is overwritten: the channel is enabled,
  its start was acknowledged, and the engine is off; the console then reports
  IDLE. `AgreeUnlessRaced` shows that channels, engine and report disagree only
  after a command has overtaken a console operation, and that the next start, or
  stop of all, that is not itself overtaken repairs them.

Noticed on the way, without a run. Update: `boot_count` is always 1 (bootloader
`main.cpp:61`) although `Version.h:154` says "Incremented on each cold/warm boot";
the feature lock is checked by `handleBegin` only, so a running upload completes
after "locks node against OTA updates" (`docs/DESKTOP_INTEGRATION.md:78`); the header
is looked for at 0x400 (`Version.h:112`) while `docs/PROTOCOL_SPEC.md`, the comment
above that constant and `ota_updater.py:65` say 0x200, so the script's own check of an
image never finds a header; the updater unpacks an 18-field node info into 13
names (`ota_updater.py:249`) and so fails before its BEGIN; were it not to, it would
find its connection closed, since the server closes after every command but
`CMD_OTA_DATA` (`CommandService.cpp:210`) and the script sends everything over one: the
hosts of `CommandServer` connect again, and finish (`UploadCompletes`). `NothingIsMistaken`, in
`WireHolds`, says of the two misfits of format and place that neither is taken
for something else. `handleData` does not compare
`chunk_len` with the payload's length; no sender sets `crc16` and nobody calls
`ValidatePayloadCrc`.

Names: the host's table of features has no timesync, bit 9
(`ota_updater.py:67`), nor has the CLI's feature list.

Streams: the batch a start request may carry (`CommandService.cpp:288`) is never taken: a
payload with a batch has no room for a tag, and the one that names a tag by
`cmd_id` names none that exists. A rate of exactly 10000 from the network keeps
the old one. At the channels' own settings STR1 sends 44 of every 45 samples and
RAW0 11 a millisecond instead of 50 (frames are cut to 1472 bytes, intervals to
milliseconds). `stream start 1000` takes the number for a tag, since it has four
characters: no stream starts and the node reports STREAMING; `stream stop STR`,
with three, stops all. `telemetry_views.py` sends a view's requests over one
connection, which the server closes after the first, and takes the empty answer
for success.

Console: a tab before the first word is skipped, one further on belongs to a
word; a key that a full buffer refused is not remembered, so the DEL meant for it
takes back one that was kept.

Network: a lost link-down or link-up callback (`NetManager.cpp:206`) is never
repeated; `etharp_gratuitous` is called outside `tcpip_thread` (`:177`); speed and
duplex are given to the MAC once. Discovery is given the feature flags once
(`ethernetdev/main.cpp:142`) and reports them for ever.

Time: "Guarantees strict monotonicity" (`TimeManager.h:70`) does not extend to steps
and the first synchronization either; the time between the two readings of
`apply_slew` is lost from UTC at every correction; beacons that are repeated or
overtaken are applied; a node that is CALIBRATING stays so when its master goes.

Flash driver: an erase that starts inside a sector may leave the last sector it
reaches into (`IFlashDriver.h` promises "sectors covering" the range); it answers true
whatever the chip did; `offset + size` wraps in 32 bits. `SCB_InvalidateDCache`
(`Stm32ExtMemFlash.cpp:116`, `:152`, `:172`) invalidates without cleaning: whatever
RAM, of whichever task, was only in the cache is lost, the caller's stack and
the data of the pages still to be written among it. So `FlashHolds` promises a
page's data only where memory has it too, or for the first page. A write whose
data lies in the flash itself, as a constant does, works only as far as the
data is in the cache; otherwise it faults while the vectors are unmapped. The
delays (lines 55 and 83) are loop counts and not asked of the chip. The
application calls none of the three operations.

## Proofs

Checked by TLAPS for every value of the constants (any number of chunks, images,
hosts, channels, descriptors, buffers, polls, any counter width), from the
`ASSUME`s of the modules, which TLC evaluates in the runs. Most say that a size is
a natural number and a set of inputs a set of such inputs.

`BootloaderProofs`. The inductive invariant `Inv` is `TypeOK`,
`OnlyVerifiedIsInstalled`, `IntactSlot`, `UpdateReported` and `Progress`. The last
is the strengthening: the counters are zero outside their loops, a bootloader
past its check has a non-empty target, and a slot is torn once an erase has
been done. Without it `Install` could not conclude that the slot holds the image
and `AtomicUpdate` could not map the first erase to `Tear`. One lemma per action.
`AtomicUpdate` then maps every step of `Spec` to a step or a stutter of `OtaInstall`.
`BootIsBounded` is the safety half of `BootEnds`: `StepsLeft` starts at no more than
2 * `StagingChunks` + 6 and every step of the bootloader lowers it.

`OtaUpdateProofs`. `UpdateInv` is `Settled`, `ReadySurvivesReset`, `Armed` and
`RebootFlagIsScoped`. `Settled` adds to the types that the service is as startup leaves
it while the application does not run, and that the image of a session fits; `Armed` that while END is acknowledged or counted down
a service with `rebootPending` has its image pending in physical RAM — the fact
that survives an abort of the console, which `AutoRebootIsArmed` alone does not.
`UpdateRefinesBootloader` maps each step to one of `Bootloader`; `UpdateIsSafe`
carries the bootloader's theorems over. `InstalledWasAcked` adds the history.

`TelemetryProofs`. `AgreeUnlessRaced` is strengthened to `Underway`, which says for
each point of a console operation that nothing overtook what it has established
so far: for instance that a scan has found no channel enabled among those it
passed. `OnePacketLate` rests on `InHand`: the packet in hand is the first late one.

`NetworkProofs`, the ring. `RingInv` adds to the types that the allocation index is the
reading position and that each descriptor points to the buffer of its number
(`InStep`): that is why handing buffers out without looking is sound, and it
would break with the first allocation out of step. `RingImplementsQueue` maps
`Store` to `Put` and `Rearm` to `Take`.

The tasks. `NetInv` is `Control` and `Counters` (types), `AtMostOne` (the mailbox
holds at most one message, from the priorities), `Counted` (free, queued and
posted buffers add up), `Pending` (what a callback found when it was posted it
still finds when it runs), `Stages` (what holds at each point of the start-up) and,
while no callback was lost, `Faithful` (interface and DHCP client follow the link
that the manager has seen). `Pending` is what `LeaseIsKept` needs, `Faithful` what
`NoAddressWithoutLink` needs; neither property is inductive alone.

`TimeManagerProofs`. `SourceInv` adds to the types that `lastCyccnt` is the
counter's value at `readAt`; the rest is arithmetic of remainders:
two readings less than a turn apart differ by the cycles between them. `ClockInv`
adds the types of the line and of a handler's locals, and at each point of a
handler what it has stored. `SeenInv` is what `OnlyStepsTurnBack` needs: what a
correction is about to store as base is no less than any UTC that was seen, and
its reference is no later than now; that the slope stays positive carries it on.
`BeaconInv` follows a beacon through its handler: since its first reading
(`began`) both clocks have gone on alike, and what it is about to store is no
further from the master's time then than lateness, round trip and threshold,
plus the time gone by. It gives `BeaconBoundsError`.

`CommandServerProofs`. `ServerInv` is `HostTypes`, `OneAtATime` (a request or an answer
in flight belongs to a waiting host), `OneServed`, `Once` and `Agree` (connections,
queue and hosts tell the same), `Announced` (a session's expected image is some
host's goal) and `LockStands`. `EndIsWhole` needs `Announced`; that the image is
complete and unmixed then follows from the comparison in `handleEnd`.

`ServerImplementsService` maps every step of the server and its hosts to one of
`OtaService` (`ServiceNext`), a reset or a stutter (`ServiceAlone`). `OtaService` assumes
of its caller that a chunk offset is one of the buffer's and that an image fits;
here this is shown of the scripts: `ScriptInv` says that what a host has asked is
what its script has come to, and that a script past BEGIN has an image that fits.
`ServedReadyIsPending` is the server's half of `ReadySurvivesReset`: no order of
other hosts' requests parts READY from a pending image, or an announced reset
from READY.

`AlgorithmProofs` is about the operator modules, for inputs of any length. The
library's induction theorems take an operator, which no installed prover can
instantiate; `SetInduction` states induction for a set of numbers, from the least
element of its complement, and `LoopExists` and `LoopUnique` give a recursive
function of the model, which is a `CHOOSE`, its history of states. Every
loop of the code is then reasoned about as in the code, by an invariant.

- Checksums: a CRC-32 computed over any cut is that of the whole
  (`CutCrcIsWhole`: why `handleData` and `handleEnd` agree). One byte's turn
  of either CRC is injective in the register (its entries have different top
  bytes, for CRC-32; each bit step can be undone, for CRC-16), so a changed byte
  changes the checksum of a message of any length (`ChangeShowsInCrc32`, `ChangeShowsInCrc16`).
  The updater's CRC-16, on integers that grow, is masked to the node's
  (`HostCrcIsNodes`). And both are what they should be (`Crc16IsRemainder`,
  `Crc32IsRemainder`): a shift register that takes a message bit by bit is a window on
  the polynomial division that defines a CRC (`RegisterIsRemainder`, for any
  generator); eight of its steps are the code's turn of a byte, for CRC-32 because
  each of the table's words for one bit is the next one shifted (`WordsShift`).
- Flash driver: `Safe` is an invariant of the node's states between the steps of a
  frame (map off, command, delay, map on, invalidate), whichever commands are missed,
  however slow the chip and wherever the data is; a node that faults on its data
  stops and is safe. Both loops are sequences of frames, whatever the range
  (`EraseKeepsRunning`, `WriteKeepsRunning`); that the chip is idle when interrupts come
  back on is concluded from `DelaysSuffice` alone. What erase and write leave is the
  loop's work so far (`EraseErases`, `WriteClearsBits`); that no chunk crosses a page
  is what keeps the chip's wrap out of it, and that the end of the first page
  drops every line the cache has alone is why later pages have what memory has.
  With erased bytes, and data that memory has or of one page, this is
  `WrittenIsReadBack`. `FlashStores` concludes the run's `FlashHolds`, writes from the
  flash itself included (they store all or stop the node).
- Reader: `At` says that what is left of a buffer and the buffers to come are the
  stream from a position on; `readExact` moves the position (`ReadIsExact`,
  `RequestIsReadWhole`).
- Versions: the four fields are digits to the base 256 (`WordsAreOrdered`, `WordsAreShown`).
- Streams: `EveryFrameFits` and `StreamKeepsUp` are arithmetic of truncated quotients.
  `RequestsTake` is about any `Slots` (tags are different and do not fit 16 bits);
  that registration gives nothing else is `RegisteredAlone`. `NoGapIsNoLoss` carries
  along a run of the sending loop that each packet's samples follow those
  of the stream's last, and numbers go up by one with every frame, sent or not.
- Console: `EveryAnswerIsTrue` holds at every `Consistent` node (engine, heartbeat and
  channels agree, tags are a registration's) and keeps it consistent;
  `PoweredUpConsistent` says that a node starts so, with the application's own
  channels. `EditorIsSafe` is an invariant of the editor's loop.

`AgreementProofs` concludes four of the runs' invariants from these theorems.

- `ChecksumsAreSound`: besides the theorems above, the published check values. TLC
  computes them; here the registers after each byte of "123456789" are listed and
  each is shown to be the next turn of the one before.
- `WireIsSound`: two layouts are the same if each field has the same place and
  width. `OffsetsAre` gives the places of a layout's fields by counting, `ListBytes`
  those of a list of descriptors of any length, so that what the scripts take apart
  is shown field by field. That every request is read whole needs all cuts of
  its bytes: `BuffersAreCut` says that any division into buffers is a `Cut`.
- `StreamsAreSound`: every setting two requests can make of the application's
  channels is one that `Kept` describes (batch, class and size as registered, some
  rate above 0), for which `StreamKeepsUp` holds; that only STR1 and RAW0 ask for
  more than is sent is computed channel by channel.
- `CommandsAreSound`: what every line of the vocabulary does at a node is read off
  its words, and a command is found again behind any blanks: the letters of a word
  stand at `Rising` positions of the line, so the n-th word of the spaced line is
  the n-th word (`NthOfRising`, `SpreadTokens`). That commands compose is shown at
  every `Counting` node (its counters are numbers), which every line keeps.
- `CorrectionsAreFree` is for any number of keys, the run for a few: the invariant
  `KeysKept` of the loop over the keys holds the positions kept so far. The console
  is where a plain run over them ends, and since each letter of the open line
  there have been as many letters as DELs and letters kept, so that a DEL takes
  back the last letter kept and never the end of a line.

Only model-checked: liveness (`RebootInstalls`, `BootEnds`, `EveryoneIsServed`,
`UploadCompletes`, `StreamsFlow`, `LinkGivesAddress`, `HeartbeatsGoOn`,
`HoldoverComes`), which the prover cannot do: every invariant and every
step property the runs check is a theorem. The other way round, `TypeOK`
of `Telemetry` is proved (`TelemetryTypes`) and not run.

## Assumptions

- In the modules with state CRC32 and CRC16 are perfect, so an image is known by
  its size and checksum. `Checksums` shows what that rests on: both ends compute
  the same remainder, and a changed byte changes it, for messages of any length.
- Hosts send chunk-aligned offsets and whole chunks, as the script does; the
  length of the last, short chunk is not distinguished.
- The bootloader's own data does not overlap the staging buffer or the control
  block (linker scripts), and `writeControlBlock`, which always returns true, does
  not fail.
- `handleEnd` from the cache clean to the clean of the block is one step with
  respect to resets: a reset inside it leaves either no valid block or the old
  one, as one before it would.
- A torn slot's application is arbitrary only in whether it runs and zeroes the
  buffer; it does not write a control block.

- Transmission is synchronous and has no state between calls; a frame is longer
  than no receive buffer. The manager and `tcpip_thread` never meet in the netif but
  through the callbacks (`etharp_gratuitous` excepted, see above).
- The clock's conversions are exact but for truncation: doubles are not modelled.
- One task at a time calls the clock's handlers (samples, beacons, `force_step`,
  `update`); any task reads it. No application wires it yet.
- A flash command that the chip hears is done as ordered, and a program or erase
  is not cut off by a power loss, in `FlashDriver`; `Bootloader` has both of the
  bootloader's own flash operations.

## Plan

Done: all modules above, in the order of the table, with the theorems.

What could follow: the transmit descriptors with `etharp_gratuitous` as a second
sender; speed and duplex after a link that returns; the feature flags that
heartbeats report.

## Not modelled

LED and temperature tasks (periodic output, no shared state); HAL wrappers,
`FreeRtosThread` and the PHY's registers (hardware access); startup code and fault
handler but for what `OtaUpdate` takes of them; `stm32*_hal_conf.h`, `system_*.c`,
`*_hal_msp.c` and the boards' pin and clock set-up (generated configuration, run once
before the tasks and without a state to reach); the demo applications; the
display and storage of `telemetry_views.py`.
