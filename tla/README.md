# A verification project for One ROM

One ROM replaces a ROM chip in a retro computer with an RP2350. PIO and DMA
programs serve an image out of RAM in real time; everything else the device
can do is done by *plugins*, position-dependent programs in flash that the
firmware launches one per core and that call the firmware through the ORA API.
The richest of them, **host-control**, lets the CPU that reads the ROM command
the device over the address bus alone (the RBCP protocol): the host speaks by
reading addresses, the device answers by rewriting bytes of the served image.

That is one place where this code is hard. There is no bus arbitration, no
acknowledgement and no lock: two programs on different processors share a
64-entry capture ring and a few bytes of RAM, and what makes the exchange work
is the order in which bytes are written and read. Flash is another hard
part: both cores execute out of the chip that a write has to take off line.

Two LEDs, their holds and a pin some boards give to both are shared by both
cores and a timer.

The last is the tools that commission a board. They write one-time
programmable memory, whose bits are never cleared, in runs that may be cut off
anywhere, and have what they write signed by a server that keeps two records
in git repositories it shares with others.

The project models those parts as TLA+ modules, checks them with TLC on small
instances, and proves what matters most of them with TLAPS for every instance.
Every definition of a model is translated from the source lines that
`PROJECT.json` ("map") names for it.

## Inventory

Paths are under `src/`. HC stands for
`plugins/user/host-control/src/host_control_main.c`.

| Component | State it keeps | Operations | Hard behaviour | What makes it correct |
|---|---|---|---|---|
| Serving programs, `firmware/src/piodma` | base address of the served RAM slot, PIO and DMA registers | switch region, capture reads | real time; every read is captured while the plugin runs | the slot switched to answers the next read |
| Address monitor and knock, `pioplugin.c` | capture ring, knock matcher | arm, wait for knock, write position | the writer laps the reader without a sign | a frame after a knock is taken whole |
| Host-control, framing (HC 500-652, 3161-3201, 3354-3431) | ring read index, token, header in the served image | run_command, cmd_begin, cmd_end | races with a polling host; ring reset; token wrap | a host reads the answer to its own command; no command byte is lost |
| Host-control, session and Modify group (HC 755-1285) | `s_state` (mode, region, cached slot), RAM slots | enter, seven ways to exit, poke, load, switch | header written over by the command that is running; cached slot; silent exits | progress and response are in the image the host reads, and what becomes of the token is known; a restored image is exact |
| Host-control, NV storage (HC 1287-1762) | `s_nv_state`, `s_nv_deferred`, staging area, NV flash sector | begin, poke, commit, discard, commit byte | deferred flash write, failure, power loss, staging in a slot the host can still touch | storage changes only by a commit; a failed commit loses nothing |
| Host-control, pipes (HC 1782-1993) | a read and a write log channel | query, write, read | shares the log with the other core and its own logging | bytes neither lost nor repeated |
| Host-control, auxiliary pins and LEDs (HC 2017-2755) | GPIO and LED state | set, set and exit, set-switch-exit | one step of several failing; timed hold | pin levels are the ones asked for |
| Plugin launch, exclusive mode, yield (`plugin.c` 885-1089, 1961-2141) | the two inter-core FIFOs, interrupt masks | enter, exit, yield, RAM stub | two cores, spin loops, flash off line | nothing executes from flash while it is off line; every wait ends |
| Log channels and RTT ring (`plugin.c` 1287-1553, `rtt.c`) | channel claims, ring offsets | claim, write, read, query, close | two cores, their interrupt handlers and a debug probe share a ring; only interrupts are masked | a bounded queue of whole records; a claim excludes the other plugin; what a query said holds |
| LED engine (`pioled.c`), GPIO (`plugin.c`) | a mode, a saved mode and a hold for each LED, flags of the shared pin, one alarm | set a mode (USB, host-control and user plugins), the frame interrupt | either core calls and either takes the interrupt; times wrap; a pixel, its reset and the status LED share a pin | a hold ends on time in the state it interrupted; the newest colour wins; every pixel has its reset and the pin comes back |
| Boot, metadata, OTP, image select (`main.c`, `fw_config.c`, `otp.c`) | runtime info | once, at boot | none after launch | |
| USB system plugin (`plugins/system/usb`) | PICOBOOT command state | USB callbacks | yields between polls | stops for a flash write |
| ext-flash, rgb, blink, activity plugins | their own | loops | ext-flash uses exclusive mode | |
| OTP commissioning (`rust/app/src/commission.rs`, `rust/app/src/otp`, `rust/metadata/src/otp.rs`, `rust/cli/src/hardware.rs`) | the chip's OTP: commissioning area, page locks, bootloader rows and flags | prepare, plan, execute; set size; parse the area | a run cut off after any row, damaged rows, runs of other requests over what is left, flags that cannot be cleared | a flag is set only over rows that hold; the current instance verifies, was recorded and is replaced only on purpose |
| Signing server (`rust/signing-server`) | a clone of the private and of the public record, the lock | sign, add a line | git commands fail, are killed, arrive late; clients go; others push | nothing is returned that is not recorded; no line twice; every request ends |
| Rust tools otherwise (`rust/`) | files, USB handles | sequential | data formats | |

Interactions: host and plugin through the capture ring and the served image;
plugin and firmware through API calls; the two plugins through the inter-core
FIFOs (exclusive mode) and the log; the plugin and flash through the boot ROM;
the commissioning command and the signing server through two `/sign` requests,
a dry run before the user is asked and a live one before anything is written.

## Modules

| Module | Lines of code it stands for | Role |
|---|---|---|
| `RbcpHandshake` | HC framing and listening loop; `rbcp-tester/src/driver.rs` for the host | bus reads and header bytes, one per step |
| `RbcpExchange` | (abstract) | what an exchange comes to; `RbcpHandshake` implements it |
| `RbcpSession` | HC control, modify and NV handlers, `run_command`, `nv_flash_write`, `nv_deferred_run` | one command per step |
| `NvStore` | (abstract) | what the NV group promises; `RbcpSession` implements it |
| `ExclusiveMode` | `plugin.c` 885-1089 and the launch decision; HC 1604-1640 as the caller | FIFO words and flash window, one per step |
| `ExclusiveLock` | (abstract) | what `api.h` promises of exclusive mode; `ExclusiveMode` implements it |
| `RttRing` | `rtt.c` up to the formatter, the log calls that reach it | one load or store of an offset or a byte per step |
| `LogFifo` | (abstract) | what a log channel promises; `RttRing` implements it |
| `LogClaims` | `plugin.c` 1287-1530 | lock, test and set, name, use; one per step |
| `OtpArea` | `rust/metadata/src/otp.rs` (instances and their parser), the row tests of `otp/mod.rs` | operators: rows, an instance's writes, the parser |
| `Commissioning` | `commission.rs`, `otp/memory.rs` (the chip's rules), the two commands of `hardware.rs` | a run: prepare, ask, agree, then one row per step |
| `SigningServer` | `http.rs` from the lock on, `record.rs` | turns, and one git command per step |
| `SignatureRecord` | (abstract) | what the server promises of its records; `SigningServer` implements it |
| `LedEngine` | `pioled.c`, the alarm's handler | a call up to the lock, a stay under the lock, an interrupt taken, a tick of the counter; one per step |
| `RbcpHandshakeProofs`, `RbcpSessionProofs`, `ExclusiveModeProofs`, `RttRingProofs`, `LogClaimsProofs`, `CommissioningProofs`, `SigningServerProofs`, `LedEngineProofs` | | theorems |
| `MC...` | | instances for TLC |

`RbcpHandshake` and `RbcpSession` are two grains of one component: the first
looks inside `run_command` and keeps only the kinds of command whose
processing differs; the second takes `run_command` as a step and keeps what
the commands do. A flash write of `RbcpSession` (its steps `WriteFails`,
`Erase`, `Program`) is the caller's window of `ExclusiveMode`
(`Enter` ... `Exit`): the refusal that makes `WriteFails` possible is
`Capability` being -1. `Commissioning` sees of the server what the client
sees: a live signature is in `recorded` before it is returned, and its reply
may be lost (`AgreeReplyLost`). That a server does so is `SignatureRecord`'s
`Return`, which `SigningServer` implements.

### RbcpHandshake and RbcpExchange

The state is the served slot, the header bytes of each slot, the capture ring,
the plugin's place and registers (`pc`, `step`, `active`, `slot`, `token`,
`cur`) and the host's. A device action is one `ring_read_byte`, one header
byte of `cmd_begin`/`cmd_end`, or one handler. A host action is one bus read:
snapshot the token, send a frame byte, poll the token, poll progress, read the
response, read data. Every host read lands in the ring, polls included.
`BeginOrder` and `EndOrder` are the sequences of header writes, so a mutant
can reorder them. Bytes carry the serial number of their command: a
byte taken for another command's is visible to the properties.

Assumption `KeepsUp`: the plugin takes a captured command byte before the host
can lap the ring over it. The code states the same ("WARNING. There must be NO
logging between...", HC 3395): it is a timing fact, not a property of the code.
Polls may lap the ring freely. `HostLockstep` and `HostArms` say what a careful
host does around SWITCH_SLOT; `switch_race` takes the first away. Without the
second the token may not move: after SWITCH_SLOT it goes on counting from the
old slot's byte (HC 2966 does not read it again), so the first write into the
new slot can leave there the value the host has just snapshotted. The
conformance scenario arms the byte away from the next token (modify.rs
285-291), and so does the host of these runs.

`RbcpExchange` has the commands issued and not yet run, whether the mode is on,
the slot served, the answer of the last command and what the host was told and
believes: no ring, no token, no bytes. A command runs in one step, once, in
the order issued, and in the mode it was sent for; a host gives up only on an
enter that can no longer run or was discarded. `RbcpHandshake!Exchange` maps
its state: a command has run (`Ran`) from the step of its handler on, what is
unrun (`Unrun`) is the last command issued and before it at most the silent
exit a host does not wait for, and the answer is what the header will show for
it. Where the ring loses a byte, a token is seen early or an answer is read
late, the step is one that `RbcpExchange` does not have.

### RbcpSession and NvStore

RAM is flat, as in the code: `mem` is `Total` slots of `SlotSize` bytes one
after another, the host's slots first. A value is a host byte, a flash image's
byte, `Chan` (a byte of the back-channel) or `Pending`. The parts of the
response header the code writes at different times are different bytes: `tok`
stands for the token and the last command, which cmd_begin writes and cmd_end
does not, `ans` for progress and response, pending from cmd_begin until cmd_end.
`data` is the data section. Each command is one action made of `Begun`
(cmd_begin), the handler's effect and `Ended` (cmd_end), except that a command
that defers a flash write is answered by `Program` or `WriteFails`.
`PowerCycle` may come at any point, between erase and program too; RAM is
then junk, the boot image is preloaded and NV storage is as it was left.

A command that writes over the header in the middle of its own sequence
(LOAD_SLOT, SLOT_POKE, SLOT_POKE_ALL_BYTE into the served slot, or NV_POKE
where the host has switched to the very slot it lent) leaves image bytes in
`tok`, and SWITCH_SLOT leaves it in the slot it left, until the next command
writes it again; `Displaces` names these commands. A host polls the token
before progress (`driver.rs` 1027-1033), so for these it may have nothing to
poll, which is why the tester neither loads over a session (modify.rs 486-490)
nor polls a switch (246-250). `ChannelServed` says what the code does: progress and
response are in the served slot after every command of a session, and the token
with them unless the command just done is one of these.

Staging is the code's arithmetic: `SlotsNeeded`, `HasOwn` and `FirstOwn` are
`nv_private_staging`, `AreaFor` the fallback of `nv_poke_begin_impl` to the slot
the host lent, and `CopyIn` copies `NvSize` bytes to wherever that is, slots and
their boundaries notwithstanding. Where the slot is lent, `HostKeepsOff` is the
assumption that the host leaves it alone until it commits. A host that does
not has its transaction overwritten (SWITCH_SLOT to the lent slot puts the
header into it); the code calls it a slot the host "is willing to lose".

`NvStore` has the storage, the staged bytes, the goal of the write in progress
and whether the storage is changing. `RbcpSession!Store` maps `staged` to the
bytes of the staging area, so anything that writes over a staging area is a
step `NvStore` does not have. Power loss is a step it has, at any point: the
code keeps one sector and no journal, so storage may then read erased, and no
property says otherwise.

### ExclusiveMode and ExclusiveLock

`layout` is what the boot slots hold, `Capability` the check of
`other_core_yield_capability_from`, `fifo` the words in flight, `pc` and `irq`
each core's place and interrupt mask. The stub that spins in RAM and the
holder's flash window are separate steps. `Exit` pushes RESUME whatever the
capability was, as the code does. Nobody was stopped only where slot 1 holds an
ordinary ROM image; core 0 then runs the firmware's loop, which never waits for
a word and drops this one in `ora_yield`, and core 1 never sends a REQUEST, so no
later wait can take it for its own.

### RttRing, LogFifo and LogClaims

`RttRing` is one channel: `buf`, `wr` and `rd` are the buffer and the two
offsets, `signed` the identifier that shows the control block to a probe, and
for each thread `pc`, `op` and the locals of the call it is in (`data`, `want`,
`done`, `off`). A thread is a core's main program, an interrupt handler or a
probe. `Masked` is `onerom_rtt_lock`: it keeps a core's handlers out of its own
calls and does nothing to the other core. `Found`, `Build` and `Sign` are
`onerom_rtt_init`, which every call makes first; `Launch` is
`onerom_rtt_plugins_init`, before which core 1 does not run (`Alive`).
A `role` says which threads write the channel and which read it: `OneWriter`
has every pairing the device has of one core and its handler on one side and a
core or the probe on the other. `room` and `got` are what the caller was told.

The probe is external. It is taken to do from its side what `onerom_rtt_write`
and `onerom_rtt_read` do, one access at a time, which is what the comments of
`rtt.c` expect of it. A role with a `wild` offset lets it put any value there
instead (`Scribble`): the copies stay inside the buffer, nothing else holds.

`LogClaims` has one channel's two claims, the name, the spinlock and each
thread's place. A write or a read is a single stay in the ring (`using`); that
two plugins are never there on the same side (`OneUser`) is what `RttRing`
takes from it as its roles. The logging calls (`ora_log` and its kin) claim
nothing, so for channel 0 the assumption can fail where both plugins log, and
it fails where a plugin and a probe drain one channel: `api.h` warns of both
(3076-3078, 3164-3166), and then only `StaysInside` is left. `Closers` are the threads that close claims. A handler that
closed the claim its own main program is opening would come between
the claim and the name; no plugin of the repository closes from a handler, and
only main programs close here.

The name's own store and the channel table are left out of `RttRing`: a channel
that exists keeps its buffer and size for good. An empty record and an unknown
channel return without touching the ring.

### OtpArea and Commissioning

A row is the value an ECC read returns and whether its 24 bits are exact: a
row with one bit from the factory is 0 and inexact and still counts as
unwritten, a written row with one wrong bit keeps its value and no longer
holds it, a row with more damage reads as something else. Board, manufacturer
and signer are one entry (`who`, of one row or two); lengths count rows; the
bootloader's strings, table and address are three rows. `Walk`, `InstanceAt`
and `EntriesFrom` are the parser as recursive functions of the row, `ReadArea`
reads page by page as `read_area` does.

A run goes idle -> asked -> writing -> done. `PrepareCommission` is `prepare`,
the dry-run signature with its check, and `Prepared::plan`, all of which only
read; `Agree` has the signature recorded and compared; `WriteRow`,
`WriteInterrupted`, `WriteDamaged` and `CheckFails` are `execute`, a row at a
time. `left` is what of the plan is still to write, `step` the last step
begun, so `check_enabled` runs once before a step's first row. The page locks
are those the last reset loaded (`locked`), which differ from the lock words
until the command reboots the board or somebody else does (`PowerCycle`). `Decay` lets a
row go wrong after it was read back: without it the check before the flags
would have nothing to find. `damaged` and `unfinished` are history variables
for the properties.

`RetryFinishesInPlace` is what makes a stopped run harmless; it needs that
nothing was damaged and the date is the same, as the run itself does.
`NoRefusedWrite` ties what `prepare` read, possibly several runs ago in OTP's
life, to what the chip does later. Where the
magic row of an instance is damaged the parser may find no current one, and a
later request without `force` is then accepted.

### SigningServer and SignatureRecord

A record's remote is the sequence of lines of one key's file; the clone has
git's remote-tracking branch, branch, index and work tree. Each git command of
`Repository::add` is a step (`Git`, by what it does to the clone), reading and
writing the file is one (`Read`), and `Push` succeeds on top of the remote's
head only. git compares commits and the model contents, so where the remote has
moved by the very line being pushed (a killed push that landed late) both `Push`
and `PushRejected` may happen: the two commits are the same one if they were
made in the same second, and two otherwise. `CutShort` is what a command that fails or is killed may leave:
nothing done, all done, a file written whole or torn, git's `index.lock` left
behind (`stuck`; later requests are refused until somebody removes it), or a
push under way that reaches the remote later (`LandLate`). It happens when git
fails or takes longer than `GIT_TIMEOUT` (`CommandFails`), when the client
goes (`HolderGoes`; `kill_on_drop`) or the server is stopped (`Restart`).
Others may push any line (`PushForeign`), one that is no record line included.
Nobody removes lines from a remote: the README asks for branches protected against force pushes.

A file write of a dropped request is taken to be over before the next request
has fetched. `tokio::fs::write` runs on a blocking thread that nothing stops,
so a write that outlasts a fetch and a reset could be read as recorded, or
committed, by the next request; the model leaves that out, and the hazard is
listed without a property.

### LedEngine

`led` is the engine as one record: the two channels (`ch`: what a channel does,
`is`; what it goes back to, `saved`; its step, next frame and hold), the flag
byte as a set (`park`, `pio`, `write`, `high`, `timer`, `reset`), the two
microsecond deadlines, the pending pixel, and the hardware around it: the
alarm, the cores that have its interrupt enabled and pending, the state
machine's last word and what it still has to put on the wire, and how long the
RGB LED's line has been low. All that runs under `SPINLOCK_LED` with interrupts masked is
one step (`LockedSet`, `LockedFrame`), composed of the code's functions in the
code's order; the millisecond that `pio_led_set` and `pio_led_frame` read
before the lock was read in an earlier step (`Call`, `TakeInterrupt`), and
everything may happen between. A refused request and `ora_led_get` change nothing.
Brightness is not modelled; a pixel is a colour and a level.

Time is the microsecond counter in ticks, and it wraps; milliseconds are
counted from it and deadlines are compared by the sign of a difference, as in
the code. The model's two counters wrap together, at `MsWrap` milliseconds; the
code's microseconds wrap after 71 minutes and its milliseconds after 49 days. Short times keep the code's order (a pixel's time on the wire, the
150 us to the handover, the 200 us of the reset, the millisecond). `Late` is
how long an interrupt, and a thread or frame that waits for the lock, may be
kept: time does not pass beyond it (`Prompt`). With `2 * Late` below the time
to the handover a pixel and its handover are never due in one frame; a device
that masks interrupts for longer (the flash window of exclusive mode) is
outside the model and could cut a pixel off that way too. A wait of zero fires
at once, as the comment at 751-753 has it. The product of
milliseconds and 1000 in `led_rearm` (711) is 32 bits wide. In the model the two
counters wrap together, so a wait, less than half the millisecond range, never
reaches the width; in the code one of more than 71 minutes does, and its alarm
comes early, finds nothing due and is set again.

On a line the chip needs to find low, `low` counts the ticks and `highBy` says
who had it high last; a pixel that follows another without a reset is not
looked at, only one after the boot level, a handover or the status LED.

## Runs

| Run | Question | Bounds |
|---|---|---|
| `handshake` | Can a polling host take a wrong answer, or the device a wrong byte? Does each command run once, in order and in its mode (`RbcpExchange`)? Is every poll answered? | 2 slots, ring of 6 entries, token modulo 2, 4 commands |
| `switch_race` (violation) | What does the read-index reset drop when the host goes on as soon as it sees the new slot? | |
| `session` | Are progress, response and token where the host reads, through commands, exits, NV writes, failure and power loss? Does staging keep out of the host's slots? Is NV storage the abstract store's? | 3 slots of 3 bytes, 2 of them the host's; 2 NV locations in one page, a window of 1; one region, one image, one host byte |
| `session_shortcut` (violation) | Does NV_POKE_COMMIT_BYTE refuse while a transaction is open? | |
| `exclusive` | Is flash exclusive, does the handshake implement the lock? Does every enter complete unless both cores wait for each other, and does every parked core resume? | both cores ask, every layout in which they are told to ask |
| `exclusive_rom` (violation) | Is the other core suspended on return, with a ROM image in slot 1? | |
| `log_ring` | Is the ring a queue of whole records, does a query's answer hold, and does every copy stay inside the buffer whatever a probe leaves behind? | ring of 3, records of 1 to 3 bytes, wild offsets to one past the size, three threads on two cores and a probe |
| `log_claims` | Do claims exclude each other, does the name follow, is the lock given back? | two plugins, a handler each |
| `commissioning` | Is a flag ever set over rows that do not hold? Does the current instance always verify, was it recorded, does a stopped run finish in place, is a write ever refused? | area of 5 pages of 8 rows, 3 boards, 5 requests, 2 days, 3 runs, 1 fault (interruption, damaged write or decay; a damaged row may still read right, or as 12, which as a length passes the end of a part-read area or lands in another row) |
| `signing` | Is anything returned that is not recorded, any line recorded twice, does every request end? | 2 clients, one chip's values, 3 requests live or dry run, 2 faults, 1 push by others |
| `led` | Are frames, holds and the handover on time across the wrap? Do nested holds give back what the first interrupted? Does the newest colour win, is a reset that is owed waited out, is a pixel cut off only in a hurry? | shared pin, 2 cores, 5 ticks to a millisecond, wrap after 10, reset of 4, handover of 3, 2 calls of 5 requests, late by a tick |
| `led_plain` (violation) | Does a mode asked for without a hold stay? | 2 calls |

Why the bounds are enough. A ring of 6 laps within one poll loop while a
four-byte frame still fits; token modulo 2 wraps and carries within the
commands of a run, and it makes old and new tokens coincide; four commands
reach enter, switch, a command in the new slot and an exit. In the session
run one host byte differs from the erased value and from the image's byte;
three bytes to a slot are the two parts of the header and the data section; two
NV locations tell the window from the rest of the page; the slot above the
host's is exactly the staging run, so that one slot lower is a slot of the
host's; there is no bound on the number of commands. A device that stages in
a lent slot is in no run: the theorems of `RbcpSessionProofs` cover it, as they
do staging runs of several slots. The FIFO depth
is the hardware's, and the theorems hold for any depth of at least two. A ring of
three holds two bytes: records of one and two bytes fill it exactly, wrap in
the middle of a record and end at the buffer's last byte, a record of three is
one too long, and there is no bound on how many are written. `RttRingProofs` has the result for every size.

An instance of `commissioning` takes two pages, so an area of five has room for
a partial instance, one of another request after it and no third; the requests
are a first one, a forced one with a longer entry, one with a date, and two
that set the size, of the same and of another board. Three runs are one that
stops, one of another request over what it left, and one that finishes or
replaces it. The boards are one with factory bits, one whose slot size row is
bad, and one with an instance of an unknown version. In `signing` one chip's
values make every request compete with or repeat another; two faults cut off a
request and its retry, and cover a push killed in one and landing late in the
other. In `led` two calls are two holds, or a hold and a plain request, on one
LED or one on each, from one core or both; or a pixel and whatever comes before
it has its reset, is on the wire, or is followed by the handover. A cycle and a
flame make further steps without a call, and a hold ends on the counter's
zero. The two cores run the same code and are interchangeable, which the run
takes as a symmetry: it has safety properties only. A board with a pin for each
LED is the same code with the handover left out; the proofs have both.

Deadlock is not checked where the system may stop: `handshake` and
`switch_race` run out of commands, `commissioning` of runs and `signing` of
requests, and in the `exclusive` runs two cores that wait for each other stop,
which `EnterCompletesAlone` allows and nothing else. The others check it.

The four violation runs are disagreements between the code and what the
repository says of it; `PROJECT.json` quotes each. None of them is reached by
the in-tree plugins with the hosts the documentation describes, other than
`session_shortcut`, `exclusive_rom` and `led_plain`. The last takes a plugin, a
host or a USB client that sets an LED while a hold runs.

Fairness. `RbcpHandshake`: the plugin's main loop has nothing else to do and is
not preempted (weak fairness of `Device`); a host that began an exchange
carries on; its poll limit expires where no answer can come (`HostGiveUp`,
`POLL_LIMIT` in driver.rs). `ExclusiveMode`: a core carries out what it has
begun, and a plugin that declares yield support calls `ora_yield` again and
again, which is what declaring it means. `LogClaims`: a core goes on with the
call it is in (weak fairness of each thread's `Step`); no thread has to call.
`SigningServer`: the runtime goes on with the request whose turn it is and
gives a free lock to the first that waits, and `GIT_TIMEOUT` ends any command
(weak fairness of `Serve`); clients, restarts, late pushes and others are
under no obligation. `RbcpSession`, `RttRing` and `Commissioning` have no
liveness property and no fairness: a commissioning run goes on for as long as
somebody runs it. `LedEngine` has bounded time in place of liveness: `FramesOnTime` and
`PinOnTime` say by when a thing has happened, and rest on the bound `Late`.

## Proofs

`RbcpHandshakeProofs` proves, for every set of slots, ring of at least five
entries, token of at least two values and number of commands, that the answer
and the data a host takes are its command's (`ReplyIsOurs`), that the plugin
runs what was sent, whole (`RunsWhatWasSent`), that the served token is the
plugin's own (`TokenInStep`), that the read index is moved over polls only
(`ResetDropsOnlyPolls`) and that an answered command moves the token the host
took (`TokenMoves`). All assume `HostLockstep`, without which they are false
(`switch_race`); only the last needs `HostArms`. `KeepsUp` is in the model.
None is inductive, and `IInv` is in two halves. What is in flight: the ring,
and after it what the host has still to send, is made of whole frames with
polls between them, ranked in the order they are sent and all later than what
the plugin has taken (`RingInv`, `OutInv`). What the sides know of each other:
for each place of the plugin, the command it is at and the byte it takes next
(`DevInv`); for each place of the host, how far the plugin has got (`HostInv`)
and what the header then says (`HeaderInv`); and the token a host may have
armed in the slot it switches to (`ArmInv`). The lemma that joins the halves
is `WholeIsQuiet`: with the whole of the host's command taken, only polls are
in the ring, so a reset drops nothing and a poll finds this command's header.
`Captures`, `Sends`, `Takes`, `Clears` and `Issues` say what each way of
changing the flight keeps; after them there is a lemma for each action.

From `IInv` the last section proves that the handshake implements
`RbcpExchange` (`Refinement`) and that a host at rest with nothing left to run
believes in a session exactly where there is one (`SessionsAgree`). A handler
is the abstract step `Run` (`Runs`) and every other step of the plugin is a
stutter (`DeviceUnseen`); each host action that ends a wait is `Tell`,
`Believe`, `Leave` or `Moved` (`HostExchanges`). That a host which gives up is
right to do so (`GivesUp`) needs one invariant more: a token the plugin has
written and the host not yet seen differs from the host's snapshot (`Moved`).
It needs `HostArms` as well, since a host whose snapshot is by accident the
new slot's token would give up on a command that ran. `RunsWhatWasSent` is
proved and in no run: `ExchangeSpec` takes its place there.

`ExclusiveModeProofs` proves, for every layout set, set of requesters and FIFO
depth of at least 2: types and FIFO bounds; and, where every requester is told
to ask (`AllAsk`: no "proceed, there is nobody to stop" answer), the
exclusiveness of flash, suspension on return, that no push finds the FIFO full,
that nobody resumes early, and that the handshake implements `ExclusiveLock`.
None of these is inductive alone: whether a grant is safe depends on the words
in flight. `IInv` lists the forms the handshake takes: both cores up with a
request perhaps in flight or lost; one stopping; acknowledged; held; releasing,
when the next request may already be queued behind the RESUME.
Each action takes a form to a form (`HandshakeStep`), interrupts are masked
exactly between the two mask operations (`MaskStep`), and the properties
follow from the forms. That pushes fit and that nobody resumes early are in no
run: the first is about a FIFO that two words cannot fill, the second is part of
what `LockSpec` checks. The ordinary-ROM layout is excluded by `AllAsk` because
the property is false there (`exclusive_rom`).

`RbcpSessionProofs` proves the inductive invariant `IInv` of `RbcpSession` for
every number and size of slots, every NV and page size, image, region and
value, whatever the staging and however careful the host: in a session progress
and response are where the host reads (`AnswerServed`), no transaction outlives
its session, what is staged is not the served slot where the host keeps off the
one it lent, and a byte answered "ok" is in storage. `Channel` adds what each
step does to the token: the only steps after which it is not in the served slot
are those of `Displaces`. The strengthening is
`WritesWhatWasAsked`: a flash write under way for NV_POKE_COMMIT_BYTE holds
the byte that was asked for, so that its completion may say so.

Its second part proves that `RbcpSession` implements `NvStore` where the
plugin never has to borrow a slot, or the host keeps off the one it lent
(`Careful`; without it the statement is false, as the header then lands on
staged bytes). That it never has to borrow is `NeverLent`: it has slots of its
own, or none is large enough to lend. `AreaFacts` is what the staging
arithmetic gives: an area of `NvSize` bytes inside RAM, above every slot the
host may name or at the start of one (`OwnFacts`). The argument is `Clear`: what is staged is
never in the served slot, so no command frame, answer or image command
touches it (`Keep`, `ImagesStutter`); each NV command and each step of a flash
write is then a step of the store.

Its third part proves three action properties. No NV command, answered, refused
or failed, and no flash write changes a slot the host may name other than the
served one (`HostSlotsUntouched`), under `NeverLent`; where it borrows one that is what borrowing means. A failed
commit leaves the transaction, the staged bytes and storage as they were
(`FailureKeepsStaged`), under `Careful`: that uses `IInv`, by which the staging
area is not in the served slot, whose header the answer goes to. And both restoring exits
give the host its image to the byte (`ImageRestored`).

`RttRingProofs` proves two things, for a ring of any size, any records and any
threads. In every role, whatever a probe does and however many cores write,
the types hold and no copy leaves the buffer (`NothingOutside`): `Inside` says
that a sampled offset has been checked and that what is copied has been
measured against it. And where one core writes and one core reads
(`OneEachSide`; a core's handlers count with it) the ring implements `LogFifo`
and a sole writer finds the room its query promised. The queue alone is not
inductive: a write in progress has put bytes behind the queue and a read in
progress has copied some from its front. `IInv` says so for each place of a
call: the writer starts from `write_offset`, has room for its record and its
bytes are in place (`Storing`); the reader's sample is never ahead of the queue
and its copy is the queue's front (`Loading`); of a core's threads one is in a
call (`OnePerCore`). The steps on either side then only widen what the other
relies on. The arithmetic is in a few lemmas on offsets (`WriteCounts`,
`ReadCounts`, `PastPast`, `PastInjective`). `IInv` needs `Tame`, a probe that
keeps to its offset's rules; for a confused probe `LogFifo` is not claimed.

`LogClaimsProofs` proves the type invariant and the three safety invariants of `LogClaims` for any number of
plugins and handlers, where handlers do not close (`MainsClose`). `Locked`
ties the spinlock to the places of a call, and `StillTrue` says that what a
call found out holds until it relies on it.

`CommissioningProofs` proves `EnabledMeansWritten` for any areas, boards,
requests, damage and number of runs, where no board starts with a flag set over
rows that do not hold and every request names a board and a size. The invariant behind it is about the run as much as the rows:
every row of a plan is in the step it belongs to (`LeftPlanned`); once a flag
is set nothing the run has still to write is a row it enables (`NoneBehind`);
and a step that sets a flag and is under way has set it in one copy already,
so its other copies need no second look at those rows (`BegunIsSet`).

Of the same module it proves that the chip refuses no row of a plan
(`NoRefusedWrite`), for any size and number of pages. At planning it takes one
argument per step (`SizeGood`, `LabelledGood`, `CommissionGood`): the checks
of `prepare` make each row that is still to write free, on a page whose lock
word is not written. For the instance that rests on which rows its writes are
to: one each to those from its first on, though not in that order
(`InstanceCovers`), so that they lie in the area and on the pages whose locks
were checked (`PagesIn`). Through the run it needs two more facts (`TInv`): no
row is in what is left twice (`LeftApart`), so a write leaves the others free;
and the locks in effect are all written (`LocksHold`), so no row the chip takes
is one of them, and the locks the run writes are not in effect before it ends.
A row that decays is not among those left either, which takes `LeftPlanned`.
It assumes besides that requests and damage are of rows (`RequestsAssumption`,
`DatesAssumption`).

What the parser finds is proved in the same module in three layers, for any
size and number of pages.

- The parser. Its recursive functions are defined on every area (`ListCases`,
  `WalkCases`): each looks only further on, so well-founded induction over rows
  gives them. What they make of a list or an instance depends on no row after
  its last, and so stopping at the first page that is free gives what reading
  the whole area does (`ReadWhole`, of `read_area`).
- An area as runs leave it (`Chain`): instances that end, each on the page
  after the one before, and a front, of which the first `m` writes are there
  and every row after is blank. Read back, the front ends or is cut off, and is
  complete only with its last write, the key of its signature (`FrontReads`);
  the walk comes through the settled ones to it (`ChainWalk`, `ChainArea`).
  Where `prepare` puts an instance is this front, if it agrees with the rows
  there are, or the next (`Placed`, `Refit`, `Onward`).
- A run (`LInv`): the area is blank or such a chain (`Laid`); a commissioning
  under way takes its front on, what it has left being just the rows the front
  lacks, its signature recorded before it writes and its locks written or left
  (`Placing`); and every row left is of the part its step writes (`Parts`).
  A run stops anywhere without breaking `Laid`, which is all that a board at
  rest has to keep. A board with an unknown version is never written
  (`Strange`).

From it `CurrentVerifies` (`CurrentIsSigned`), `CompleteIsRecorded`
(`RecordedFirst`) and `DoneMeansCurrent` (`DoneIsCurrent`) follow under three
premises, each stated in the theorem. `KnownBoards`: a board's area is blank,
or as runs leave it, or has a version the tools do not know.
`TextualRequests`: no row of a name is 0, names being printable ASCII
(`metadata/src/otp.rs` 107-113; a date's row is not 0 by its digits, 134).
And no damage beyond what ECC repairs (`Damages = {}`): wrong bits that ECC
corrects, interrupted writes and rows that decay are all there.

`RetryFinishesInPlace` (`RetriesFinish`) takes an invariant of its own, `RInv`.
`Ready` says all of what prepare asks of the board, for a request whose date
and place are known: the size, label and flag rows take its values or hold them
(`OwnRows`), the area would put its instance where it was begun and has nothing
current but what the request says (`InArea`), the locks are blank or whole
(`LocksAccepted`). A run that prepare accepted is `Ready` and stays so after
each row it writes: a row outside the area or a lock (`ProperReady`), a row of
its instance (`InstanceReady`), a lock, which comes only after the whole
instance (`LockReady`). The invariant carries also that the plan made at the
start is the one that would be made now (`InPlan`). The hard case is a row of
the instance: what is current stays what it was until the last row makes the
new instance current (`NextCurrent`), and that rests on the parser never losing
its place in the front. It does in one case, so the theorem has a fourth
premise, `RoomForEnds`: no request's instance ends one row before a page does.
The run's requests satisfy it. Without it the property is false; see
below, of `docs/OTP.md` 389.

`SigningServerProofs` proves, for any clients, values and failures, that no
record has a line of the server twice (`LinesAreOnce`) and that
`SigningServer` implements `SignatureRecord` (`Refinement`). `IInv` has four
parts: types; what was fetched is still in the remote (`Followed`: branches
never go back); at each command of a turn the index, work tree or branch is
what was fetched plus one new line (`InTurn`); a push that may land late adds
one line, to the public record only after its private line is there
(`LateAdds`). The last two need each other, since a killed push is what a turn
had at that point.

`LedEngineProofs` proves, for every board, set of requests, period, flame
table and lateness, that a hold that ends gives back what the first hold
interrupted (`ExpiryReturns`) and that the newest colour waits or was sent
last (`Newest`). The first needs two facts about a channel (`Remembers`): a beacon has a hold, so
that the code's two tests for "bounded" agree; and while a hold runs `saved`
is what the first one replaced, and no beacon. The second is inductive
(`Last`). The argument follows the code's functions: those of the pin keep the
channels (`Keeps`), `led_show` keeps what a channel remembers (`Carries`), and
a channel's part of a frame touches that channel only (`Runs`), so that the
two parts compose.

Of the line it proves that a reset that is owed is waited out
(`WaitsOutReset`). What makes it inductive (`LineInv`) is where the engine's
flags say enough of a line they do not record: only a pixel takes a line up
while the state machine has it (`WireIsPixel`); a line that is high without the
state machine, with the status LED off, is the status LED's or has the `high`
flag (`HighIsKnown`); and a line the boot level or a handover left high has a
pixel waiting for at least as long as it has to stay low, or the flag up that
makes the next one wait (`ResetIsOwed`, which a tick keeps because both count
down together).

Of the pin it proves that what is owed is done on time (`PinOnTime`). There the
invariant is about the timer (`Meets`): the alarm is set no later than what
is due, or an interrupt is pending that came no sooner, or a frame that took it
waits for the lock. `led_rearm` on either core keeps it because it takes the
minimum over everything owed: it may put off the alarm for a frame, or overwrite
the other core's, but never past the pin's deadline; and one it finds overdue
already has its interrupt. From the bound follows that no pixel is cut off that
was not hurried (`CutOnlyIfHurried`), where the handover's delay is at least a
pixel and twice the lateness (`Timely`; with 150 us and a pixel of 30 us, an
interrupt and a lock each not later than 60 us): the handover is counted from
the pixel before it, or behind a reset from when that pixel goes (`CutInv`).

Of frames and holds it proves that they are on time (`FramesOnTime`), with the
same invariant for each channel's deadlines, less exact by what a reading may
be behind when the lock is there (`Slack`: a millisecond less a tick, and the
lateness). `led_rearm` compares milliseconds with each other and with a reading
that another core's step may have made old; that this picks the earliest
(`EarliestIs`) and sets the alarm no later than it may (`RearmFrames`) needs
every deadline to be near enough for the sign of a difference (`NotLost`).
A frame leaves only deadlines that its reading has not passed (`Current`), a
request adds only such ones, and a hold's end that the code moves by a
millisecond because zero means none (`Expiry`) is still such a one. The
theorem asks of the callers that no hold and no interval comes within a few
milliseconds of half the counter's range (`Roomy`); `pio_led_set` accepts holds
up to 2^31 - 1 ms, and for the last few of those nothing is claimed. `MCLedEngine`
has TLC evaluate `Timely` and `Roomy` for the run's board and requests.

These proofs assume of the constants (`TimeAssumption`, `DelayAssumption`,
`LateAssumption`, `TableAssumption`) that the two delays, a millisecond and the
lateness are short against the counter's range, so that the sign of a
difference tells past from future, and that the tables are well formed. In the
code the range is 2^32 us.

Type invariants and the strengthenings `IInv` are in no run: they are proved,
and were checked with TLC before.

Only model-checked: liveness (out of the prover's reach: `PollsEnd`,
`EnterCompletesAlone`, `ParkedResumes`, `LockIsFreed`, `EveryRequestEnds`), and
what damage beyond ECC's repair leaves of the three properties of what the
parser finds. They do not hold for every `Damages`: where a length row goes
wrong to a value that lands inside another entry the parser reads on there, and
a signature row gone wrong to another value is in no record. So the proofs
leave out damage beyond what ECC repairs, and the run has one value of it, given
with its bounds.

## What was met on the way

Observations for which there is no run, from reading the code against its
comments while modelling it.

- `commission.rs` 66-69: a run using today's date "finishes that instance with
  the instance's date". Where the instance's signature key row has one wrong
  bit, or a forced run was cut off after the magic row of its replacement, it
  writes a second instance with the same values instead. Nothing is lost; the
  older one stays current until then.
- `docs/OTP.md` 389: running it again "completes an interrupted run". Where an
  instance would end exactly one row before the area does, and the run is cut
  off with its signature's length row written and the key row, written last,
  not, the parser takes the entry for one of key 0 whose value ends where the
  area's last row is left. It has no room there for a key and a length, so it
  is lost (`metadata/src/otp.rs` 813; 808 and `docs/OTP.md` 94 provide for an
  entry that ends with the area, not for this), finds no instance after it and
  abandons the walk. An instance that was current before no longer is, and the
  same request is refused, for `place` has no free page after the last row
  written. An instance of that length in the last pages of an area takes a
  board commissioned several times over. In the model it takes one of 10 rows
  and 5 of `who`, longer than those of the run's requests; with two pages and
  one such request TLC finds `RetryFinishesInPlace` violated.
- A page's lock word that a fault left neither blank nor whole refuses every
  further run of that request (`RowWritten`); only a forced run with other
  values, which goes to other pages, is accepted.
- A copy of BOOT_FLAGS0 is rewritten with the bits it has, so a run after one
  that damaged a copy counts it as holding where its flag is set.
- `signing-server/README.md` 154-156: a live private line whose hash is not in
  the public file "is a signature the server never returned". Ed25519 makes
  one signature for the same values, so a dry run of them has returned it. The
  abstract record is therefore of requests and not of signatures.
- A mode restored at the end of a hold starts its first frame and is due for
  the next at once (`led_restore` sets `next_frame_ms` to now), so its first
  step lasts no time.
- Colours sent within the reset time of one another, without a high level of
  the status LED between, go out back to back (`led_rgb_write`): a chip reads
  the second as data for the next one of a chain.
- Two plugins that both yield and both ask at once wait for ever: each takes
  the other's REQUEST in its wait for an ACK and drops it (`plugin.c` 1052).
  `api.h` 2502 gives yielding as the only condition for
  `ora_enter_exclusive_mode` to complete. `EnterCompletesAlone` states that
  this is the only way an enter does not complete. No in-tree user plugin
  declares yield support.
- On a board that shares the pin (fire-24-f, fire-24-g), `led_status_show`
  (`pioled.c` 617-641) drives it high when the status LED is turned off and does
  not set `LED_FLAG_PARKED_HIGH`; only `led_park` does. After a handover that
  left the pin low, the next pixel then follows a high line without a reset,
  against 90-94 and 578-579.
- On the same boards a second colour while a pixel waits out its reset sets
  the handover to 150 us from then (`led_borrow_pin`, 529), and the branch that
  replaces the waiting pixel (595-600) does not move it. Pixel and handover can
  then be due in one frame, and the pin is taken with the pixel on the wire,
  against 76-79 and 866-868. `CutOnlyIfHurried` states that colours closer than
  that are the only way a pixel is cut off.

## Not modelled, and what comes next

Not modelled: the serving programs (hardware timing), boot, the Rust tools
other than commissioning and the signing server (sequential data
transformation), the mangling of addresses and data. In the handshake the
knock is a single byte. Of the LED engine: brightness, reading a mode back, the
GPIO calls beside it. Of commissioning: signing with a key file or a given
signature, the reports, the general store of OTP. Of the signing server: what
is refused before the lock (it changes nothing), keys, PINs and TLS; each
record is one key's file.

In order:

1. pipes, auxiliary pins and LEDs of host-control (partial failure of the
   multi-step SET_AUX commands, hold timing), and the argument counts that keep
   a refused command in frame;
2. the knock matcher and the address monitor's ring;
3. the log's formatter (one line as several records) and the USB plugin's drain
   of the log, on top of `LogFifo`;
4. image selection at boot, the USB plugin's PICOBOOT state;
5. the four theorems on what the parser finds with damage beyond what ECC
   repairs, as far as they hold: which rows may go wrong to which values;
6. the signing server's late file write, with the fault made explicit.
