# The ZX Spectrum emulator, in TLA+

A formal model of the C++ core (`src/cpp-core/src`) of the emulator: the engine
that owns the machine, the servers and outputs around it, and the machine
itself: the Z80's control unit and arithmetic, contention, paging, sound, the
tape deck, and what is read from and written to files. TLC checks every module
on small instances. TLAPS proves the main safety properties of the engine, of
what it shares with its clients (handovers, logpoints, watchpoints, captures,
breakpoints), of what leaves it (recordings, sound), of the Z80's control unit, the
tape deck, the paging and the server's advert, for all values of the constants.

Source paths below are under `src/cpp-core/src` unless they say otherwise.
`PROJECT.json` maps every definition to the lines it translates.

## 1. Inventory of the system

One process owns one machine. One thread, the emulator thread, touches the
machine. Everybody else is a client: the DAP server (one thread a connection,
plus detached threads for runs), the MCP server, the screen and audio streams,
and the process's own start-up. Clients reach the machine by queueing commands,
by atomics, or by two handovers.

| Component | State it keeps | Operations | Hard behaviour | Module |
|---|---|---|---|---|
| Engine (`engine.cpp`) | `queue_`, `pause_requested_`, `running_`, `shutting_down_` | `submit`, `post`, `run`, `step_over_halt`, `step`, `pause`, `service_queue`, announcements, destructor | commands serviced inside a run, a pause that races the next run, announcements on the callers' threads, shutdown during a run | `Engine` |
| Trace handover (`engine.cpp`) | `pending_trace_`, two counters, a flag, `trace_`, the machine's hook | `start_trace`, `stop_trace`, `service_trace` | a capture closed, replaced or filled while another is asked for | `TraceHandover` |
| Tape handover (`engine.cpp`) | `pending_tape_`, two counters, a flag, `tape_fast_load_`, the published status | `tape_play` ... `tape_seek`, `set_tape_fast_load`, `load_tape`, `service_tape` | requests that fall between two critical sections | `TapeHandover` |
| Frame capture (`engine.cpp`) | what is wanted, the frames, a flag | `arm_capture`, `note_frame`, `capture_frames` | a timeout that races the last frame; a second caller | `FrameCapture` |
| Logpoints (`engine.cpp`, `dap.cpp`, `mcp_server.cpp`) | the list, waiting reports, owners, a numbered log | set, clear, hit, flush, deliver, `get_log` | reports for connections that go, order against the stop, full buffers | `Logpoints` |
| Watchpoints (`engine.cpp`, `spectrum.cpp`) | the list, a flag byte an address, the hit, ids | set, clear, arm, note, filter | several owners of one byte, remembered ids | `Watchpoints` |
| DAP and MCP servers (`dap.cpp`, `mcp_server.cpp`) | per connection: known breakpoints, logpoints, watchpoints; detached runs | requests, `next`, `pause`, attach, detach, events | connections that share the engine's one set, broadcasts of several threads | `Debugger` |
| Rewind history (`rewind.cpp`) | checkpoints, input log, cursor, `live_`, `head_hc_` | record, checkpoint, trim, branch, replay, go back, return to live | absolute indices in a trimmed log, raw spans, branching, searches by interval | `Rewind` |
| External inputs (`engine.cpp`) | held keys and sticks, fast-load flag, what was last synced | `sync_keys`, `sync_joystick`, `service_tape`, `restart_history` | the past's keys against the held ones | `RewindInputs` |
| Video recorder (`video_recorder.cpp`) | queue, sink, status, writer thread | `start`, `stop`, `status`, `push`, the writer | joins, a failing encoder, a limit reached by itself | `VideoRecorder` |
| Sound going out (`engine.cpp`, `beeper.cpp`, `audio_*.cpp`) | rings, the pacing clock, a device's thread | publish, hold, render, reopen, listen | a ring overrun, a device that dies or is replaced during a hold | `Sound` |
| Sound being made (`beeper.cpp`, `ay.cpp`) | generators, the integrator, samples held | write a port or register, set the EAR, publish, restart | levels that change inside a sample or a step of the AY | `Beeper` |
| Tape deck (`tape.cpp`) | blocks, playback cursor, motor | insert, eject, seek, play, stop, `ear_at`, `consume_block`, status | pulses resolved late, clock resets, fast load, zero lengths | `Tape`, `TapePlays` |
| Tape images, recordings (`tape.cpp`, `tape_audio.cpp`) | a parser's blocks; a decoder's edges | `insert`, `parse_tzx`, `parse_tap`, `parse_audio`, the decoders | loops expanded in place, refusals half-way, rounding, a noisy signal | `TapeImages`, `Recordings` |
| Memory (`memory.cpp`) | banks, ROMs, model, paging, slots | `set_model`, `write_paging`, `load_rom`, `remap`, reset | slots that are a cache; the paging lock | `Paging` |
| Snapshots (`snapshot.cpp`) | none | save, inspect, load `.sna` and `.z80` | a page's run-length coding, PC on the stack, refusals | `Snapshots`, `Paging` |
| Z80 (`z80.cpp`, `alu.cpp`) | pins, step, registers | `clock`, the ALU | PC ahead of the program, half-clock timing, interrupts between instructions, flags | `Z80Control`, `Alu` |
| ULA and contention (`ula.cpp`, `spectrum.cpp`) | beam, hold table | `clock`, `contention_check`, `snow_check`, the port | phases of half a T-state, cycles that are checked once or each T-state | `Contention` |
| Call stack and profile (`spectrum.cpp`, `profile.cpp`) | frames, a tree, periods | calls, returns, periods | programs that borrow SP or drop addresses | `Calls`, `Periods` |
| ROM source and symbols (`rom_source.cpp`) | records, indices, a cache | parse, lookups, expressions, completion | shadowed names, paged banks, a stale cache | `Symbols` |
| Server registry (`server_registry.cpp`) | an advert file | advertise, withdraw, note the program | a signal at the wrong moment, a failing write | `Registry` |
| Screen stream, HTTP, sockets | published picture, one thread a client | serve | socket I/O | none |
| Text (`disassembler.cpp`, `profile_report.cpp`, `tracelog.cpp`, `register_names.cpp`) | none | format | none | none |
| User interfaces (`src/vscode-extension`, `src/web`) | views | requests to the servers | outside the machine | none |

How they interact: clients call the engine; the engine's thread calls the
machine, the history and the deck; at each yield of a run, and after each
command otherwise, that thread looks at the two handovers and the keys, delivers
the reports and publishes picture and sound; the engine announces stops and
continues through one pair of handlers, on the thread of whoever's call ended;
the frame tap pushes pictures to the recorder.

What makes each one correct is in section 4, next to the run that checks it.

## 2. The modules

`Engine`: clients are program counters through the calls of `engine.cpp`; the
emulator thread is the stack of jobs it is inside (one, or a loop and the
command serviced at its yield), with `phase` saying where in the loop body it
is. A job's kind stands for its body: `Drivers` are the jobs with
`during_run = false`, `Ordinary` the rest. One of those, the typing of `LOAD ""`
(`Typing`), emulates too: it takes `TypingFrames` steps, on its own or inside a run's
yield, and looks at neither queue nor flag. `view` is what subscribers were last
told. A loop may end after any instruction.

`Debugger` takes a call into the engine that is an ordinary command as one step,
which `Engine` justifies (`OrdinaryAnswered`, `OrdinaryInOrder`), and keeps the
steps between such calls apart. `contested` is a history variable: keys that
more than one owner claimed, where nobody is safe by design.

`Handover` is the promise both handovers' comments make: requests are taken up
all at once, and a caller goes on only after its own was. `TraceHandover` and
`TapeHandover` are the code: every critical section is one action, what happens
between two of them is another. The first keeps the promise and is shown to
refine it; the second may let a caller go before its command is taken up (see the
findings in section 4), and what it does keep is stated of it directly. `open` is the
set of capture files that are open, `hooked` the machine's pointer. In `TapeHandover`, `deck` is what the
emulator thread did to the tape and `status` what it published. `taken`, `asked`
and `last` are history variables; nothing the code does reads them.

`FrameCapture`, `Logpoints` and `Watchpoints` cross from the engine to both
servers: what is set, what is hit, and who gets it. A connection is known by its
address, as in the code; its `life` tells two connections at one address apart.

`Rewind` models the machine as the sequence of what was done to it: it is
deterministic, so equal sequences are equal machines, and the question whether a
replay reproduces the past becomes one about the log and the cursor. A replay is a
run of turns of one loop (`Turn`: what is due is applied, or an instruction is
stepped, or a half-clock of a raw span), written as a recursive function of their
number (`Run`), and reads the log by the entries' own numbers (`Book`), so that
trimming its front renumbers nothing.
`RewindInputs` EXTENDS it with the inputs that are synchronised, not queued:
keys and the fast-load flag.

`VideoRecorder` has the callers, the emulator thread and the writer as separate
processes; a recording is a number, `written` its file. `Sound` has the emulator
thread, the device's thread with the stream it feeds, and a listener's; samples
are numbered as they are made. `Beeper` is what a sample is: the sum of the levels of
its half-clocks and their number, summed in the code's chunks, while the AY is
stepped. `score` is what was to be heard.

`Tape` is the deck. Time is in units of the shortest pause; each turn of the
loops in `ear_at` and `advance` is a step, between which nothing else of the
machine moves (`at`). `TapeSignal` says what a tape is in the abstract: a list of
pulses for each block and a place in it. `TapePlays` maps the first to the second
and holds the position readout. `TapeImages` reads an image a block at a step and
compares the result with a player of its loops; `Recordings` is the decoders with
their trigger.

`Z80Control` is the table of half-clocks: which lines go up and down, what is on
the address bus, what follows, PC's bookkeeping. An opcode is the class of what
it makes the control unit do. `Alu` runs every operation on small programs of
bytes. `Contention` clocks machine cycles by their pins against the hold table.
`Paging`, `Calls`, `Periods`, `Snapshots`, `Symbols` and `Registry` are the state
and operations of the files in the table.

`MC*` modules give TLC its instances. `MCMachine`, `MCMailboxes` and `MCOutputs`
unite parts that share no state that is modelled: `part` says which one moves in
a behaviour, and the rest stay where they start (absent, where no property looks
at them). `MCEngineCasts` unites casts: who makes which calls, and how many. A union is the sum of its parts' behaviours, not their product, and
says nothing more than separate runs would. `*Proofs` modules hold the theorems.

Abstractions worth knowing, beyond what each module's header says:

- Names, formats, the picture and the text of reports are gone. Bytes of a
  checkpoint are counted as one each; a 48K checkpoint keeps only banks 5, 2 and 0, as
  the code's does. In `TapeHandover`, `load_tape` with auto-start is an insert: typing
  yields nowhere, so the mailbox sees one job. That it emulates inside one, for
  `TypingFrames` frames and perhaps within a run, is in `Engine`.
- `VEC_LO` and `VEC_HI`, the reads of an IM 2 vector, release MREQ and RD half a
  T-state early, as in the code.
- `Snapshots` exempts from a `.sna`'s promise what the format has no room for: the
  two bytes PC is pushed over, an IFF1 that differs from IFF2, the AY's registers
  (left as they were); and a file refused because SP has no RAM below.
- `Recordings` rounds the trigger's rails to integers and halves them per
  sample; the first edge after a silence longer than the look-ahead is exempt.
- `Symbols` states the line round trip for well-formed listings (a line for an
  address, an address for a line), and not for a file that one listed before it
  shares its base name with (a finding); and the cache for builds a second apart. An expression with two symbols
  may straddle a `load_debug_info`: each term takes its own list of sources.
- `Calls` exempts the debugger's stack where an interrupt came: interrupts push
  an address and are no call to it. The profile's tree is not exempt. A block loaded at
  once reads its caller's return address and tells neither; `known.unsaid` has the
  calls that ended so, and those made over them, until something reaches their
  slots, and both views are held to the truth whenever it is empty.
- `Z80Control`'s classes of opcode have the memory cycles of each; port cycles and
  the repeats of block instructions are left out.
- `Alu`'s BIT looks at bit 7 only; the others differ by the mask.
- `Sound` promises a device no missed samples for blocks at 1x only: while going
  fast nothing is held. `Beeper`'s AY periods are those at the beginning, written
  while nobody listens, and its noise register has 3 bits with a tap at 1; sound
  since the last integration is lost on switching it off or restarting, as in
  the code. The sample clock may be restarted at any rate.
- In `Logpoints`, `heard` has an entry for each place a connection listens at: its
  console, and each `setLogpoints` group, whose reports come in an event of their own.
  The order reports were made in is kept in each of them, not between them (a
  finding); the stop is heard at all. A delivery is by address (`dap.cpp:893`), yet a
  connection given the address of one that went hears nothing of its predecessor's:
  the one that goes clears its logpoints first, and each clear waits for the delivery
  it ends with.
- In `FrameCapture`, callers are not kept apart (`engine.cpp:373`): a second one
  arms over the first and either may take the other's frames. `CaptureKept`
  speaks of callers that had the capture to themselves.

## 3. Constants and bounds

| Constant | Meaning | Why its value is enough |
|---|---|---|
| `Clients`, `May` | callers and what each does | three with one call each, or with two and a narrower repertoire: one job running, one serviced, one waiting |
| `MaxCalls`, `MaxRequests`, `MaxRecordings`, `MaxCaptures`, `MaxStreams`, `MaxOps` | calls in a behaviour | two to four: one installed, one taken up, one replaced |
| `TypingFrames` | frames it takes to type `LOAD ""` | 2: one after which it goes on, and the last |
| `YieldEvery` | instructions between yields | 2: the loop goes round with and without a yield |
| `MaxIntervals` | checkpoint intervals of a search | 2: one that continues, one that is the oldest |
| `InstrHc`, `FrameHc` | half-clocks of an instruction and a frame | 2 and 3: frames begin within instructions and at their start |
| `RawSpans`, `Window`, `MaxBytes`, `MaxHc`, `MaxInputs` | raw clocks, history kept, run length, inputs | a span that ends inside an instruction; both causes of trimming drop something and keep something |
| `MaxQueue`, `MaxFrames`, `Limits` | recorder | full and empty queues, a limit reached and none |
| `Buffer`, `DeviceCap`, `ListenerCap`, `Blocks`, `MaxTimeouts`, `MaxStalls` | sound | rings smaller than a block and larger, a device given up and one kept |
| `Conns`, `Sources`, `MaxIds`, `MaxHits`, `MaxLives`, `MaxPending`, `McpKeep` | logpoints | one address with two lives, a source and a group, one waiting report and one dropped, a log that forgets |
| `Conns`, `Agents`, `Keys`, `Categories` | debugger | two connections and an MCP client over two keys of two kinds |
| `Images`, `Tzx`, `Tap`, `Recorded`, `MaxItems`, `MAX_BLOCKS` | tapes | headers, turbo blocks, pulse blocks, a stop marker, zero lengths, loops in and out of bounds |
| `Space`, `Lengths`, `Banks`, `Interests` | watchpoints | three addresses: overlapping, adjacent and wrapping ranges |
| `MaxPrefixes` | prefixes before an opcode | 2: every pair, which is all that the control unit remembers; the proofs are for any number |
| `StackSpace`, `MAX_DEPTH`, `MAX_NODES`, `WORST_PERIODS` | calls, periods | depth and nodes run out; one worst period is displaced |
| `Groups`, `Border` | a line of the screen | two groups of 8 T-states and a border, so that cycles begin in each of them |
| `Loaders`, `Programs` | advert | two threads that load besides the main one |
| `PagingValues`, `RAM_BANKS`, `MaxMarked` | paging | locked and unlocked, both screens, a bank that is mapped twice |
| `PageSize`, `LongRun`, `MaxRun` | a page's coding | runs of every length around both limits, the marker as byte and as count |

`MCData` holds the listings, images, chunks and programs of bytes of the parts
that work on data, and says of each what it is there for. No bound is a state
constraint: each is a guard of an action, so behaviours end rather than being
cut off. That is why runs with a bound on calls do not check deadlock: the
system may stop when everybody has had their calls.

## 4. Runs

| Run | Properties | What it shows |
|---|---|---|
| `engine` | `CallerOutlivesJob`, `DriversOutermost`, `QuiescentStopped`, `OrdinaryInOrder`, `OrdinaryAnswered`, `ShutdownCompletes` | Jobs hold references to their callers' stacks: each runs once while its caller waits. Jobs that wait for a run's end are never inside another; only a loop at its yield has a job inside it, and one at most. No continued event without a later stop. `service_queue` keeps the order of ordinary commands, and they are answered within a run that never ends; the destructor returns. |
| `engine`: one that runs | `PauseEndsRun`, `RunIsTold` | Pause works, also with `LOAD ""` typed in the middle of the run; the announcements and `running()` agree with the machine where nobody resets or loads. |
| `outputs` | `CapturesKept`, `RecordingIsWhole`, `SoundKept`, `HandedOver`, `WaitsEnd` | Captures are closed exactly when they should be and the handover refines `Handover`. Files hold what was accepted, in order, with one close a sink. Rings hold the newest samples; a paced device misses none. Callers, writers and the machine itself are let go, dead devices included. |
| `mailboxes` | `RequestsReach`, `InsertSeen`, `ReportsArrive`, `NothingOfTheGone`, `CaptureKept` | The last tape command is the one the deck obeys, settings arrive, requests are not lost between the two critical sections, an insert's caller reads its own tape. Reports go home, once, in order at each place a client listens, before the stop, and losses are counted. A lone capture gets its frames. |
| `history` | `ReplaysAgree`, `TimelineKept`, `SearchSeesAll`, `KeysAreNoNews` | Every checkpoint replays to the present, the past is the past, the head can be had back, a search misses no boundary; held keys are the machine's when it is live, and moving through the history presses nothing. |
| `debugger` | `ArmedAsAsked` | Nothing armed that nobody asked for; nothing a client asked for disarmed by somebody else, unless the same key was contested. |
| `debugger_events` | `StopsAreTold` | When everything has settled every client knows the machine is stopped; a pause is always answered. |
| `machine`: `tape` | `CursorFits`, `PlaysSignal`, `TapeGetsOn` | The deck implements the list of pulses; its cursor stays on the tape and behind the clock; its walks return and the readout never goes back while playing. |
| `machine`: `images`, `recordings` | `InsertedIsTape` | An image taken is the tape it describes, one refused has changed nothing; a recording keeps its time however long. |
| `machine`: `watch` | `WatchesStandApart` | A watchpoint is told of what it wants whatever others are armed; ids are not mixed up. |
| `machine`: `z80`, `alu` | `TakesItsTime`, `GoesBackThere`, `BusKept`, `AluIsArithmetic` | Instructions take their published times and refreshes; interrupts push the right PC; strobes never overlap or see an address move; the ALU is arithmetic. |
| `machine`: `bus` | `TakesPublishedTime` | Every cycle is held as the published tables say, wherever in a line it starts. |
| `machine`: `calls`, `periods` | `ProfileTells` | Frames are the open calls whatever is done with SP, fast loads included once their slots are reached; the worst periods are the busiest. |
| `machine`: `paging`, `snapshots` | `MapFollowsPaging`, `SnapshotsComeBack` | The slots are those of model and port; a snapshot or a step back brings back what was there. |
| `machine`: `sound` | `SoundIsExact` | Each sample is the average of what was on in its half-clocks. |
| `machine`: `symbols` | `LookupsAgree` | Lines and addresses, what is printed and what is read, what is offered and what is meant, agree, for each bank that may be paged in. |
| `machine`: `advert` | `AdvertTells` | An advert is whole, true, and gone once it should be. |

Every property has a mutant in `PROJECT.json`: a plausible fault, defined next to
the definition it would replace (`PushUnbounded`, `StartBlockStamped`, ...), that
violates it. These faulty forms are not part of any specification.

### Where the code and its words differ

Five runs expect a violation:

- `engine_pause_lost`: `run()` clears the pause flag on its caller's thread
  (`engine.cpp:1121`). With two clients that run, the second call wipes a pause
  the first run has not looked at. `docs/mcp-interface-plan.md:100` says pause
  always reaches a waiting tool. With one runner it does (`engine`).
- `fast_load`: the fast-load setting is recorded only when it differs from the
  last one recorded. After stepping back across that record and starting a new
  timeline the machine has the old setting and a request changes nothing.
- `step_over`: `next` asks whether its client has a breakpoint at the return
  address before the run, and clears its own after it: one set in between goes too,
  against the comment at `dap.cpp:1536`.
- `snow`: a fetch from contended memory that begins at G + 7 is not held, and
  its refresh falls where snow does; `docs/contention.md:227` says such code is
  always held clear of it.
- `nested_loop`: `load_tape` with auto-start and `wait_for_tape` may be serviced at a
  run's yield and type `LOAD ""` by emulating, frame after frame, inside it:
  the nesting that `engine.h:844` says the queue prevents. `DriversOutermost`
  (`engine`, and a theorem) says how far it goes: nothing else nests, and the
  typing has nothing inside it.

The others were met while modelling and are listed under `findings` without a run: a
fast load, which does the ROM routine's RET itself (`spectrum.cpp:757`) and leaves the
profile charging a call that has returned, against `profile.h:41` (`PathsAreCalls` is
the full claim, `PathsFollow` what does hold); a completion asked for no names, which
says there are no more (`rom_source.cpp:662`, against `rom_source.h:263`; `OfferedIsWhole`
and `OfferedIsMeant`); a
reset announced as a stop in the middle of a run; `service_tape` releasing a
caller before its command; the call stack's parallel vector not popped on a fast
load; a watched access lost behind an unwanted one of the same instruction; data
breakpoints left by a connection that goes; and documents or comments that say
other than the code does about the order of reports, the floating bus, the tape's
block limit, the stop-if-48K block, truncated snapshots, file paths, rebuilt ROM
sources, pasted ROM names and `set_reg`.

One limit of the rewind properties is deliberate and visible in them: `midspan`.
A search may land on an instruction boundary inside a raw span (`step_tstates`),
and stepping, editing or clocking on from there is not reproduced by a later
replay, which clocks the span through. `midspan` is set by exactly those steps,
and stays set until the history restarts. Everything else, raw spans replayed,
searched, trimmed and returned from included, is covered.

## 5. Fairness

Weak fairness of the emulator thread's step, of each client that is inside a
call, of the recorder's writer, of the device's thread (it renders, reopens) and
its stream while it lives, and of the deck's walk: the operating system runs a
thread that is ready, mutexes are held for a few assignments, and an encoder reads
its pipe or dies. In `Debugger`, of detached threads, of handlers and of the
delivery of what was sent. Nothing else is fair: no client has to make a call, no
instruction has to hit a breakpoint, no run has to end, no stream has to recover.
`PauseEndsRun` also needs what the model gives by bounding calls: `service_queue`
returns only once it finds nothing servicable, so clients that never stop posting
could keep a run at its yield. The code states no bound for that.

## 6. Proofs

Everything named here is checked by TLAPS for all constants that satisfy the
modules' assumptions. Most only say which constants are numbers, sets and tapes,
and which names are distinct (a connection is not `"mcp"`, the job that wakes the
emulator thread is no client, `None` is no key and no actor). Two say more:

- `SoundAssumption`: the device's ring has room for a block beside the pacing
  target. `open_stream` (`audio_wasapi.cpp:271-290`) makes the ring four buffers
  and the latency, the target two buffers or the latency, and a publish is about
  half a frame.
- `RunIsSeen` is about one client that drives (`DrivesAlone`); with two,
  `engine_pause_lost` shows what can happen.

`EngineProofs`. No property is inductive alone. The invariant joins the types;
`CallerOutlivesJob`, without which a job's kind could change under it;
`DriversOutermost`, which needs the former to know what is on the stack; and the
statement that every `running_` and every continued event not yet withdrawn
belongs to a caller of `run` that has not returned, from which `QuiescentStopped`
follows. `OrdinaryInOrder` is an action property: only `Service` and `Pop` remove
from the queue, one the oldest ordinary job, the other the head. `RunIsSeen`
needs a second invariant, `AloneInv`, of where that one client's call, the stack
and what it announces can be; it is inductive beside the first. The lemmas at
the top say what appending, taking the head, taking the last and dropping the
i-th element do to a sequence without repetition.

`TapeProofs`. The invariant says that the deck's cursor and every checkpointed
one is `Good`: it points into the tape there is now, and a playing one is not
ahead of its own instant. It is needed because `RestoreState` brings back old
cursors, so they must still be good after any later insert, eject or reset; that
is why those end the history. From it, `CursorFits` for every tape.
`DeckPlaysSignal`, that the deck implements the list of `TapeSignal`, needs to know
what is in that list. `Bits` is what the first bytes of a block amount to, shown byte
by byte (`BitsAre`, `BitIs`, over the least place where it would fail), and
`LeaderIs`, `DataIs`, `SilenceIs` and `SignalIs` say which pulse is where in a block.
`Along` is the mapping for a cursor at a block. The invariant adds `Fits`: each phase
is one its block has, and only the first pulse of a bit or of the silence is followed
by a second (`Within`), for otherwise a place could lie past the pulse that is next.
Each turn of `advance()` then `Sounds`, beginning the pulse that is next in the list
with its own length and edge, or is `Silent` and a stutter (`PulsesGo` to `StartGo`);
what ends a block is the list's next block or its end, and each of the operations,
the trap and the checkpoints is the list's of the same name (`WalkPlays`,
`TransportPlays`, `FastLoadPlays`, `NextPlays`).

`MemoryProofs`. The slots are written only by `Remap`; the lemma `RemapMaps` says
that it makes any well-paged memory `MemoryOk`. The invariant adds that a kept
snapshot or checkpoint was well paged and showed its own screen, without which
putting one back need not be. The port, its lock, the model switch, the resets,
ROM loads, snapshots and checkpoints follow, for any banks and any values. Of the
watchpoints, that the flags are always those of the list (`Armed`), so that what
one wants is flagged at each address it spans, wrapped round the space or not;
and that ids, remembered ones included, are below the next (`Listed`,
`Remembered`).
The advert: `AdvertTells` is not inductive: that a write leaves the truth
depends on who holds the lock (`OneWriter`), on what is in the temporary file
when it is renamed (`TempIsWhole`), on the main thread writing only before
anybody can be told to leave (`MainWrites`), and on an empty path meaning no file
(`NoPathNoFile`). Each action of a writer, of the process and of a signal keeps
the five; the lock in the handler is what makes the signal's case go through.

`MailboxProofs`. The tape: an insert's caller stays put while its job is queued
(`JobsWaited`), numbers tell what was taken up (`Numbered`), a tape put in is in
the published status before its caller is let go (`Inserted`); `RequestsReach` is
inductive beside these, `InsertSeen` an action property that follows. Logpoints:
`NothingOfTheGone` is not inductive, since a logpoint is in the engine before it
is in any list. `Held` follows the one number a connection has in its hand,
`OwnersList` ties owners to lists and lives, `AllKept` says who holds what.
`ReportsArrive` needs more: that a delivery has all there was (`OneDelivery`), that
what is on its way is in order and after all that was heard (`InTurn`), that no two
clients hold one logpoint (`OneHolder`), and that the owner of a report on its way
still has the logpoint or waits for this very delivery (`StillSet`, `ForThem`), so
that its address cannot yet be another's; for the log, that its lines and what its
reader is owed are numbered upwards (`Owing`), so that each line that falls out is
one more in a count. What is picked out of a list is a recursive function
(`Picked`): `Picks` shows what it gives, in which order and that nothing is left out,
by looking at the least place where it would not (`Least`, from the well-foundedness
of the numbers).
Captures: what a lone caller is owed is in three places, the armed capture, the
frames collected and the job it posted; `ItsOwn`, `Due` and `Enough` relate them
at each of its steps.

`DebuggerProofs`. `ArmedAsAsked` speaks of connections at rest; the invariant
follows them through `sync_breakpoints`: what a connection wants is armed but for
what it has yet to add (`Kept`), what it no longer wants is not but for what it
has yet to drop (`Dropped`), and `Reconciles` says what is left of the two loops
at each place. All of it is about keys nobody contested, whose holder is the only
one (`Alone`); `Queued` and `Seated` say whose handler is waiting and who is connected.

`OutputProofs`. A recording: one caller at a time is inside (`Locked`), and for
each place it can be in, what it has already seen to holds (`Staged`): the writer
joined, the sink gone. `InFlight` is the heart: what was accepted is the file,
then the frame in the writer's hand, then the queue. `Settled` says what is left
of that when the sink is closed. Sound: `WriteKeeps` and `ReadKeeps` are about the
ring alone, that writing any number of samples and reading any keeps "the newest
of what was made, in order", round the end of the buffer and over its capacity;
`Faithful` that a clock that held every block finds at most the target in the ring
when the next is made, and none of it after the stream it copied was closed.
Tracing: `Numbered` ties the flag, the pending capture and the two
counters together; `AskedOnce` says captures are asked for once; `OlderAreClosed`
that at most the newest taken and the newest pending can be open. With them:
`CapturesKept`, `ReleasedMeansTaken`, and `ImplementsHandover`, where `Take` is
the abstract `TakeUp` or a stutter.

`Z80Proofs`. `BusFree` and `TakesItsTime` are about single states, and no half-clock
alone says why they hold: the lines that are up and the half-clocks that have
passed are those of a place in a cycle. So the table is proved about first.
`Leads` says that a list of half-clocks takes a cycle from one place (lines up,
half-clocks, refreshes and bytes so far) to another with no two devices on the bus
on the way and no address moved under a strobe; runs join end to end (`Joined`),
and so reads, writes, time inside the CPU and fetches make up every cycle
(`Table`). The invariant `Inv` then says that the CPU is where its table says
(`Placed`), that PC is past the bytes used and past nothing else (`AtHome`), what
the words seen so far can be in each cycle (`Told`: which prefix came before, which
opcode goes on how), how many half-clocks and refreshes there were (`Counted`), and
that what was last over took what is published (`Comes`). Each half-clock goes on in
its cycle (`KeptOn`), ends one and enters the next (`MovesIs`, `InstructionIs`,
`PrefixIs`), or ends an instruction (`BoundaryIs`, with `Publishes` adding up the
time); a wait state, a pin and a debugger's new registers are the rest of
`Z80Step`. `GoesBackThere`, `TakesItsTime` and `BusKept` follow, for any number
of prefixes and with no assumption on it.

`RewindProofs`. A log and a place in it (a machine and a cursor) determine one path,
turn by turn, for ever. `Leads` says that it goes from one place to another, as
membership of every set that holds the first and is closed under a turn; facts about
paths are then proved by exhibiting such a set, and what fails of a number by looking
at the least one (`Least`), in place of an induction the provers cannot do. Every turn
goes further (`Far`), so two places of a path are in one order (`Order`), and a run
stopped by a time stops at the one place of the path that is there (`RunStops`). The
invariant `HInv` is the types and, outside `midspan`, `Kept`: the checkpoints lie in
order on one path that ends at the end of the timeline (`Chain`), and the machine is
on it, with nothing due left behind it (`Standing`). It is inductive because what
changes the log, a branch at its end or a trim at its front, alters only entries no
path still to be taken reads (`LeadsIn`, `Branched`, `Shorter`, `Dropped`), and
because a replay stops where the machine was (`Arrives`, `Catches`).
`EveryReplayAgrees` and `TimelineIsKept` follow, for any spans, windows, intervals and
memory limits. A search needs also that the clock of a machine on the timeline is told
by what was done to it (`Timed`), which makes the timeline's hours those of the path
(`HoursThere`); what was done between two places was begun at exactly one place
between them (`Crosses`), and the search's run notes those and no others
(`RunNotes`): `SearchAlwaysSees`. Which keys a machine has is told by the last of them
in what was done to it (`LastIs`), and those of a raw span by the log it leaves
(`RawIsLast`), so that keys are never news to a machine put back (`KeysAreNeverNews`).
`FeedingKeeps` says that the inputs the Engine
synchronises reach the history only as its own inputs and jobs, so that all of it
holds with them too.

Only model-checked, and why:

- all liveness (`PauseEndsRun`, `OrdinaryAnswered`, `ShutdownCompletes`,
  `WaitsEnd`, the `PullReturns` half of `TapeGetsOn`, `StopsAreTold` of the debugger): out of the prover's
  reach;
- what recursive operators and the folds that take an operator compute: the library's
  induction theorems take an operator the provers cannot instantiate, and a
  `RECURSIVE` operator cannot be reasoned about at all. (`Picked`, `Run`,
  `TimelineHc` and `Bits` show the way round for recursive functions over numbers.)
  So, the deck's position (`PositionForward`, the other half), `SoundIsExact`, `InsertedIsTape`,
  `SnapshotsComeBack`, `LookupsAgree`, `AluIsArithmetic` and `ProfileTells`;
- `TakesPublishedTime`, which is about the tables of holds: they are finite, and
  TLC goes through all of them, from every place in a line.

## 7. Not modelled, and what would come next

- 128K `.z80` files and versions 1 and 2 of the format; the exact spelling of
  chunks and symbol tables; a product of the machine's parts (the trap, the
  history and the deck in one state machine).
- Pacing by the wall clock (`engine.cpp:654-680`). A reset or a typing serviced at a
  yield puts `global_hc` back to 0 while `pace_origin_hc_` stays, so the difference
  wraps, to more seconds than the clock's duration holds: for a model with its
  arithmetic.
- Two clients' watchpoints after one of them goes (a finding, without a promise
  in the code to check).

Not planned: device and socket I/O and the waveOut fallback
(`audio_device.cpp`), formatting (disassembly, trace rows, reports, JSON), the
picture and its filters, the register transfers of single opcodes (the repository
runs published instruction suites against them), the tables of keys, the user
interfaces, vendored and generated code, the former Python emulator, and
scripts. What they do keeps no state another part relies on, or is checked by
comparison with known answers better than by a model.
