# Mega PCM 2: models and proofs

TLA+ models of Mega PCM 2, a sample playback driver for the Mega Drive, and of the tools
beside it: the driver itself, a program for the Z80 (`src/src/z80/`) that plays 8-bit
samples from the cartridge through the YM2612's DAC; the routines for the 68K
(`src/src/68k/`) that load it and send it commands; the Z80 emulator the repository
tests it with (`src/lib/z80vm/`), the visualizer that plays it on a PC
(`src/tools/megapcm-viz/`, `src/lib/megapcm-emu/`) and the converter that makes its
compressed samples (`src/tools/dpcm-hq-conv/`). `x.asm` without a directory is in
`src/src/z80/`; C and C++ files are named without theirs.

- [The system](#the-system)
- [What is hard about it](#what-is-hard-about-it)
- [Modules](#modules)
- [Runs](#runs)
- [Proofs](#proofs)
- [What disagrees with the documentation](#what-disagrees-with-the-documentation)
- [Not modelled](#not-modelled)
- [Plan](#plan)

## The system

| part | state | operations |
|---|---|---|
| PCM loop (`loop-pcm.asm`, `playback.asm`) | 256-byte ring buffer, read-ahead position `e`, playback position `l'`, stale copy of it in `a`, pitch counter `a'`, bytes left `bc` | fetch two, play one, check read-ahead, drain, reload, VBlank handler |
| DPCM and DPCM turbo loops (`loop-dpcm*.asm`) | the same buffer; write pointer `c` on the last sample written, source `de`, tables in RAM | read a byte, decode two nibbles, play, check, drain, reload, VBlank handler |
| PCM turbo loop (`loop-pcm-turbo.asm`) | as the PCM loop, without pitch | as the PCM loop |
| Bank switching (`set-bank.asm`) | `CurrentBank` (operand of a `cp`), bank register (9-bit shift register) | `SetBank`, `SetBank2` |
| Sample loading and start (`play-sample.asm`) | `ActiveSample`, YM address latch, `DriverReady` | request, play, enter loop, disable DAC, stop |
| Commands (`process-command.asm`) | `CommandInput` (operand of the `ld a` at 0000h) | accept, refuse, stop, pause, unknown |
| Idle, pause, calibration loops (`loop-*.asm`) | `LoopId`, `VBlankRoutine` (operand of the `jp` at 38h), copies of both, stack | main loop and VBlank handler each |
| Start-up (`init.asm`, `megapcm.asm`) | work RAM | clear, patch 0000h, calibrate, report ready |
| 68K loader (`68k/load-driver.asm`) | - | copy, reset, poll `DriverReady` |
| 68K commands (`68k/commands.asm`, `68k/macros.asm`) | - | write one byte of Z80 RAM with the Z80 stopped; wait for `DriverReady` before a YM write |
| 68K sample table (`68k/load-sample-table.asm`) | `SampleTable` | parse headers, write a record per sample |
| Z80 emulator (`z80emu.c`, `instructions.h`, `macros.h`, `tables.h`) | `Z80_STATE`: registers, flags, refresh, interrupt flip-flops, cycles; the locals of a block instruction | run for a number of cycles, interrupt, NMI |
| Virtual machine (`z80vm.c`, `z80vm.h`) | memory, ROM bank, cycles of the frame and its overshoot | emulate a TV frame, emulate a subroutine, call back before a YM write |
| Visualizer (`megapcm-viz.c`) | DAC registers, the buffer of rendered samples, the master cycle rendered up to | render, give a frame's samples to the audio stream |
| Sample ROM loader (`megapcm-emu.c`) | the sample table | read descriptors and file headers, make records |
| DPCM-HQ converter (`dpcm-hq-conv.cpp`) | arguments, the stream, one encoder per delta table | parse, read, encode in three threads, choose, write, decode |

In the driver there are three actors: its main program, its VBlank interrupt handler (one
frame is about 60 000 cycles), and the 68K, which may stop the Z80 between any two
instructions to read or write its RAM. The main program and the handler share
registers and are kept apart by `di`/`ei` only; the driver and the 68K share single
bytes, mostly operands of instructions. The emulator runs in the thread of its host, in
slices; the host calls it, and it calls the host back at a YM write. The converter starts
three threads that share nothing and waits for all of them; its files are what the ROM
loader, and the 68K's loader, read.

What makes the system correct:

- *playback*: the DAC is sent the samples in order, none lost, repeated or stale, also
  during VBlank, when the ROM must not be read because the 68K may be using its DMA; the
  buffer neither overruns nor runs dry; a sample ends, or loops, where it should.
- *control*: the routine called at VBlank is that of the loop that runs; handlers that
  leave by resetting the stack leave nothing behind; a sample is refused only by one of
  higher priority; a pause resumes what it interrupted; a command is processed once.
- *handshake*: the 68K never waits for ever for `DriverReady`.
- *emulation*: an emulated program cannot tell in which slices it runs; flags are those of
  the arithmetic; a call comes back when its cycles have passed, and never much later.
- *time*: frames and sound do not drift against the processor, each sample is what the DAC
  gave out at its time, the VBlank interrupt comes within the signal.
- *files*: decoding gives what the encoder predicted; a run that fails harms no file but
  the one it was writing; a record of the table points at the samples of its file.

## What is hard about it

`PROJECT.json` lists the hazards, each at its line, with the properties that would catch
it. In groups:

- *The buffer has no count.* Empty and full are told apart by the order of operations
  and by a margin (`megapcm.asm:148-154`); the check uses a position the interrupt may
  have made stale. In the DPCM loops the write pointer is also one place behind, and
  everyone who plays the buffer dry corrects it for a moment.
- *Code between `ei` and `di`.* An interrupt may be taken in the middle of a bank
  switch, after the last byte is played, between a correction of `c` and the `di`, and
  while the DAC is being disabled.
- *The stack.* A pause is a call from inside an interrupt handler to a loop with
  interrupts of its own, left by dropping a return address; a stop or a new sample
  resets the stack wherever it is.
- *The mailbox.* It is one byte, read and later cleared, by code the 68K can stop
  between the two.
- *Arithmetic.* 8-bit positions, an end offset of 0 that means the previous bank, a
  priority compared with a whole flags byte; flags derived from `a ^ x ^ z`; unsigned
  cycle counts that are subtracted.
- *Slices.* A block instruction can be left half done and taken up in the next call; EI
  and DI put off the end of a slice; a frame runs over its end and the next is shorter.
- *Agreement of two programs.* Encoder and decoder must go through the same samples
  although one sees the input and the other nibbles; the loader must find what the
  converter wrote.

The driver persists nothing, and there is no messaging; the only restart is
`MegaPCM_LoadDriver` called again. The converter persists its output files, which later
runs read.

## Modules

| module | what it models |
|---|---|
| `SampleBuffer` | positions in the ring and the read-ahead check |
| `ActiveSample` | a sample table record and `LoadActiveSampleData_DI`, which turns it into banks and lengths |
| `PcmLoop` | the PCM loop, its VBlank handler, bank switching; extends the two above |
| `DpcmLoop` | the DPCM and DPCM turbo loops, likewise |
| `SampleStream` | abstract: the samples of a clip, sent in order |
| `SampleFlags` | the flags byte: type, priority, loop; the loop table; the priority test |
| `DriverControl` | the control of the whole driver, the mailbox, and the 68K's side of it; extends `SampleFlags` |
| `DriverHistory` | what becomes of the commands the 68K writes; extends `DriverControl` by two history variables |
| `Playback` | abstract: one sample at a time by priority, pause and resume |
| `YmPort` | the YM2612's latch and registers as `PlaySample`, `DisableDAC`, playback, the handlers and the 68K write them |
| `Z80Alu`, `Z80Decode` | flags and arithmetic; the instruction tables |
| `Z80Exec` | the effect of each instruction on a processor record; extends the two above |
| `Z80Emu` | the emulator: calls, slices, prefixes, block instructions, interrupts, subroutines |
| `Z80` | abstract: a processor that executes one instruction after the other |
| `TvFrame` | `Z80VM_EmulateTVFrame` |
| `Visualizer` | the visualizer's main loop and DAC device over `TvFrame` |
| `DeltaCodec` | delta tables, the cost of a delta, the comparison of errors |
| `DpcmConverter` | the converter, run several times on the same files; uses `DeltaCodec` |
| `SamplesRom` | the ROM loader, on what the converter leaves |
| `MCPcmLoop`, `MCDpcmLoop`, `MCDriverControl`, `MCZ80`, `MCVisualizer`, `MCSamplesRom` | instances for TLC |
| `SampleBufferProofs`, `PcmLoopProofs`, `DpcmLoopProofs` | theorems about the ring and the playback loops |
| `DriverControlProofs` | theorems about `DriverControl` and `DriverHistory` |
| `YmPortProofs` | theorems about `YmPort` |
| `Z80EmuProofs` | theorems about `Z80Emu`, with the operators it uses |
| `VisualizerProofs` | theorems about `TvFrame` and `Visualizer` |
| `DpcmConverterProofs` | theorems about `DpcmConverter` |

### PcmLoop

`pc` is the place of the main loop, `handler` counts the steps the VBlank handler has
left (0 outside it). A stretch of code under one `di` is one action: `Fetch` (`di; ldi;
ldi; jp po`), `Play` (one playback and `ei`), `ChkReadahead`, and so on; `IrqPoints` are
the places between an `ei` and the next `di`, and `VBlank` may be taken at each of them.
`SetBank2` is two steps, because `CurrentBank` is stored before the serial writes to the
bank register: between them the window is `Partial`. A byte of the cartridge is
represented by its address, so a byte that comes from the wrong place is seen.

A handler makes `VBlankPlays + 3` plays (142 + 3 in the driver), reloads the pitch and
looks at the mailbox; what the mailbox may do is a nondeterministic choice here (go on,
stop, start a sample) and is modelled in full in `DriverControl`. Cycles are abstracted
to `FrameGap`: the number of iterations of the main loop between two VBlanks, at least.

`StreamInOrder` says that `PcmLoop` implements `SampleStream` under the mapping
`clip` = the active sample, `next` = the position in the cartridge of the next fetch less
the bytes buffered, `dac` = `dac`. What the samples are, it takes from the records of the
table (`First`, `End`) and not from the banks and lengths `LoadActiveSampleData_DI` makes
of them, so that an end split wrongly is seen; so does `ReadsInsideSample`.

### DpcmLoop

It has the shape of `PcmLoop`; what differs is the decoder. `c` is the last sample
written, so the first free place is one further on, except where the code has put `c`
right for a moment; `Corrected` names those places, `Free` and `Ahead` are defined by it.
A decoded sample is represented by its position, in nibbles, if the delta was added to the
sample before it, and is `Garbled` otherwise, so that an error in a single decode is seen
however the table looks. `turbo` of the active sample chooses between the two loops:
they differ in the pitch, the number of plays and the last play of the handler.

Interrupts are taken at every place between `ei` and `di`, but three coincidences, which
break the stream, happen only if the constant `Coincidences` asks for them: `"Decode"` (a
VBlank between `inc c` and `di` that finds fewer samples than it plays), `"Drained"` (a
VBlank between the end of the drain and the next `di`), `"Switch"` (a command accepted
during a bank switch, as in `pcm_cut_switch`). `dpcm_samples` has none of them;
`dpcm_half_fetched` has the first. They are described among the disagreements below.

`StreamInOrder` is a refinement of the same `SampleStream` that `PcmLoop` implements, with
positions in nibbles.

### DriverControl

`pc` is a label of the source, or a place inside a routine where the 68K or an interrupt
could tell a difference; `stack` holds return labels and names of saved registers; `iff`
is the interrupt flip-flop. `Interrupt` pushes `pc` and jumps to `vblankRoutine`. The
read of the mailbox and its reset are separate steps; `request` is what the driver has
read and not dealt with yet. The four playback loops are one place, `Playing` (with
`Scratch` for what they push themselves), entered through the loop table and left by
`SampleEnds`, a stop or a new sample: their buffer is the subject of `PcmLoop` and
`DpcmLoop`. The models meet in the handler: `ProcessCommandInput` and `Request` of the
loops stand for what `DriverControl` does from `ProcessCommandInput` to
`EnterPlaybackLoop`.

The 68K writes the mailbox (`WriteCommand`), loads the driver again (`LoadDriver`,
`DriverLoaded`) and waits before a YM write (`EnsureYMWriteReady`, `YMWriteReady`); while
it waits it does nothing else, as in the sound driver of `examples/s1-smps-integration`.

A 68K that loads the driver again polls `DriverReady`, which may still hold the byte of the
driver before it (`load-driver.asm:55-72`): `DriverLoaded` may therefore come before the
new driver is up, and the 68K send commands that `InitDriver` overwrites.

`PlaysByPriority` says that `DriverControl` implements `Playback` under the mapping
`mode` from `loopId`, `sample` = `active`, `loop` = the loop that runs or, in a pause,
its saved id.

The mailbox does not tell a command that has been dealt with from one that was lost.
`DriverHistory` adds what the 68K wrote last (`written`) and whether the driver then had
another command in hand, which it may yet reset the mailbox over (`crowded`). The 68K is
free to write whenever it likes; what is promised of commands says what happens to crowded
ones. `CommandKept`: the mailbox is reset over a command not read only if that one was
crowded. `PauseHolds`: a pause ends only after an unpause, a byte that is no command, or a
crowded one. `StopObeyed` and `PlayObeyed`: a command that was stored while nothing was
being handled is obeyed, unless the 68K stores another.

### YmPort

A write to the YM2612 is two: the number of a register, which the chip latches, and the
data. Playback sends data only, and relies on 2Ah being latched. `latch` is that register;
`regs` keeps of each register who wrote it last and bit 7 of the data, by which 2Bh
switches the DAC on and FM6 off. There is one action per access of the driver to the chip
or to `DriverReady`, since the 68K may stop the Z80 between any two (`StopZ80`); it then
looks at `DriverReady` and writes number, data and 2Ah (`WriteFMI`, after the sound driver
of `examples/s1-smps-integration`). The rest of the control is that of `DriverControl`,
reduced to its places: commands and the pause are choices. The playback loops are the two
places `Playing` and the handler's plays; `LooksFilled` says when the handler finds
something to play.

VBlanks come wherever interrupts are enabled, also in `DisableDAC` and up to the `di` of
`IdleLoop`, where the routine of the sample that ended is still installed. The history
variable `struck` keeps the place the last such handler came at. A VBlank does harm there,
for the reason given among the disagreements; the properties say at which places exactly.
`WritesReachTheirRegisters`: register 2Bh holds what `PlaySample` or `DisableDAC` wrote,
unless the last VBlank struck while 2Bh was latched. `FM6BackWhenIdle`: the idle driver has
given FM6 back, unless it struck after the last write of `DisableDAC`; a VBlank before that
write is made good by it. `LockIsSound` needs no exception.

### Z80Exec, Z80Emu, Z80

`Z80Decode` holds the three instruction tables as functions of the opcode's fields,
`Z80Alu` the flags. In `Z80Exec` each group of instructions is an operator that takes the
processor after the opcode has been read and returns it after the instruction, with
cycles, refresh and undocumented flags. The memory is a small RAM that repeats over the
64 KB; port instructions abort, as the VM defines them (`z80vm.h`). The compile-time
options are those of the repository's `z80config.h`.

`Z80Emu` has the control. `phase` is where `emulate()` is: not called, about to read an
opcode, about to execute, in the loop of a block instruction, or aborted. `call` is the
budget of the running call, `cur` what has been decoded so far, `blk` the locals of a
block loop, `sub` the subroutine the VM waits for. There is one action per instruction
group, one for each prefix and one for each turn of a block loop; the host's calls
(`Z80Emulate`, `Z80Interrupt`, NMI, `Z80VM_EmulateSubroutine`) come in any order between
slices.

`Z80` knows no slices and no prefixes: a repeating instruction is executed again for each
element, as on hardware, and interrupts are accepted between instructions but not after
DI or EI; after HALT time passes until an interrupt is accepted. The emulator does not
keep to the last: HALT uses up the call's cycles and leaves `pc` behind it, so that the
next call goes on without an interrupt. `ImplementsZ80` excepts that one step (`GoesOn`)
and nothing else; hosts that never make it have no exception (`HaltWaitsForInterrupts`).
`ImplementsZ80` maps the middle of an instruction to its beginning (`Before`)
and the middle of a block loop to the processor as if it fetched the instruction again
(`Repeated`). `Z80` takes the processor and what a plain instruction does to it as
constants, and `Z80Emu` instantiates it with those of `Z80Exec`; what the refinement says
is therefore everything around it: order, slices, repetition, prefixes, interrupts, pc,
refresh, cycles. It holds of every program under three conditions on programs and host
(`SlicesAreInvisible`). The effects themselves are checked, where the code
derives them in a roundabout way, by `FlagsAreExact` and `DecimalAdjust`, which are also
proved for all operands.

### TvFrame, Visualizer

A frame is three calls: up to the VBlank signal, while it is held (one instruction at a
time until interrupts are enabled), and the rest; what a frame runs over is taken from
the next. Here `Z80Emulate` is what `SliceLength` of `Z80Emu` shows it to be, a call that
ends less than one instruction late, by any number of cycles; `Longest` counts the EI or DI
that puts off its end together with the instruction behind it. And the emulated program is free to write to the DAC
and to enable and disable interrupts. An interrupt takes 13 cycles, those of mode 1. The lengths are parameters (NTSC 59659 cycles a
frame, PAL 70938).

`Visualizer` adds the DAC: the callback before each YM write renders what has passed
since the last one, at the YM2612's rate, and the end of the frame renders the rest.
The writes may be as close together as the program likes: what the buffer must hold does
not depend on them, and `BufferFits` says it is never more than the samples of a frame.
`log` remembers the DAC's output with its times, so that `StreamIsSampled` can compare
each sample with what the DAC gave out at that very time.

### DpcmConverter, SamplesRom

`DpcmConverter` is a shell that runs the tool again and again on the same files: `pc` goes
from `parse` over `read` to `encode` and `write`, or to `decode`; `tasks` has one entry
per encoder thread, which advance one sample at a time in any order. A file is a record of
what its bytes hold (`raw`, `dq`, `riff` with chunks), not a byte string. A file with the
header of the other kind is taken for one without a header, so its bytes are the data,
header and all; what they may be is the constant `Noise`. Reading therefore gives a set of
streams, the empty set if it fails. Errors that the code compares as square roots of means
are compared exactly, in integers. `heard` keeps what the encoder took for the decoder's
output.

Writing may fail. The file cannot be opened (`OpenFails`), or it has been emptied and not
all of it gets to the disk (`WriteFails`): `CutOff` is what may be left. The exit code is
then 2 if a `write` throws, but 0 if it is the flush that fails, which the destructor of the
stream does and says nothing of. `FailureHarmsOutputOnly` says what a run that fails may
do to the files; that a run that does not fail may leave a bad file is among the
disagreements.

`SamplesRom` puts the files the tool leaves into a ROM, across the end of a bank, and
models `MPCM_LoadSamplesROM` on it: types, headers, rates, addresses to banks and window
offsets, flags, and its failures: a ROM of more than 8 MB, AIFF and NIST files, RIFF files
that are not WAVE, have no `fmt` chunk first or another format, DPCM-HQ of another version,
no pitch. The search for the data chunk is bounded by the ROM and not by the file
(`megapcm-emu.c:143`): what it finds behind a file that has none is the constant `Behind`.
Of the failures only that of a table of more than 127 samples is left out, since the 8-bit
`rom_pos` never gets there without reading its first entries again.

## Runs

| run | question | bounds |
|---|---|---|
| `pcm_samples` | samples inside one bank and over two and three, looping and not, ends at a bank boundary, cut by commands anywhere (but loops over several banks): no overrun, no starvation, reads inside the sample, window right, stream in order, every sample ends | ring of 12, margin 5, bank of 16, pitches 1/4 and 3/4, 4 plays a VBlank |
| `dpcm_samples` | both DPCM loops; odd lengths, one to three banks, looping and not, cut by commands: no overrun, stream in order, every sample that does not loop ends | ring of 12, margin 5, bank of 8, pitches 1/4 and 3/4, 2 plays a VBlank |
| `pcm_short_loop`, `pcm_cut_switch`, `dpcm_half_fetched` | disagreements, see below | as above |
| `driver_control` | stack, routines, priority, refinement of `Playback`; only crowded commands are lost, stops and top-priority samples are obeyed, pauses hold and end when their command is withdrawn; only a pause keeps the 68K waiting | 3 samples and an empty slot, all commands at any instruction, unknown ones too, reloads |
| `driver_lost_command`, `driver_stuck_ready` | disagreements, see below | one sample |
| `ym_port` | the YM2612 shared with the 68K: every write reaches the register it is meant for, a sample that plays finds the DAC on and latched, the idle driver has given FM6 back, each with its exception | none: 68K writes between any two accesses, VBlanks wherever interrupts are enabled |
| `z80_emulator` | refinement of `Z80`, flags, decimal adjust, length of slices, subroutines, every call comes back | 64 bytes of memory, no call after cycle 150 |
| `tv_frames` | frames and sound keep time, the buffer holds at most a frame, samples are those of the DAC, interrupt in its window | 2 frames of 130 cycles, calls up to 13 cycles late |
| `sample_files` | encoder and decoder agree, failures harm the output only, the choice of the table, records point at data | 6 files, 13 command lines, 2 runs of the tool, ROMs of two files with 4 descriptors |

*Bounds of the driver.* The ring is smaller than 256 but large against the margin, and
holds more than a VBlank plays, as in the driver; it wraps several times in each sample. In
the PCM runs a bank holds more than the ring and a sample more than a bank; in the DPCM
runs a bank of 8 bytes is 16 samples, more than the ring. `FrameGap` is the smallest that
lets a buffer refill. Two pitches, both below one byte a play, give every ratio of play to
fetch that matters: the buffer fills at both. The sample flags in `MCDriverControl`
meet every outcome of the comparison: lower, equal, higher, an empty slot. One VBlank
handler, one pause and one command in hand are all the nesting there is, which
`StackDiscipline` states and `driver_control` shows. No bound cuts a behaviour of the
driver except `sinceVBlank`, which saturates.

*Bounds of the emulator.* `MCZ80` runs every opcode behind every prefix once, sums and
differences over ten boundary values with both carries, decimal sums, block instructions
with budgets that cut them after each turn, EI and DI at the end of a slice, HALT,
interrupts of modes 0 and 1 and NMIs, subroutines that return and that do not.
`MaxCycles` (150) is some ten instructions, enough for every program of `MCZ80` to come
to its end or round its loop; `SubroutineCycles` is 200. Left out of the
programs, because the code departs there from what it promises (see below), are mode 2
interrupts and DI or EI behind DD or FD.

*Bounds of the visualizer.* A call is up to 13 cycles late, by every number of them; the
signal (30 cycles) is longer than that, so that it can be taken late, missed and stepped
through; 45 cycles between writes, against 67.2 per sample, put zero, one and two samples
between them; two frames carry the overshoot over.

*Bounds of the converter.* The files hold one to four samples: steps that wrap around, a
chunk before the data, a file cut short, classic DPCM, a file of the other kind, a RIFF file
that does not begin with `fmt`, an AIFF file. Two runs are enough for an encoded file to be
decoded again, and for a run to fail on what another has left. A file that is cut off while
it is written may be empty, have half a header (`Noise`), or its header and no or one
sample (`CutAt`); behind a file without a data chunk the loader finds nothing or one chunk
(`Behind`). The descriptors have each of the four types, with and without a pitch.

*Conditions.* `PcmLoop` names what the driver relies on and does not check:
`RefillInTime` (between two VBlanks 145 iterations of the main loop fit, and the buffer
has the room), `LongLoops` (a looping sample over several banks has at least 292 bytes in
its first bank), `SwitchesApart` (a command does not cut short the switch to a bank in
which a sample starts). They are sufficient; that each is needed in some form is shown by
the runs that violate `StreamInOrder` and `CurrentBankIsLoaded` without it, not that
their numbers are tight. `pcm_samples` satisfies them with commands arriving during
playback of all samples in `Interruptible`: those that do not loop over several banks, since
a command could cut short the switch back to the first. `DpcmLoop` has the same two of its
own, `RefillInTime` and `LongLoops` (two samples a byte, so `VBlankPlays + 3` bytes are
enough), `NoSampleInBank255` for the bank `CurrentBank` names at start, and `Coincidences`.
`YmPort` and `DriverHistory` have none. `LengthFits` of `DpcmConverter` says that a stream
is shorter than the 2^24 bytes its header can tell, which the tool does not check. `Typed`
of `DriverControlProofs` is a condition on the sample table. `Z80Emu` names what `ImplementsZ80` needs of programs and hosts:
`InterruptsKnown` (interrupts of mode 0 or 1, and no prefix put on the bus), `ShadowsPlain`
(no index prefix before DI or EI), `BlocksStay` (a block instruction does not overwrite
itself, nor go round for 65535 turns in one slice, which would be some twenty frames long).
`HaltsInterrupted` is what a host must do for HALT to wait for interrupts: accept one before
it calls again. No Z80 program of the repository has a HALT.
`DecimalOperands` says what DAA is for: that A and F are those of a sum or difference of
decimal numbers. The programs of `MCZ80` satisfy the four: stated as invariants besides,
they hold of every state of `z80_emulator`. The driver satisfies the first three as well: it uses mode 1
(`megapcm.asm:76`), has one `ldir`, which copies a few bytes to 0000h (`init.asm:27`), and
no DI or EI behind a prefix.

*Fairness.* `PcmLoop`, `DpcmLoop`: weak fairness of the Z80's next step, since the CPU
always runs. No VBlank and no 68K write is forced. `DriverControl`: weak fairness of the
Z80 and of `Interrupt` (a VBlank comes each frame; `loop-idle.asm:26` notes that the driver
relies on it); strong fairness of the few places of the main program where the driver has
to get on between two VBlanks (`MainProgram`), because a frame is thousands of
instructions long; weak fairness of the 68K's polls. Nothing forces a sample to end or the
68K to send a command. `Z80Emu`: weak fairness of what a call does, since it runs in the
host's thread; no call is forced. The other runs have no liveness.

## Proofs

All are for every value of the constants that the named assumptions allow (ring, margin,
bank size, plays per VBlank, sample table, commands, programs and calls of the emulator,
frame lengths, files), and are checked by TLAPS to the last leaf.

| theorem of `PcmLoop` | states |
|---|---|
| `TypeCorrect` | `Spec => []TypeOK` (no run repeats it) |
| `NeverOverruns` | `Spec => NoOverrun`: no fetch overwrites a byte still to be played |
| `NeverReadsOutside` | `Spec => []ReadsInsideSample` |
| `StreamInvariance` | the inductive invariant `StreamInv`, under the three conditions |
| `PlaysInOrder` | `Spec => StreamInOrder`, under the three conditions |
| `NeverStarves` | `Spec => []NoStarvation`, likewise |
| `WindowShowsCurrentBank` | `Spec => []CurrentBankIsLoaded`, likewise |

| theorem of `DpcmLoop` | states |
|---|---|
| `Invariance` | the inductive invariant `IInv`, if `EnoughWhenFetching` (no VBlank finds too few samples between `inc c` and `di`) |
| `TypeCorrect` | `Spec => []TypeOK`, likewise |
| `NeverOverruns` | `Spec => NoOverrun`, likewise, for every margin of at least 4 (`DpcmMarginAssumption`, from `megapcm.asm:150`) |
| `StreamInvariance` | the inductive invariant `StreamInv`, under the three conditions and if `NoCoincidence` |
| `PlaysInOrder` | `Spec => StreamInOrder`, likewise: both loops implement `SampleStream` |

| theorem of `DriverControl`, `DriverHistory` | states |
|---|---|
| `ControlInvariance` | the inductive invariant `ControlInv` |
| `ControlTypeCorrect` | `Spec => []TypeOK` |
| `StackNeverLeaks` | `Spec => []StackDiscipline` |
| `RoutineIsRight` | `Spec => []RoutineMatchesLoop` |
| `RefusalIsByPriority` | `Spec => RefusesLowerOnly`, if every playable record has a type or a loop flag (`Typed`) |
| `PlaybackByPriority` | `Spec => PlaysByPriority`: it implements `Playback` |
| `OnlyCrowdedCommandsAreLost` | `SpecH => CommandKept`, whatever the 68K writes and when |
| `PausesHold` | `SpecH => PauseHolds`, likewise |

| theorem of `YmPort` | states |
|---|---|
| `LockInvariance` | the inductive invariant `LockInv`, without any condition |
| `YmLockHolds` | `Spec => []LockIsSound`, likewise |
| `StruckInvariance`, `WritesArrive`, `FM6Returns` | the invariant `StruckInv` besides, `Spec => []WritesReachTheirRegisters` and `Spec => []FM6BackWhenIdle`, likewise |

| theorem of `Z80Emu` | states |
|---|---|
| `EmulatorInvariance` | the inductive invariant `Sound`, for every program and host |
| `RegistersKeepWidths` | `Spec => []TypeOK`: registers and memory keep their widths |
| `SlicesEndInTime` | `Spec => SliceLength`: a call returns when its cycles have passed, and begins nothing after that |
| `FlagsAreTrue` | `Spec => FlagsAreExact`: for all operands and carries, the flags are those of the sum or difference of the numbers |
| `DaaIsDecimal` | `Spec => DecimalAdjust`, for all decimal operands (`[]DecimalOperands`): DAA gives the digits of their decimal sum or difference |
| `SlicesAreInvisible` | `ImplementsZ80`: the emulator implements `Z80` but for `GoesOn`, under `[](InterruptsKnown /\ ShadowsPlain /\ BlocksStay)` |
| `HaltWaitsForInterrupts` | it implements `Z80` without exception, if besides `[]HaltsInterrupted` |

| theorem of `Visualizer` | states |
|---|---|
| `FrameInvariance`, `DacInvariance` | the inductive invariants `FrameInv` and `DacInv` |
| `VisualizerTypes` | `Spec => []TypeOK` |
| `FramesKeepTime` | `Spec => []FrameClock`: the n-th frame ends n frames after the start, plus its own overshoot |
| `NoSliceIsEmpty` | `Spec => SlicesArePositive`: no unsigned subtraction wraps |
| `InterruptsInTime` | `Spec => InterruptInWindow` |
| `DacKeepsTime` | `Spec => []NoDrift` |
| `BuffersAreLargeEnough` | `Spec => []BufferFits`: never more than the samples of a frame |
| `AssertHolds` | for NTSC frames, the ones the program emulates, and instructions of up to 27 cycles, the 1024 samples of the code's buffer are enough |
| `SamplesAreHeard` | `Spec => []StreamIsSampled`: each sample is what the DAC gave out at its time |

| theorem of `DpcmConverter` | states |
|---|---|
| `FailureIsHarmless` | `ConvSpec => FailureHarmsOutputOnly`, without any condition |
| `ConvInvariance` | the inductive invariant `ConvInv`, if `[]LengthFits` |
| `DecodingIsTrue` | `[]DecodesToPredictions`, likewise: what the encoder writes decodes to what it predicted |

*Argument, PCM loop.* `PcmLoopProofs` proves an invariant `IInv` that holds without any condition.
Its core is what the read-ahead check really knows: `Diff(a, e) >= Margin` was tested with
an old position `a`, and since then the handler has only moved `l'` away from the reader;
so between the check and the fetch at least `Margin` slots are free, and a fetch of two
leaves one, with `Margin >= 3`. The rest ties `hl`, `bc` and `currentBank` to the part of
the sample that is left, from which `NeverReadsOutside` follows.

The theorems about the stream strengthen it by `Flow`, with one conjunct for each thing that can go
wrong: `WindowInv` (the window shows the current bank outside a switch), `ContentInv`
(the slots from `l'` to `e` hold the bytes that precede the next fetch), `FillInv` and
`CountInv` (the buffer holds what the handler still has to play; since the last VBlank
each iteration has added at least one byte), `StaleInv` (what `a` may be). `StreamInOrder`
then maps each action to a step of `SampleStream` or a stutter. `StreamInOrder` is a
refinement, so the theorem quantifies over every interleaving of the loop and its handler.

*Argument, DPCM loops.* The full check compares the position before the last play with a
`c` that is one place behind, so it knows one place less than in the PCM loop: after it
`Margin - 1` places are free, and a decode writes two. `RingInv` keeps `Room` against the
places the check has left, over the handler's plays, which only make room. It also has to
keep the handler from playing past `Free`: an interrupt looks at `c` corrected or not, and
between `inc c` and `di` it is the assumption that provides the samples it plays
(`PlaysLeft`). `SourceInv` keeps `de` and `length` on the sample, which the types of the
next bank and of the reload rest on.

Their `Flow` is that of the PCM loop, counted in samples, with one conjunct more,
`DecoderInv`. The decoder has no register for the last sample: it reads it back from the
buffer, one place before the first free one, whether it has been played or not. A drain
empties the buffer and a handler may have caught up with the decoder, so `ContentInv` says
nothing of that place; `DecoderInv` says it holds the sample before the next one to decode,
or the zero level at the sample's start, and that the byte in hand is the one due. `Level`
allows a looping sample that has just started over less than a VBlank's worth of samples:
as many as bytes have been decoded since, which `LongLoops` makes enough by the first
switch (`Filled`).

*Argument, control.* `StackDiscipline` is not inductive: a `ret` goes where the stack says,
so the stack must be known, and what the stack is in `ProcessCommandInput2` depends on
whether a playback handler or the pause's handler called it. `ControlInv` adds to it which loop id goes with
each place (`PlaceInv`), whether interrupts are enabled there (`IffInv`), that the routine
at 38h and its saved copy belong to the loop ids and these to the active sample
(`LoopInv`), and what the request in hand is (`RequestInv`); the nested call from a pause
is told apart by its request being a sample, which is why a pause is never nested.
`PlaybackByPriority` needs of it that a request is accepted over the sample that is
active when it starts, and the lemma `Comparison`, that comparing a priority with a whole
flags byte orders priorities. `OnlyCrowdedCommandsAreLost` and `PausesHold` add how the
mailbox, what was written last and what is in hand go together at the places that write over
the mailbox (`KeepInv`) and during a pause (`HoldInv`); they are proved of every behaviour of `DriverControl`, since
the history variables stop none. `Typed` cannot be dropped: without it the driver does what
the next section says of empty slots; the exceptions of the other two are the lost and the
unknown commands of that section.

*Argument, YM2612.* `Main` is the place of the main program, also under a handler. `LockInv`
says that `DriverReady` is cleared at every place of `Main` between a register's number and
its data (`Busy`), that the 68K writes only while it is set, and what is latched at each
place while the 68K does not write. It needs besides where interrupts are enabled and which
routine they call (`HandlerInv`): a handler that plays runs only over `Playing` and the end
of a sample, so it never meets the panning's register. `StruckInv` adds what register 2Bh
holds and who wrote it at each place of `DisableDAC`, given where the last handler struck:
before 2Bh is latched its plays go to the DAC, and until the last write is made that write
still undoes them.

*Argument, emulator.* `Sound` has three parts. `Shapes` is the type of each variable; that
it is kept needs a lemma per operator of `Z80Alu` and `Z80Exec` (`AddToOK`, `SetWOK`, ...)
that says its result is a byte, a word, a set of flags or a processor, and `Decoding`: the
tables yield only instructions `Z80Exec` has an effect for, in the operand forms it knows,
and a repeating one, `ADC HL, rr` or `SBC HL, rr` was read behind ED. Without the latter a
repetition could start before the cycles its prefix took, and an index prefix could change
the operands of the two sums. `Budgets` says that what is done in a call was begun before
the call's cycles were over, whether it is an instruction or a further turn of a block
instruction; `SliceLength` follows from it.

`FlagsAreTrue` is about the trick the emulator derives its flags with: the bit i of
`a ^ x ^ z` is the carry into bit i of a sum or difference z, that is, whether the parts of
the operands below 2^i overflow (`CarryIntoIs`); and the signed result overflows exactly
when the carries into and out of the top bit differ (`ByteLeaves`, `WordLeaves`). `INC`,
`DEC`, `NEG` and `CP` are reduced to the same sums. The rest of the proof goes from the
operations to the steps: a step that leaves a sum of the register pair or of the
accumulator is of the group that computed it.

`DaaIsDecimal` writes the sum of decimal numbers as 16 h + l, with h and l the sums of the
digits. The flags let both be read off the byte (`DigitsRead`: the code's two comparisons,
`a > 153` and `a % 16 > 9`, are about h and l and not about the byte's digits), and the
correction by 6 and 96 turns the base from 16 to 10 (`CorrectedIs`).

*Argument, slices.* `SlicesAreInvisible` adds to `Sound` what the locals of `emulate()` have
to do with the memory, which `ImplementsZ80` is about (`Seen`). `Fetched`: what has been
decoded is a reading of the instruction at the `pc` it began at, behind the index prefixes
passed so far (`Reads`, `Prefixed`), or of the opcode on the bus; so whatever group executes
it, `Z80` executes the same from `Before`. `Looping`: a block loop runs the instruction of
the ED table its opcode names; before its first turn the locals `bc`, `de` and `hl` are the
register pairs and the cycles of the instruction are not yet counted; and its `int bc` may
have gone below zero, but not further than it has had turns, so that modulo 2^16 it stands
for the pair. `Shadowed`: the host never has control after DI or EI, since the four
cycles they are given are enough for one more opcode. One lemma per group of actions then
says that its step is one of `Z80` or a stutter: opcode and prefix reads and all of the
host's bookkeeping stutter, a turn of a block loop is one `Element` (`CopyImplements`,
`SearchImplements`; the flags a loop computes once, at its end, are those of its last
element), interrupts and NMIs are accepted where `Z80` may accept one. The conditions are
used where the code departs: `InterruptsKnown` where an interrupt is taken, `ShadowsPlain`
in `Shadowed`, `BlocksStay` for the next element of a block to be the same instruction. After
a HALT every step of the host but `GoesOn` is one that `Z80` may make while it waits;
`HaltsInterrupted` excludes `GoesOn`.

*Argument, frames and sound.* `FrameInv` says for each place of the frame how far
`cycles` is from the frame's start, in terms of `emulated`, and what is left of the
budget; `FrameAssumption` (the picture and the rest are longer than an instruction may
run over) makes the subtractions positive. `DacInv` adds that the rendered time is a
multiple of the period and behind the processor by less than a frame and an instruction,
and that what is in the buffer is what has been rendered since the frame began. The
program's writes do not come into it: a frame's samples are as many whether it writes or not.

`LogInv` relates the samples to the log, which only ever grows: each buffered sample is the
output of an entry that was in force when the sample's period ended. A new entry must not
change that afterwards; it cannot, because the callback renders every period that has ended
before it writes. What is left of that is the conjunct that makes the invariant inductive:
the last entry begins before the end of the period that is to be rendered next. So the
next samples are all the last entry's, and the entry that follows begins after them.

*Argument, converter.* `FailInv` says that the files are those of the beginning of the run as
long as it goes on: only the last step of a run writes, and only to its output.
`ConvInv` rests on the relation `Decodes(samples, bytes, table)`: each sample is the wrapped
sum of the one before it and the delta its nibble names. `EncodeInv` says that each thread's
nibbles and predictions are so related, also in the middle of a byte, whose low nibble is
still zero; `WriteInv` that the chosen task's are, at an even length; `HeardInv` that the
file written is related to what `heard` keeps of it, and that its header says its length,
table and rate; `DecodeInv` that what the decoder has put out agrees with it so far. That
`bestDeltaIndex` always finds an index (`BestIsNibble`) is an induction over the 16 of them.
The threads share nothing but the stream, so their order does not matter to any of it.

*Only model-checked:*
- all liveness (`Finishes`, `StopObeyed`, `PlayObeyed`, `UnpauseObeyed`,
  `M68kWaitsForPauseOnly`, `EveryCallReturns`): liveness under fairness is outside TLAPS;
- `SubroutineReturns`, which is about subroutines that return: it holds of the programs the
  run has, not of every program;
- `RecordsPointAtData` of `sample_files`: the size of a list of chunks is a recursive
  operator, which the prover's SMT backend does not take, and what it computes for every
  list is an induction over data;
- `WithinBias` of `sample_files`: the comparison of roots is done in integers by
  `RmseBiased`, exactly for the sizes of the run only, so that the statement for every size
  would be one about real numbers.

## What disagrees with the documentation

Each of these is a run that must find a violation; `PROJECT.json` quotes the statement.

| run | what happens |
|---|---|
| `pcm_short_loop` | a looping sample with a short first part lets VBlank drain the buffer during a bank switch; a stale byte is played and `l'` passes `e` |
| `pcm_cut_switch` | a command that interrupts `SetBank2` leaves `CurrentBank` naming a bank that is not selected |
| `dpcm_half_fetched` | the DPCM loop advances `c` before its `di`; a VBlank in between corrects `c` a second time and, soon after a looping sample has started over, plays past the end of the buffer |
| `driver_lost_command` | a command stored between the driver's read of the mailbox (`process-command.asm:42`) and its reset (line 78) is overwritten, although `docs/API.md:88` says the last one stored is processed |
| `driver_stuck_ready` | a sample ends, VBlank interrupts `DisableDAC` and takes a pause: `DriverReady` stays cleared, and a 68K waiting for it can never unpause |

They need a coincidence of some tens of cycles in a frame, which is why no test of the
repository meets them.

Other departures met while reading the code; the models have them, or leave them out as
said, and no run is made of them.

In the driver:
- A record of type `TYPE_NONE` does not interrupt a sample of the same priority, because
  the whole flags byte is compared (`process-command.asm:71`, `docs/Sample_priorities.md:17`).
- An unknown command during a pause ends it (`loop-pause.asm:81`, `docs/API.md:118`).
- After its drain the DPCM loop enables interrupts with `c` corrected, and the handler
  corrects it again: at the end of a sample, or when it starts over, one stale slot may be
  played. The comment at `loop-dpcm.asm:186-188` warns of correcting twice. `DpcmLoop`
  shows it with `"Drained"` in `Coincidences`.
- A VBlank in `DisableDAC`, after register 2Bh is selected (`play-sample.asm:101`), still
  runs the handler of the loop that ended. Its buffer no longer looks empty: line 97 has
  changed `e`, the read-ahead position of the PCM loops, and the DPCM handler corrects `c`
  once more. It plays stale samples into 2Bh; after the last write (line 103) it may so
  switch the DAC on again, and FM6 is muted until the next sample ends ("Disable DAC / Enable
  FM6", line 101). It is the exception of `FM6BackWhenIdle`.
- `VBlankActive` (`vars.asm:118`, "set if inside VBlank") stays set after a stop, a new
  sample or a pause; nothing in the driver reads it, and a TODO at `process-command.asm:89`
  says the authors know.
- `CurrentBank` is FFh at start and taken on trust, so a sample that started in bank FFh
  would find its bank "already" selected.
- A pitch of 0 is accepted at run time (`68k/commands.asm:95`); the sample then never
  advances.

In the emulator:
- An interrupt of mode 2 ignores its vector (`z80emu.c:194-203`, `z80emu.h:149`).
- Behind DD CB or FD CB the register forms do not move pc over displacement and opcode
  (`z80emu.c:2491`), so these are executed again as instructions.
- DI and EI behind DD or FD have used up the four cycles by which they put off the end of
  a slice, and an interrupt may follow them at once.
- HALT does not wait for an interrupt, although the comment at `z80emu.c:1195` says it does:
  it uses up the cycles of the call and leaves `pc` behind itself, and the next call goes on
  with the instruction there. Its wait is not a whole number of NOPs and refreshes nothing.
  It is the exception `GoesOn` of `ImplementsZ80`; the driver has no HALT.
- A mode 0 interrupt costs 11 cycles, hardware takes 13.

In the tools:
- The rate of a WAV file is read relative to the descriptor table and not to the file
  (`megapcm-emu.c:138`, against its comment two lines above), so a sample without a pitch
  of its own gets that of whatever lies there.
- `rom_pos` has 8 bits (`megapcm-emu.c:67`): more than 25 descriptors are read in a circle.
- The loader trusts the length a WAV header gives, also of a file cut short.
- `MPCM_WaitForInitialization` gives the VM a ROM that is local to a block
  (`megapcm-emu.c:249-252`), and uses it after the block.
- The visualizer's buffer holds 1024 samples, and a PAL frame can give 1056; nothing sets
  the region to PAL, and for NTSC `AssertHolds`.
- A converter that cannot write all of its output (a full disk) may still say "Operation
  complete" and exit with 0: the last part is written when the `ofstream` is destroyed
  (`dpcm-hq-conv.cpp:264`, 384), where errors are not reported. `WriteFails` has both exits.
- The converter accepts the extensible WAV format (FFFEh) but takes every `fmt` chunk to
  be 16 bytes long (`dpcm-hq-conv.cpp:402-414`); it does not pad odd chunks; it writes the
  low 16 bits of the rate and the low 24 of the length; classic DPCM that happens to begin with
  "DQ" is taken for DPCM-HQ.

## Not modelled

- *The buffer of the PCM turbo loop*: it is the PCM loop without a pitch counter; its
  control is in `DriverControl`.
- *The 68K's sample table loader*: `SamplesRom` models its counterpart in C, which has
  its own errors; of the 68K's, `ActiveSample!WellFormed` states what the driver expects.
- *Calibration scores, `WasteCycles`, cycle counts*: interrupts are taken wherever they are
  enabled. A `di` section longer than the interrupt pulse (171 cycles,
  `loop-pcm.asm:50-53`) could miss one; that is arithmetic over instruction timings, not a
  matter of states.
- *Volume tables, the panning's value, DPCM table set-up*: maps on the byte that is sent, a
  choice between two bytes, constants copied with interrupts disabled.
- *In the VM*: the ROM window, aborts on illegal addresses, trace messages. *In the
  visualizer*: keys, plots (and the asserts on what is noted for them,
  `megapcm-viz.c:123` and 136), the set-up of SDL. *In the emulation library*: the commands
  (single writes to the VM's memory).
- *In the sample ROM loader*: tables of 25 descriptors and more, and with them the error for
  more than 127 samples.
- *In the converter*: the log option, the weight k (fixed to its default 0.5), chunks of odd
  size.
- `trace.asm`, the 68K debugger, test programs, examples, build files: not part of the
  system's behaviour. The tests are read as statements of what it should do.

## Plan

Done: `PcmLoop` and `DpcmLoop` with their refinements of `SampleStream`, `DriverControl`
with its refinement of `Playback`, `Z80Emu` with its refinement of `Z80`, `TvFrame` and
`Visualizer`, `DpcmConverter` and `SamplesRom`, `YmPort`; proofs for all of them
but `SamplesRom`.

What could follow, in this order:

1. `PcmTurboLoop`, a third implementation of `SampleStream`.
2. `SampleLoader` of the 68K, with records replaced while their sample plays.
3. Calibration scores and `WasteCycles` as functions checked over bounded inputs.
