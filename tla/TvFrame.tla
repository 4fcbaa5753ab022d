------------------------------- MODULE TvFrame -------------------------------
(***************************************************************************)
(* Z80VM_EmulateTVFrame (z80vm.c): one TV frame of the emulated machine.   *)
(* The host's loop calls it once per frame and hands the cycles by which a *)
(* frame has run over to the next one.  A frame is three parts: up to the  *)
(* VBlank signal ("picture"), while the signal is held ("signal", one      *)
(* instruction at a time until the interrupt is taken) and the rest.       *)
(*                                                                         *)
(* Z80Emulate is modelled by what Z80Emu shows of it (SliceLength): a call *)
(* with a budget comes back when the budget has passed, less than one      *)
(* instruction late, or an EI or DI (which raise the budget by 4) and the  *)
(* instruction behind it.  In between the emulated program is free: it     *)
(* writes to the YM2612 and sets iff1 when it wants.                       *)
(*                                                                         *)
(* The lengths are parameters: NTSC has IntStart 51006, SignalLength 172   *)
(* and FrameCycles 59659, PAL 50930, 172 and 70938 (z80vm.c:158-160).      *)
(***************************************************************************)
EXTENDS Integers

CONSTANTS
  FrameCycles,    \* cycles of a TV frame
  IntStart,       \* where in the frame the VBlank signal starts
  SignalLength,   \* how long it is held
  Longest         \* cycles of the longest instruction, with the EI or DI before it

IntCycles == 13   \* accepting an interrupt of mode 1, which the driver selects

ASSUME FrameAssumption ==
  /\ FrameCycles \in Nat /\ IntStart \in Nat /\ SignalLength \in Nat /\ Longest \in Nat
  /\ Longest > IntCycles
  /\ IntStart > Longest
  /\ FrameCycles > IntStart + SignalLength + 2 * Longest

VARIABLES
  at,          \* where the host is: "host", "picture", "signal", "step", "rest"
  cycles,      \* cycles_emulated of the processor
  emulated,    \* cycles_emulated of this frame
  overshoot,   \* prevFrameOvershootCycles
  budget,      \* cycles the running call of Z80Emulate still has to emulate
  iff1,        \* interrupts are enabled
  frames       \* frames finished

frameVars == <<at, cycles, emulated, overshoot, budget, iff1, frames>>

SignalStartUncorrected == IntStart   \* (mutant) forgets the cycles the last frame ran over

int_signal_start_cycles == IntStart - overshoot
int_signal_end_cycles   == int_signal_start_cycles + SignalLength
frame_end_cycles        == FrameCycles - overshoot

FrameInit ==
  /\ at = "host"
  /\ cycles = 0 /\ emulated = 0 /\ overshoot = 0 /\ budget = 0
  /\ iff1 = FALSE
  /\ frames = 0

Emulating == at \in {"picture", "step", "rest"}

-----------------------------------------------------------------------------
(* The emulated program, inside a call of Z80Emulate.                      *)

\* k cycles pass and the call goes on; it may be in its last instruction, which
\* has begun within the budget.  (Interrupts are looked at only when a call has
\* come back, so iff1 is chosen there.)
Run(k) ==
  /\ Emulating /\ budget > 0 /\ k < budget + Longest
  /\ cycles' = cycles + k /\ emulated' = emulated + k /\ budget' = budget - k
  /\ UNCHANGED <<at, overshoot, iff1, frames>>

\* The last instruction of the call ends k cycles from here.
Ends(k) ==
  /\ k >= 0 /\ k >= budget /\ k < budget + Longest
  /\ cycles' = cycles + k /\ emulated' = emulated + k /\ budget' = 0
  /\ iff1' \in BOOLEAN

-----------------------------------------------------------------------------
(* Z80VM_EmulateTVFrame.                                                   *)

BeginFrame ==
  /\ at = "host"
  /\ at' = "picture"
  /\ emulated' = 0
  /\ budget' = int_signal_start_cycles
  /\ UNCHANGED <<cycles, overshoot, iff1, frames>>

ToSignal == at' = "signal" /\ UNCHANGED <<overshoot, frames>>

EndPicture(k) == at = "picture" /\ Ends(k) /\ ToSignal

SignalHeldForEver == at = "signal"   \* (mutant) waits until interrupts are enabled

SignalHeld == at = "signal" /\ emulated <= int_signal_end_cycles

\* Emulate the rest of the frame, s cycles after the frame began.
EmulateRest(s) == at' = "rest" /\ emulated' = s /\ budget' = frame_end_cycles - s

EnterInterrupt ==
  /\ SignalHeld /\ iff1
  /\ iff1' = FALSE
  /\ cycles' = cycles + IntCycles
  /\ EmulateRest(emulated + IntCycles)
  /\ UNCHANGED <<overshoot, frames>>

\* Interrupts are disabled: one more instruction.
StepSignal ==
  /\ SignalHeld /\ ~iff1
  /\ at' = "step"
  /\ budget' = 1
  /\ UNCHANGED <<cycles, emulated, overshoot, iff1, frames>>

EndStep(k) == at = "step" /\ Ends(k) /\ ToSignal

\* "WARNING! Interrupt missed"
MissInterrupt ==
  /\ at = "signal" /\ ~SignalHeld
  /\ EmulateRest(emulated)
  /\ UNCHANGED <<cycles, overshoot, iff1, frames>>

\* (mutant) the overshoot is lost
EndFrameForgets(k) ==
  /\ at = "rest" /\ Ends(k)
  /\ overshoot' = 0
  /\ frames' = frames + 1
  /\ at' = "host"

\* The rest of the frame is over; the host gets the overshoot.
EndFrame(k) ==
  /\ at = "rest" /\ Ends(k)
  /\ overshoot' = emulated + k - frame_end_cycles
  /\ frames' = frames + 1
  /\ at' = "host"

-----------------------------------------------------------------------------
(* Properties.                                                             *)

FrameTypeOK ==
  /\ at \in {"host", "picture", "signal", "step", "rest"}
  /\ cycles \in Nat /\ emulated \in Nat /\ overshoot \in Nat /\ budget \in Int /\ frames \in Nat
  /\ iff1 \in BOOLEAN

\* The frames do not drift: however far each of them runs over, the n-th one
\* ends where n frames end, plus its own overshoot.
FrameClock == at = "host" => cycles = FrameCycles * frames + overshoot

\* Every call of Z80Emulate has something to emulate: the subtractions of
\* size_t in z80vm.c:158, 160 and 191 never wrap.
SlicesArePositive ==
  [][at' # at /\ at' \in {"picture", "step", "rest"} => budget' > 0]_frameVars

\* The interrupt is taken while the signal is held, counted on the clock of the
\* whole run and not on the frame's own counter.
InterruptInWindow ==
  [][at = "signal" /\ at' = "rest" /\ cycles' # cycles =>
       cycles - FrameCycles * frames \in IntStart .. (IntStart + SignalLength)]_frameVars
=============================================================================
