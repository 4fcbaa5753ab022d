----------------------------- MODULE Visualizer -----------------------------
(***************************************************************************)
(* The main loop of megapcm-viz.c over TvFrame: it emulates a TV frame,    *)
(* renders the output of the emulated DAC into a buffer at the YM2612's    *)
(* own rate and gives the buffer to the audio stream.  The DAC device      *)
(* renders before every write that changes its output, from a callback     *)
(* that runs before the VM stores the value (z80vm.h, Z80_WriteByte).      *)
(***************************************************************************)
EXTENDS TvFrame, Sequences

CONSTANTS
  Stretches,        \* cycles the program runs between two writes, or to the end of a call
  Values, Pans,     \* values written to the DAC and to the pan register (left, right)
  MaxFrames         \* bound: the host stops after so many frames

ASSUME VisualizerAssumption ==
  Stretches \subseteq Nat /\ Values \subseteq 0 .. 255 /\ Pans \subseteq BOOLEAN \X BOOLEAN

VARIABLES
  loop,        \* where the main loop is: "frame", "render", "give"
  dac,         \* the registers 2Ah (sample), 2Bh (bit 7: enable) and B6h (pan: left, right)
  buffer,      \* the samples rendered and not given away: <<left, right>>
  previous,    \* previous_master_cycle
  committed,   \* (ghost) samples rendered since the start
  log          \* (ghost) the outputs of the DAC and when they began, in master cycles

vizVars == <<loop, dac, buffer, previous, committed, log>>
vars == <<frameVars, vizVars>>

MASTER == 15          \* master cycles per Z80 cycle
PERIOD == 144 * 7     \* master cycles per sample of the YM2612

Silence == 128

\* What the DAC gives out left and right: silence when it is disabled or panned
\* away.
Output(d) ==
  <<IF d.enabled /\ d.left THEN d.sample ELSE Silence,
    IF d.enabled /\ d.right THEN d.sample ELSE Silence>>

Init ==
  /\ FrameInit
  /\ loop = "frame"
  /\ dac = [sample |-> 0, enabled |-> FALSE, left |-> FALSE, right |-> FALSE]
  /\ buffer = <<>>
  /\ previous = 0
  /\ committed = 0
  /\ log = <<[from |-> 0, out |-> <<Silence, Silence>>]>>

samples_to_commit(t) == (MASTER * t - previous) \div PERIOD

\* (mutants) the time of the last sample is not kept; the remainder of the
\* period is lost with every call
RenderAgain(t) ==
  LET n == samples_to_commit(t) IN
  /\ buffer' = buffer \o [i \in 1 .. n |-> Output(dac)]
  /\ committed' = committed + n
  /\ UNCHANGED previous

RenderDrifting(t) ==
  LET n == samples_to_commit(t) IN
  /\ buffer' = buffer \o [i \in 1 .. n |-> Output(dac)]
  /\ committed' = committed + n
  /\ previous' = MASTER * t

\* YM_DAC_RenderOutput at cycle t: nothing is done within a sample period.
YM_DAC_RenderOutput(t) ==
  LET n == samples_to_commit(t) IN
  /\ buffer' = buffer \o [i \in 1 .. n |-> Output(dac)]
  /\ committed' = committed + n
  /\ previous' = IF n = 0 THEN previous ELSE MASTER * t - ((MASTER * t) % PERIOD)

-----------------------------------------------------------------------------
(* Writes of the emulated program, k cycles after the last event.          *)

\* (mutant) the callback runs after the register is stored
WriteThenRender(k, d) ==
  LET n == samples_to_commit(cycles + k) IN
  /\ Run(k)
  /\ buffer' = buffer \o [i \in 1 .. n |-> Output(d)]
  /\ committed' = committed + n
  /\ previous' = previous + PERIOD * n
  /\ dac' = d
  /\ log' = IF Output(d) = Output(dac) THEN log
            ELSE Append(log, [from |-> MASTER * (cycles + k), out |-> Output(d)])
  /\ UNCHANGED loop

\* The callback renders; then the register is stored.  (While the DAC is enabled
\* it also notes the output and the driver's buffer for the plots.)
Write(k, d) ==
  /\ Run(k)
  /\ YM_DAC_RenderOutput(cycles + k)
  /\ dac' = d
  /\ log' = IF Output(d) = Output(dac) THEN log
            ELSE Append(log, [from |-> MASTER * (cycles + k), out |-> Output(d)])
  /\ UNCHANGED loop

WriteSample(k, v) == Write(k, [dac EXCEPT !.sample = v])
WriteEnable(k, e) == Write(k, [dac EXCEPT !.enabled = e])
WritePan(k, pan)  == Write(k, [dac EXCEPT !.left = pan[1], !.right = pan[2]])

\* A step of the frame in which nothing is written.
Quiet == UNCHANGED vizVars

-----------------------------------------------------------------------------
(* The main loop.                                                          *)

StartFrame ==
  /\ loop = "frame" /\ frames < MaxFrames
  /\ BeginFrame
  /\ UNCHANGED vizVars

FinishFrame(k) ==
  /\ EndFrame(k)
  /\ loop' = "render"
  /\ UNCHANGED <<dac, buffer, previous, committed, log>>

Render ==
  /\ loop = "render"
  /\ YM_DAC_RenderOutput(cycles)
  /\ loop' = "give"
  /\ UNCHANGED <<frameVars, dac, log>>

\* The buffer goes to the audio stream and is flushed.
Give ==
  /\ loop = "give"
  /\ buffer' = <<>>
  /\ log' = <<log[Len(log)]>>
  /\ loop' = "frame"
  /\ UNCHANGED <<frameVars, dac, previous, committed>>

Program ==
  \E k \in Stretches :
    \/ \E v \in Values : WriteSample(k, v)
    \/ \E e \in BOOLEAN : WriteEnable(k, e)
    \/ \E pan \in Pans : WritePan(k, pan)

\* By how much a call may run over.
Late == 0 .. (Longest - 1)

Next ==
  \/ StartFrame
  \/ Program
  \/ \E late \in Late :
       \/ EndPicture(budget + late) /\ Quiet
       \/ EndStep(budget + late) /\ Quiet
       \/ FinishFrame(budget + late)
  \/ EnterInterrupt /\ Quiet
  \/ StepSignal /\ Quiet
  \/ MissInterrupt /\ Quiet
  \/ Render
  \/ Give

Spec == Init /\ [][Next]_vars

-----------------------------------------------------------------------------
(* Properties.                                                             *)

TypeOK ==
  /\ FrameTypeOK
  /\ loop \in {"frame", "render", "give"}
  /\ dac \in [sample : 0 .. 255, enabled : BOOLEAN, left : BOOLEAN, right : BOOLEAN]
  /\ buffer \in Seq((0 .. 255) \X (0 .. 255))
  /\ previous \in Nat /\ committed \in Nat

\* The DAC's clock does not drift: previous_master_cycle is always a whole number
\* of sample periods, those of the samples rendered, and never ahead of the
\* processor (the rounding down in megapcm-viz.c:77).
NoDrift == previous = PERIOD * committed /\ previous <= MASTER * cycles

\* Samples that a frame and what it runs over can give: 889 for NTSC and 1056
\* for PAL, of which no program of the repository makes use.
FrameSamples == (MASTER * (FrameCycles + Longest)) \div PERIOD + 1

\* What the buffer holds and the next call of YM_DAC_RenderOutput would add never
\* exceed the samples of one frame, however the writes fall and however late the
\* frames end: the assert of megapcm-viz.c:60 holds of a buffer of that many.
BufferFits == Len(buffer) + samples_to_commit(cycles) <= FrameSamples

\* Sample number j is what the DAC gave out when its period ended, at master
\* cycle j * PERIOD: no write is heard too early, too late or twice.
InForce(m) ==
  LET k == CHOOSE k \in 1 .. Len(log) :
             /\ log[k].from < m
             /\ \A l \in (k + 1) .. Len(log) : log[l].from >= m
  IN  log[k].out

StreamIsSampled ==
  \A i \in 1 .. Len(buffer) : buffer[i] = InForce(PERIOD * (committed - Len(buffer) + i))
=============================================================================
