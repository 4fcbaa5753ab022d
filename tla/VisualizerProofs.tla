-------------------------- MODULE VisualizerProofs --------------------------
(***************************************************************************)
(* The clocks of Visualizer, for frames and instructions of any length     *)
(* that the assumptions allow and for writes at any cycle: frames and the  *)
(* DAC do not drift, no slice is empty, and a buffer of one frame is large *)
(* enough.                                                                 *)
(***************************************************************************)
EXTENDS Visualizer, SequenceTheorems, TLAPS

\* Cycles of n frames.
Elapsed(n) == FrameCycles * n

LEMMA ElapsedGrows ==
  ASSUME NEW n \in Nat
  PROVE  Elapsed(n) \in Nat /\ Elapsed(0) = 0 /\ Elapsed(n + 1) = Elapsed(n) + FrameCycles
BY FrameAssumption DEF Elapsed

-----------------------------------------------------------------------------
(* The frame.                                                              *)

Host == IF at = "host" THEN 0 ELSE emulated

\* How far each part of a frame may have got.
FrameInv ==
  /\ FrameTypeOK
  /\ overshoot < Longest /\ budget > -Longest
  /\ cycles = Elapsed(frames) + overshoot + Host
  /\ emulated <= FrameCycles + Longest
  /\ at = "picture" => emulated + budget = IntStart - overshoot
  /\ at = "signal"  => /\ IntStart - overshoot <= emulated
                       /\ emulated <= IntStart + SignalLength - overshoot + Longest
  /\ at = "step"    => /\ IntStart - overshoot <= emulated + budget
                       /\ emulated + budget <= IntStart + SignalLength - overshoot + 1
  /\ at = "rest"    => emulated + budget = FrameCycles - overshoot

USE DEF IntCycles

LEMMA FrameStart == FrameInit => FrameInv
<1> SUFFICES ASSUME FrameInit PROVE FrameInv
  OBVIOUS
<1>1. Elapsed(frames) = 0 /\ Host = 0
  BY ElapsedGrows DEF FrameInit, Host
<1>2. at = "host" /\ cycles = 0 /\ emulated = 0 /\ overshoot = 0 /\ budget = 0 /\ frames = 0
  BY DEF FrameInit
<1>3. FrameTypeOK
  <2>1. iff1 \in BOOLEAN
    BY DEF FrameInit
  <2> QED BY <1>2, <2>1 DEF FrameTypeOK
<1>4. Longest > 0 /\ FrameCycles > 0
  BY FrameAssumption
<1>5. /\ overshoot < Longest /\ budget > -Longest
      /\ cycles = Elapsed(frames) + overshoot + Host
      /\ emulated <= FrameCycles + Longest
  BY <1>1, <1>2, <1>4, FrameAssumption
<1> QED
  BY <1>2, <1>3, <1>5 DEF FrameInv

LEMMA RunKeeps == ASSUME NEW k \in Nat, FrameInv, Run(k) PROVE FrameInv'
<1>1. /\ cycles' = cycles + k /\ emulated' = emulated + k /\ budget' = budget - k
      /\ UNCHANGED <<at, overshoot, iff1, frames>> /\ at \in {"picture", "step", "rest"}
      /\ k < budget + Longest
  BY DEF Run, Emulating
<1>2. /\ cycles \in Nat /\ emulated \in Nat /\ overshoot \in Nat /\ budget \in Int /\ frames \in Nat
      /\ overshoot < Longest /\ budget > -Longest /\ cycles = Elapsed(frames) + overshoot + emulated
      /\ iff1 \in BOOLEAN
  BY <1>1 DEF FrameInv, FrameTypeOK, Host
<1>3. FrameTypeOK'
  BY <1>1, <1>2 DEF FrameTypeOK
<1>4. Elapsed(frames)' = Elapsed(frames) /\ Elapsed(frames) \in Nat
  BY <1>1, <1>2, ElapsedGrows DEF Elapsed
<1>5. Host' = emulated'
  BY <1>1 DEF Host
<1>6. emulated' <= FrameCycles + Longest
  BY <1>1, <1>2, FrameAssumption DEF FrameInv
<1> QED
  BY <1>1, <1>2, <1>3, <1>4, <1>5, <1>6, FrameAssumption DEF FrameInv

\* The call that ends finds a state to go on from; what it leaves is said by the
\* parts of the frame.
LEMMA EndsWhere ==
  ASSUME NEW k \in Int, FrameInv, at # "host", Ends(k)
  PROVE  /\ k \in Nat
         /\ cycles' = cycles + k /\ emulated' = emulated + k /\ budget' = 0 /\ iff1' \in BOOLEAN
         /\ k - budget \in 0 .. (Longest - 1)
         /\ cycles = Elapsed(frames) + overshoot + emulated
         /\ cycles \in Nat /\ emulated \in Nat /\ overshoot \in Nat /\ budget \in Int /\ frames \in Nat
         /\ Elapsed(frames) \in Nat /\ overshoot < Longest
BY ElapsedGrows, FrameAssumption DEF FrameInv, FrameTypeOK, Host, Ends

LEMMA EndPictureKeeps == ASSUME NEW k \in Int, FrameInv, EndPicture(k) PROVE FrameInv'
<1>1. at = "picture" /\ Ends(k) /\ at' = "signal" /\ UNCHANGED <<overshoot, frames>>
  BY DEF EndPicture, ToSignal
<1>2. emulated + budget = IntStart - overshoot
  BY <1>1 DEF FrameInv
<1>3. Elapsed(frames)' = Elapsed(frames) /\ Host' = emulated'
  BY <1>1 DEF Elapsed, Host
<1> QED
  BY <1>1, <1>2, <1>3, EndsWhere, FrameAssumption DEF FrameInv, FrameTypeOK

LEMMA EndStepKeeps == ASSUME NEW k \in Int, FrameInv, EndStep(k) PROVE FrameInv'
<1>1. at = "step" /\ Ends(k) /\ at' = "signal" /\ UNCHANGED <<overshoot, frames>>
  BY DEF EndStep, ToSignal
<1>2. /\ IntStart - overshoot <= emulated + budget
      /\ emulated + budget <= IntStart + SignalLength - overshoot + 1
  BY <1>1 DEF FrameInv
<1>3. Elapsed(frames)' = Elapsed(frames) /\ Host' = emulated'
  BY <1>1 DEF Elapsed, Host
<1> QED
  BY <1>1, <1>2, <1>3, EndsWhere, FrameAssumption DEF FrameInv, FrameTypeOK

LEMMA EndFrameKeeps == ASSUME NEW k \in Int, FrameInv, EndFrame(k) PROVE FrameInv'
<1>1. at = "rest" /\ Ends(k) /\ at' = "host" /\ frames' = frames + 1
      /\ overshoot' = emulated + k - (FrameCycles - overshoot)
  BY DEF EndFrame, frame_end_cycles
<1>2. emulated + budget = FrameCycles - overshoot
  BY <1>1 DEF FrameInv
<1>3. overshoot' = k - budget
  BY <1>1, <1>2, EndsWhere, FrameAssumption
<1>4. Elapsed(frames)' = Elapsed(frames) + FrameCycles /\ Host' = 0
  BY <1>1, EndsWhere, ElapsedGrows DEF Elapsed, Host
<1> QED
  BY <1>1, <1>2, <1>3, <1>4, EndsWhere, FrameAssumption DEF FrameInv, FrameTypeOK
LEMMA BeginFrameKeeps == ASSUME FrameInv, BeginFrame PROVE FrameInv'
<1>1. /\ at = "host" /\ at' = "picture" /\ emulated' = 0 /\ budget' = IntStart - overshoot
      /\ UNCHANGED <<cycles, overshoot, iff1, frames>>
  BY DEF BeginFrame, int_signal_start_cycles
<1>2. Elapsed(frames)' = Elapsed(frames) /\ Host = 0 /\ Host' = 0
  BY <1>1 DEF Elapsed, Host
<1> QED
  BY <1>1, <1>2, ElapsedGrows, FrameAssumption DEF FrameInv, FrameTypeOK

LEMMA StepSignalKeeps == ASSUME FrameInv, StepSignal PROVE FrameInv'
<1>1. /\ at = "signal" /\ at' = "step" /\ budget' = 1 /\ emulated <= IntStart - overshoot + SignalLength
      /\ UNCHANGED <<cycles, emulated, overshoot, iff1, frames>>
  BY DEF StepSignal, SignalHeld, int_signal_end_cycles, int_signal_start_cycles
<1>2. Elapsed(frames)' = Elapsed(frames) /\ Host = emulated /\ Host' = emulated
  BY <1>1 DEF Elapsed, Host
<1> QED
  BY <1>1, <1>2, ElapsedGrows, FrameAssumption DEF FrameInv, FrameTypeOK

LEMMA EnterInterruptKeeps ==
  ASSUME FrameInv, EnterInterrupt
  PROVE  FrameInv' /\ budget' > 0
<1>1. /\ at = "signal" /\ at' = "rest" /\ emulated <= IntStart - overshoot + SignalLength
      /\ iff1' = FALSE /\ cycles' = cycles + 13 /\ emulated' = emulated + 13
      /\ budget' = FrameCycles - overshoot - (emulated + 13)
      /\ UNCHANGED <<overshoot, frames>>
  BY DEF EnterInterrupt, SignalHeld, EmulateRest, int_signal_end_cycles, int_signal_start_cycles,
         frame_end_cycles
<1>2. Elapsed(frames)' = Elapsed(frames) /\ Host = emulated /\ Host' = emulated'
  BY <1>1 DEF Elapsed, Host
<1>3. /\ cycles \in Nat /\ emulated \in Nat /\ overshoot \in Nat /\ frames \in Nat /\ overshoot < Longest
      /\ cycles = Elapsed(frames) + overshoot + emulated /\ Elapsed(frames) \in Nat
  BY <1>1, <1>2, ElapsedGrows DEF FrameInv, FrameTypeOK
<1>4. FrameTypeOK'
  <2>1. iff1' \in BOOLEAN
    BY <1>1
  <2> QED BY <1>1, <1>3, <2>1, FrameAssumption DEF FrameTypeOK
<1>5. budget' > 0 /\ emulated' <= FrameCycles + Longest
  BY <1>1, <1>3, FrameAssumption
<1> QED
  BY <1>1, <1>2, <1>3, <1>4, <1>5, FrameAssumption DEF FrameInv

LEMMA MissInterruptKeeps ==
  ASSUME FrameInv, MissInterrupt
  PROVE  FrameInv' /\ budget' > 0
<1>1. /\ at = "signal" /\ at' = "rest" /\ emulated' = emulated
      /\ budget' = FrameCycles - overshoot - emulated
      /\ UNCHANGED <<cycles, overshoot, iff1, frames>>
  BY DEF MissInterrupt, EmulateRest, frame_end_cycles
<1>2. Elapsed(frames)' = Elapsed(frames) /\ Host = emulated /\ Host' = emulated'
  BY <1>1 DEF Elapsed, Host
<1> QED
  BY <1>1, <1>2, ElapsedGrows, FrameAssumption DEF FrameInv, FrameTypeOK

LEMMA FrameUnchanged == ASSUME FrameInv, UNCHANGED frameVars PROVE FrameInv'
BY DEF FrameInv, FrameTypeOK, frameVars, Elapsed, Host

\* What a step does to the frame.
LEMMA FrameActions ==
  ASSUME [Next]_vars, FrameInv
  PROVE  \/ BeginFrame \/ EnterInterrupt \/ StepSignal \/ MissInterrupt
         \/ \E k \in Nat : Run(k)
         \/ \E k \in Int : EndPicture(k) \/ EndStep(k) \/ EndFrame(k)
         \/ UNCHANGED frameVars
<1>1. CASE Program
  <2>1. PICK k \in Stretches : Run(k)
    BY <1>1 DEF Program, WriteSample, WriteEnable, WritePan, Write
  <2> QED BY <2>1, VisualizerAssumption
<1>2. ASSUME NEW late \in Late,
             \/ EndPicture(budget + late) \/ EndStep(budget + late) \/ FinishFrame(budget + late)
      PROVE  \E k \in Int : EndPicture(k) \/ EndStep(k) \/ EndFrame(k)
  <2>1. budget + late \in Int
    BY FrameAssumption DEF Late, FrameInv, FrameTypeOK
  <2> QED BY <1>2, <2>1 DEF FinishFrame
<1> QED
  BY <1>1, <1>2 DEF Next, StartFrame, Render, Give, vars

LEMMA FrameStep == ASSUME [Next]_vars, FrameInv PROVE FrameInv'
BY FrameActions, RunKeeps, EndPictureKeeps, EndStepKeeps, EndFrameKeeps, BeginFrameKeeps,
   StepSignalKeeps, EnterInterruptKeeps, MissInterruptKeeps, FrameUnchanged

\* The frame keeps its clock for ever.
THEOREM FrameInvariance == Spec => []FrameInv
<1>1. Init => FrameInv
  BY FrameStart DEF Init
<1> QED
  BY <1>1, FrameStep, PTL DEF Spec

\* Frames do not drift (z80vm.c:158-194): the cycles a frame runs over are taken off
\* the next, however long instructions are and wherever interrupts fall.
THEOREM FramesKeepTime == Spec => []FrameClock
<1>1. ASSUME FrameInv, at = "host" PROVE cycles = FrameCycles * frames + overshoot
  <2>1. cycles = Elapsed(frames) + overshoot
    BY <1>1, ElapsedGrows DEF FrameInv, FrameTypeOK, Host
  <2> QED BY <2>1 DEF Elapsed
<1>2. FrameInv => FrameClock
  BY <1>1 DEF FrameClock
<1> QED
  BY <1>2, FrameInvariance, PTL

LEMMA PositiveStep ==
  ASSUME [Next]_vars, FrameInv
  PROVE  at' # at /\ at' \in {"picture", "step", "rest"} => budget' > 0
<1>1. CASE BeginFrame
  BY <1>1, FrameAssumption DEF BeginFrame, int_signal_start_cycles, FrameInv, FrameTypeOK
<1>2. CASE StepSignal
  BY <1>2 DEF StepSignal
<1>3. CASE EnterInterrupt \/ MissInterrupt
  BY <1>3, EnterInterruptKeeps, MissInterruptKeeps
<1>4. CASE \E k \in Nat : Run(k)
  BY <1>4 DEF Run
<1>5. CASE \E k \in Int : EndPicture(k) \/ EndStep(k) \/ EndFrame(k)
  BY <1>5 DEF EndPicture, EndStep, EndFrame, ToSignal
<1>6. CASE UNCHANGED frameVars
  BY <1>6 DEF frameVars
<1> QED
  BY <1>1, <1>2, <1>3, <1>4, <1>5, <1>6, FrameActions

\* Every call of Z80Emulate has a positive budget: none of the three subtractions
\* of size_t wraps around.
THEOREM NoSliceIsEmpty == Spec => SlicesArePositive
<1>1. FrameInv /\ [Next]_vars =>
        [at' # at /\ at' \in {"picture", "step", "rest"} => budget' > 0]_frameVars
  BY PositiveStep
<1> QED
  BY <1>1, FrameInvariance, PTL DEF Spec, SlicesArePositive

LEMMA WindowStep ==
  ASSUME [Next]_vars, FrameInv, at = "signal", at' = "rest", cycles' # cycles
  PROVE  cycles - FrameCycles * frames \in IntStart .. (IntStart + SignalLength)
<1>1. EnterInterrupt
  <2>1. ~MissInterrupt /\ ~UNCHANGED frameVars
    BY DEF MissInterrupt, frameVars
  <2>2. /\ ~BeginFrame /\ ~StepSignal
        /\ \A k : ~Run(k) /\ ~EndPicture(k) /\ ~EndStep(k) /\ ~EndFrame(k)
    BY DEF BeginFrame, StepSignal, Run, EndPicture, EndStep, EndFrame, Emulating, ToSignal
  <2> QED BY <2>1, <2>2, FrameActions
<1>2. /\ emulated <= IntStart - overshoot + SignalLength /\ IntStart - overshoot <= emulated
      /\ cycles = Elapsed(frames) + overshoot + emulated
  BY <1>1 DEF EnterInterrupt, SignalHeld, int_signal_end_cycles, int_signal_start_cycles, FrameInv, Host
<1>3. cycles - Elapsed(frames) \in IntStart .. (IntStart + SignalLength)
  BY <1>2, ElapsedGrows, FrameAssumption DEF FrameInv, FrameTypeOK
<1> QED
  BY <1>3 DEF Elapsed

\* The interrupt is accepted only while the VDP holds its line, by the clock of the
\* whole run.
THEOREM InterruptsInTime == Spec => InterruptInWindow
<1>1. FrameInv /\ [Next]_vars =>
        [at = "signal" /\ at' = "rest" /\ cycles' # cycles =>
           cycles - FrameCycles * frames \in IntStart .. (IntStart + SignalLength)]_frameVars
  BY WindowStep
<1> QED
  BY <1>1, FrameInvariance, PTL DEF Spec, InterruptInWindow

-----------------------------------------------------------------------------
(* The DAC: samples rendered and the buffers they go to.                   *)

Bytes == (0 .. 255) \X (0 .. 255)

VizTypeOK ==
  /\ loop \in {"frame", "render", "give"}
  /\ dac \in [sample : 0 .. 255, enabled : BOOLEAN, left : BOOLEAN, right : BOOLEAN]
  /\ buffer \in Seq(Bytes)
  /\ previous \in Nat /\ committed \in Nat

\* The frame that is being heard: the last one until its samples are given away.
Frame == IF loop = "frame" THEN frames ELSE frames - 1

\* The main loop renders and gives away between two frames only; samples before
\* the frame have left the buffer.
DacInv ==
  /\ VizTypeOK
  /\ loop # "frame" => at = "host" /\ frames > 0
  /\ NoDrift
  /\ Len(buffer) <= committed
  /\ PERIOD * (committed - Len(buffer)) > MASTER * Elapsed(Frame) - PERIOD
  /\ loop = "give" => MASTER * cycles - previous < PERIOD

USE DEF MASTER, PERIOD

LEMMA OutputIsBytes ==
  ASSUME NEW d \in [sample : 0 .. 255, enabled : BOOLEAN, left : BOOLEAN, right : BOOLEAN]
  PROVE  Output(d) \in Bytes
<1>1. d.sample \in 0 .. 255 /\ Silence \in 0 .. 255
  BY DEF Silence
<1> QED
  BY <1>1 DEF Output, Bytes

\* Rendering brings the DAC up to the last whole period before t.
LEMMA Renders ==
  ASSUME VizTypeOK, NoDrift, NEW t \in Nat, cycles \in Nat, t >= cycles, YM_DAC_RenderOutput(t)
  PROVE  /\ buffer' \in Seq(Bytes) /\ committed' \in Nat /\ previous' \in Nat
         /\ previous' = PERIOD * committed'
         /\ previous' <= MASTER * t
         /\ MASTER * t - previous' < PERIOD /\ MASTER * t < previous' + PERIOD
         /\ previous <= previous'
         /\ committed' - Len(buffer') = committed - Len(buffer)
         /\ Len(buffer') - Len(buffer) \in Nat
<1> DEFINE n == samples_to_commit(t)
           new == [i \in 1 .. n |-> Output(dac)]
<1>1. previous = 1008 * committed /\ committed \in Nat /\ previous <= 15 * t /\ buffer \in Seq(Bytes)
  BY DEF VizTypeOK, NoDrift
<1>2. n = (15 * t - previous) \div 1008
  BY DEF samples_to_commit
<1>3. /\ n \in Nat /\ 1008 * n <= 15 * t - previous /\ 15 * t - previous < 1008 * n + 1008
  BY <1>1, <1>2
<1>4. /\ buffer' = buffer \o new /\ committed' = committed + n
      /\ previous' = IF n = 0 THEN previous ELSE 15 * t - ((15 * t) % 1008)
  BY DEF YM_DAC_RenderOutput
<1>5. 15 * t - ((15 * t) % 1008) = 1008 * (committed + n)
  BY <1>1, <1>3
<1>6. new \in Seq(Bytes) /\ Len(new) = n
  BY <1>3, OutputIsBytes DEF VizTypeOK
<1> HIDE DEF n, new
<1>7. buffer' \in Seq(Bytes) /\ Len(buffer') = Len(buffer) + n /\ Len(buffer) \in Nat
  <2>1. buffer \o new \in Seq(Bytes) /\ Len(buffer \o new) = Len(buffer) + Len(new)
    BY <1>1, <1>6, ConcatProperties
  <2>2. Len(buffer) \in Nat
    BY <1>1, LenProperties
  <2> QED BY <1>4, <1>6, <2>1, <2>2
<1>8. previous' = 1008 * committed'
  <2>1. CASE n = 0
    BY <1>1, <1>4, <2>1
  <2>2. CASE n # 0
    <3>1. previous' = 15 * t - ((15 * t) % 1008)
      BY <1>4, <2>2
    <3> QED BY <1>4, <1>5, <3>1
  <2> QED BY <2>1, <2>2
<1>9. previous' = previous + 1008 * n
  BY <1>1, <1>3, <1>4, <1>8
<1>10. previous <= previous' /\ 15 * t < previous' + 1008
  BY <1>1, <1>3, <1>9
<1> QED
  BY <1>1, <1>3, <1>4, <1>7, <1>8, <1>10

LEMMA DacStart == ASSUME Init PROVE DacInv
<1>1. /\ loop = "frame" /\ previous = 0 /\ committed = 0 /\ buffer = <<>>
      /\ frames = 0 /\ cycles = 0
      /\ dac = [sample |-> 0, enabled |-> FALSE, left |-> FALSE, right |-> FALSE]
  BY DEF Init, FrameInit
<1>2. VizTypeOK
  <2>1. dac \in [sample : 0 .. 255, enabled : BOOLEAN, left : BOOLEAN, right : BOOLEAN]
    BY <1>1
  <2>2. buffer \in Seq(Bytes)
    BY <1>1
  <2> QED BY <1>1, <2>1, <2>2 DEF VizTypeOK
<1>3. Elapsed(Frame) = 0 /\ Len(buffer) = 0
  BY <1>1, ElapsedGrows DEF Frame
<1> QED
  BY <1>1, <1>2, <1>3 DEF DacInv, NoDrift

LEMMA WriteKeeps ==
  ASSUME FrameInv, DacInv, NEW k \in Nat, Write(k, dac'),
         dac' \in [sample : 0 .. 255, enabled : BOOLEAN, left : BOOLEAN, right : BOOLEAN]
  PROVE  DacInv'
<1>1. /\ at # "host" /\ at' = at /\ frames' = frames /\ loop' = loop
      /\ cycles' = cycles + k /\ emulated' = emulated + k
      /\ YM_DAC_RenderOutput(cycles + k)
  BY DEF Write, Run, Emulating
<1>2. /\ cycles \in Nat /\ emulated \in Nat /\ VizTypeOK /\ NoDrift /\ loop = "frame"
      /\ Len(buffer) <= committed
      /\ PERIOD * (committed - Len(buffer)) > MASTER * Elapsed(Frame) - PERIOD
  BY <1>1 DEF FrameInv, FrameTypeOK, DacInv
<1>3. /\ buffer' \in Seq(Bytes) /\ committed' \in Nat /\ previous' \in Nat
      /\ previous' = PERIOD * committed'
      /\ previous' <= MASTER * (cycles + k)
      /\ committed' - Len(buffer') = committed - Len(buffer)
  BY <1>1, <1>2, Renders
<1>5. VizTypeOK'
  <2>1. loop' \in {"frame", "render", "give"}
    BY <1>1, <1>2
  <2> QED BY <1>3, <2>1 DEF VizTypeOK
<1>7. NoDrift'
  BY <1>1, <1>3 DEF NoDrift
<1>8. Elapsed(Frame)' = Elapsed(Frame)
  BY <1>1 DEF Elapsed, Frame
<1>9. Len(buffer') \in Nat /\ Len(buffer) \in Nat /\ committed \in Nat
  BY <1>2, <1>3, LenProperties DEF VizTypeOK
<1>10. Len(buffer') <= committed' /\ PERIOD * (committed' - Len(buffer')) > MASTER * Elapsed(Frame) - PERIOD
  BY <1>2, <1>3, <1>9
<1> QED
  BY <1>1, <1>2, <1>5, <1>7, <1>8, <1>10 DEF DacInv

\* Steps of the frame that write nothing.
LEMMA QuietKeeps ==
  ASSUME FrameInv, DacInv, NEW k \in Nat, Quiet, at # "host", frames' = frames,
         cycles' = cycles + k
  PROVE  DacInv'
<1>1. UNCHANGED <<loop, dac, buffer, previous, committed>>
  BY DEF Quiet, vizVars
<1>2. VizTypeOK /\ NoDrift /\ loop = "frame" /\ cycles \in Nat /\ previous \in Nat
  BY DEF DacInv, VizTypeOK, FrameInv, FrameTypeOK
<1>3. VizTypeOK'
  BY <1>1, <1>2 DEF VizTypeOK
<1>4. NoDrift'
  BY <1>1, <1>2 DEF NoDrift
<1>5. Elapsed(Frame)' = Elapsed(Frame)
  BY <1>1 DEF Elapsed, Frame
<1> QED
  BY <1>1, <1>2, <1>3, <1>4, <1>5 DEF DacInv

\* The steps of the main loop.
LEMMA StartKeeps == ASSUME FrameInv, DacInv, StartFrame PROVE DacInv'
<1>1. /\ at = "host" /\ loop = "frame" /\ at' = "picture" /\ emulated' = 0
      /\ UNCHANGED <<cycles, frames, loop, dac, buffer, previous, committed>>
  BY DEF StartFrame, BeginFrame, vizVars
<1>2. VizTypeOK'
  BY <1>1 DEF DacInv, VizTypeOK
<1>3. Elapsed(Frame)' = Elapsed(Frame) /\ NoDrift'
  BY <1>1 DEF Elapsed, Frame, DacInv, NoDrift
<1> QED
  BY <1>1, <1>2, <1>3 DEF DacInv

LEMMA FinishKeeps ==
  ASSUME FrameInv, DacInv, NEW k \in Int, FinishFrame(k)
  PROVE  DacInv'
<1>1. /\ at = "rest" /\ EndFrame(k) /\ Ends(k) /\ at' = "host" /\ frames' = frames + 1
      /\ loop' = "render" /\ UNCHANGED <<dac, buffer, previous, committed>>
  BY DEF FinishFrame, EndFrame
<1>2. k \in Nat /\ cycles' = cycles + k /\ emulated' = emulated + k /\ frames \in Nat
      /\ cycles \in Nat /\ emulated \in Nat
  BY <1>1, EndsWhere
<1>3. VizTypeOK /\ NoDrift /\ loop = "frame" /\ previous \in Nat
  BY <1>1 DEF DacInv, VizTypeOK
<1>4. VizTypeOK' /\ NoDrift'
  BY <1>1, <1>2, <1>3 DEF VizTypeOK, NoDrift
<1>5. Frame' = Frame /\ frames' > 0
  BY <1>1, <1>2, <1>3 DEF Frame
<1>6. Elapsed(Frame)' = Elapsed(Frame)
  BY <1>5 DEF Elapsed
<1> QED
  BY <1>1, <1>3, <1>4, <1>5, <1>6 DEF DacInv

LEMMA RenderKeeps == ASSUME FrameInv, DacInv, Render PROVE DacInv'
<1>1. /\ loop = "render" /\ loop' = "give" /\ YM_DAC_RenderOutput(cycles)
      /\ UNCHANGED <<at, cycles, emulated, frames, dac>>
  BY DEF Render, frameVars
<1>2. /\ VizTypeOK /\ NoDrift /\ cycles \in Nat /\ Len(buffer) <= committed
      /\ at = "host" /\ frames > 0
      /\ PERIOD * (committed - Len(buffer)) > MASTER * Elapsed(Frame) - PERIOD
  BY <1>1 DEF DacInv, FrameInv, FrameTypeOK
<1>3. /\ buffer' \in Seq(Bytes) /\ committed' \in Nat /\ previous' \in Nat
      /\ previous' = PERIOD * committed'
      /\ previous' <= MASTER * cycles
      /\ MASTER * cycles - previous' < PERIOD
      /\ committed' - Len(buffer') = committed - Len(buffer)
  BY <1>2, <1>1, Renders
<1>4. VizTypeOK'
  BY <1>1, <1>2, <1>3 DEF VizTypeOK
<1>5. NoDrift'
  BY <1>1, <1>3 DEF NoDrift
<1>6. Elapsed(Frame)' = Elapsed(Frame)
  BY <1>1 DEF Elapsed, Frame
<1>7. Len(buffer') \in Nat /\ Len(buffer) \in Nat /\ committed \in Nat
  BY <1>2, <1>3, LenProperties DEF VizTypeOK
<1>8. Len(buffer') <= committed'
  BY <1>2, <1>3, <1>7
<1> QED
  BY <1>1, <1>2, <1>3, <1>4, <1>5, <1>6, <1>7, <1>8 DEF DacInv

LEMMA GiveKeeps == ASSUME FrameInv, DacInv, Give PROVE DacInv'
<1>1. /\ loop = "give" /\ loop' = "frame" /\ buffer' = <<>>
      /\ UNCHANGED <<at, cycles, emulated, overshoot, frames, dac, previous, committed>>
  BY DEF Give, frameVars
<1>2. /\ VizTypeOK /\ NoDrift /\ MASTER * cycles - previous < PERIOD /\ at = "host"
      /\ cycles = Elapsed(frames) + overshoot /\ Elapsed(frames) \in Nat /\ overshoot \in Nat
  <2>1. /\ VizTypeOK /\ NoDrift /\ MASTER * cycles - previous < PERIOD /\ at = "host"
    BY <1>1 DEF DacInv
  <2>2. Elapsed(frames) \in Nat /\ overshoot \in Nat /\ cycles = Elapsed(frames) + overshoot + 0
    BY <2>1, ElapsedGrows DEF FrameInv, FrameTypeOK, Host
  <2> QED BY <2>1, <2>2
<1>3. VizTypeOK' /\ NoDrift'
  <2>1. buffer' \in Seq(Bytes)
    BY <1>1
  <2> QED BY <1>1, <1>2, <2>1 DEF VizTypeOK, NoDrift
<1>4. /\ Elapsed(Frame)' = Elapsed(frames) /\ Len(buffer') = 0
  BY <1>1 DEF Elapsed, Frame
<1>5. committed \in Nat /\ previous = PERIOD * committed
  BY <1>2 DEF VizTypeOK, NoDrift
<1>6. PERIOD * (committed' - Len(buffer')) > MASTER * Elapsed(frames) - PERIOD
  BY <1>1, <1>2, <1>4, <1>5
<1> QED
  BY <1>1, <1>2, <1>3, <1>4, <1>5, <1>6 DEF DacInv

LEMMA DacUnchanged == ASSUME DacInv, UNCHANGED vars PROVE DacInv'
BY DEF DacInv, VizTypeOK, NoDrift, Frame, Elapsed, vars, vizVars, frameVars

LEMMA ProgramKeeps == ASSUME FrameInv, DacInv, Program PROVE DacInv'
<1>1. PICK k \in Stretches :
        \/ \E v \in Values : WriteSample(k, v)
        \/ \E e \in BOOLEAN : WriteEnable(k, e)
        \/ \E pan \in Pans : WritePan(k, pan)
  BY DEF Program
<1>2. k \in Nat /\ dac \in [sample : 0 .. 255, enabled : BOOLEAN, left : BOOLEAN, right : BOOLEAN]
  BY VisualizerAssumption DEF DacInv, VizTypeOK
<1>3. CASE \E v \in Values : WriteSample(k, v)
  <2>1. PICK v \in Values : Write(k, [dac EXCEPT !.sample = v])
    BY <1>3 DEF WriteSample
  <2>2. v \in 0 .. 255
    BY VisualizerAssumption
  <2>3. /\ dac' = [dac EXCEPT !.sample = v]
        /\ dac' \in [sample : 0 .. 255, enabled : BOOLEAN, left : BOOLEAN, right : BOOLEAN]
    BY <1>2, <2>1, <2>2 DEF Write
  <2> QED BY <1>2, <2>1, <2>3, WriteKeeps
<1>4. CASE \E e \in BOOLEAN : WriteEnable(k, e)
  <2>1. PICK e \in BOOLEAN : Write(k, [dac EXCEPT !.enabled = e])
    BY <1>4 DEF WriteEnable
  <2>2. /\ dac' = [dac EXCEPT !.enabled = e]
        /\ dac' \in [sample : 0 .. 255, enabled : BOOLEAN, left : BOOLEAN, right : BOOLEAN]
    BY <1>2, <2>1 DEF Write
  <2> QED BY <1>2, <2>1, <2>2, WriteKeeps
<1>5. CASE \E pan \in Pans : WritePan(k, pan)
  <2>1. PICK pan \in Pans : Write(k, [dac EXCEPT !.left = pan[1], !.right = pan[2]])
    BY <1>5 DEF WritePan
  <2>2. pan[1] \in BOOLEAN /\ pan[2] \in BOOLEAN
    BY VisualizerAssumption
  <2>3. /\ dac' = [dac EXCEPT !.left = pan[1], !.right = pan[2]]
        /\ dac' \in [sample : 0 .. 255, enabled : BOOLEAN, left : BOOLEAN, right : BOOLEAN]
    BY <1>2, <2>1, <2>2 DEF Write
  <2> QED BY <1>2, <2>1, <2>3, WriteKeeps
<1> QED
  BY <1>1, <1>3, <1>4, <1>5

LEMMA DacStep == ASSUME FrameInv, DacInv, [Next]_vars PROVE DacInv'
<1>1. ASSUME NEW late \in Late,
             \/ EndPicture(budget + late) /\ Quiet
             \/ EndStep(budget + late) /\ Quiet
      PROVE  DacInv'
  <2> DEFINE k == budget + late
  <2>1. k \in Int
    BY FrameAssumption DEF Late, FrameInv, FrameTypeOK
  <2>2. at # "host" /\ Ends(k) /\ frames' = frames /\ Quiet
    BY <1>1 DEF EndPicture, EndStep, ToSignal
  <2>3. k \in Nat /\ cycles' = cycles + k
    BY <2>1, <2>2, EndsWhere
  <2> HIDE DEF k
  <2> QED BY <2>2, <2>3, QuietKeeps
<1>2. ASSUME NEW late \in Late, FinishFrame(budget + late)
      PROVE  DacInv'
  <2>1. budget + late \in Int
    BY FrameAssumption DEF Late, FrameInv, FrameTypeOK
  <2> QED BY <1>2, <2>1, FinishKeeps
<1>3. CASE EnterInterrupt /\ Quiet
  <2>1. at # "host" /\ frames' = frames /\ cycles' = cycles + 13
    BY <1>3 DEF EnterInterrupt, SignalHeld, EmulateRest
  <2> QED BY <1>3, <2>1, QuietKeeps
<1>4. CASE (StepSignal \/ MissInterrupt) /\ Quiet
  <2>1. at # "host" /\ frames' = frames /\ cycles' = cycles + 0
    BY <1>4 DEF StepSignal, MissInterrupt, SignalHeld, EmulateRest, FrameInv, FrameTypeOK
  <2> QED BY <1>4, <2>1, QuietKeeps
<1> QED
  BY <1>1, <1>2, <1>3, <1>4, ProgramKeeps, StartKeeps, RenderKeeps, GiveKeeps, DacUnchanged DEF Next

\* The DAC never loses track of its time: at each place of the main loop and of the
\* frame, the samples rendered and buffered fit the cycles emulated
\* (megapcm-viz.c:54-80 and 412-425).
THEOREM DacInvariance == Spec => []DacInv
<1>1. Init => FrameInv /\ DacInv
  BY FrameStart, DacStart DEF Init
<1>2. FrameInv /\ DacInv /\ [Next]_vars => (FrameInv /\ DacInv)'
  BY FrameStep, DacStep
<1> QED
  BY <1>1, <1>2, PTL DEF Spec

\* Types of the main loop, the DAC and the frame.
THEOREM VisualizerTypes == Spec => []TypeOK
<1>1. FrameInv /\ DacInv => TypeOK
  BY DEF FrameInv, DacInv, VizTypeOK, TypeOK, Bytes
<1> QED
  BY <1>1, FrameInvariance, DacInvariance, PTL

\* The DAC never loses a fraction of a sample period (megapcm-viz.c:77).
THEOREM DacKeepsTime == Spec => []NoDrift
<1>1. DacInv => NoDrift
  BY DEF DacInv
<1> QED
  BY <1>1, DacInvariance, PTL

LEMMA FrameIsShort == ASSUME FrameInv PROVE overshoot + Host <= FrameCycles + Longest
<1>1. CASE at = "host"
  BY <1>1, FrameAssumption DEF FrameInv, FrameTypeOK, Host
<1>2. CASE at # "host"
  BY <1>2, FrameAssumption DEF FrameInv, FrameTypeOK, Host
<1> QED
  BY <1>1, <1>2

LEMMA Fits == ASSUME FrameInv, DacInv PROVE BufferFits
<1>1. /\ cycles \in Nat /\ previous \in Nat /\ committed \in Nat /\ buffer \in Seq(Bytes)
      /\ previous = 1008 * committed /\ previous <= 15 * cycles
      /\ 1008 * (committed - Len(buffer)) > 15 * Elapsed(Frame) - 1008
  BY DEF FrameInv, FrameTypeOK, DacInv, VizTypeOK, NoDrift
<1>2. Elapsed(Frame) \in Nat /\ cycles <= Elapsed(Frame) + FrameCycles + Longest
  <2>1. /\ cycles = Elapsed(frames) + overshoot + Host /\ frames \in Nat /\ Elapsed(frames) \in Nat
        /\ overshoot \in Nat /\ overshoot < Longest
    BY ElapsedGrows DEF FrameInv, FrameTypeOK
  <2>2. CASE loop = "frame"
    BY <2>1, <2>2, FrameIsShort, FrameAssumption DEF Frame, Host, FrameInv, FrameTypeOK
  <2>3. CASE loop # "frame"
    <3>1. at = "host" /\ frames > 0 /\ Frame = frames - 1
      BY <2>3 DEF DacInv, Frame
    <3>2. Frame \in Nat /\ Frame + 1 = frames
      BY <2>1, <3>1
    <3>3. Elapsed(Frame) \in Nat /\ Elapsed(frames) = Elapsed(Frame) + FrameCycles
      BY <3>2, ElapsedGrows
    <3>4. Host = 0
      BY <3>1 DEF Host
    <3> QED BY <2>1, <3>3, <3>4, FrameAssumption
  <2> QED BY <2>2, <2>3
<1>3. FrameCycles \in Nat /\ Longest \in Nat
  BY FrameAssumption
<1> DEFINE n == samples_to_commit(cycles)
<1>4. n \in Nat /\ 1008 * n <= 15 * cycles - previous
  BY <1>1 DEF samples_to_commit
<1>5. Len(buffer) \in Nat
  BY <1>1, LenProperties
<1> HIDE DEF n
<1>6. 1008 * (Len(buffer) + n) < 15 * (FrameCycles + Longest) + 1008
  BY <1>1, <1>2, <1>3, <1>4, <1>5
<1>7. Len(buffer) + n <= FrameSamples
  BY <1>3, <1>4, <1>5, <1>6 DEF FrameSamples
<1> QED
  BY <1>7 DEF BufferFits, n

\* The samples of one frame, with the part of a period and of an instruction that it
\* may start or end late by, are all that the buffer has to hold, wherever the
\* writes fall (megapcm-viz.c:54-80 and 412-425).
THEOREM BuffersAreLargeEnough == Spec => []BufferFits
<1>1. FrameInv /\ DacInv => BufferFits
  BY Fits
<1> QED
  BY <1>1, FrameInvariance, DacInvariance, PTL

\* The frames the program really emulates (NTSC, 59659 cycles) and the longest
\* instruction, 23 cycles behind an EI or DI of 4: the 1024 samples of the buffer are
\* enough and the assert of megapcm-viz.c:60 never fails.
THEOREM AssertHolds ==
  ASSUME FrameCycles = 59659, Longest = 27
  PROVE  Spec => [](Len(buffer) + samples_to_commit(cycles) <= 1024)
<1>1. FrameSamples = 889
  BY DEF FrameSamples
<1>2. ASSUME BufferFits, FrameInv, DacInv PROVE Len(buffer) + samples_to_commit(cycles) <= 1024
  <2>1. Len(buffer) \in Nat /\ samples_to_commit(cycles) \in Int
    BY <1>2, LenProperties DEF DacInv, VizTypeOK, FrameInv, FrameTypeOK, samples_to_commit
  <2> QED BY <1>1, <1>2, <2>1 DEF BufferFits
<1> QED
  BY <1>2, BuffersAreLargeEnough, FrameInvariance, DacInvariance, PTL

-----------------------------------------------------------------------------
(* What is heard: the samples in the buffer against the log of the DAC.    *)

Entries == [from : Nat, out : Bytes]

\* The master cycle at which the period of a sample in the buffer ended.
Instant(i) == PERIOD * (committed - Len(buffer) + i)

\* Entry k of the log is the last that began before master cycle m.
InForceAt(k, m) ==
  /\ log[k].from < m
  /\ \A l \in (k + 1) .. Len(log) : log[l].from >= m

\* The log ends with what the DAC gives out now, and that began before the period
\* of the next sample ends: a write renders what is due first.
LogInv ==
  /\ log \in Seq(Entries) /\ log # <<>>
  /\ log[Len(log)].out = Output(dac)
  /\ log[Len(log)].from < previous + PERIOD
  /\ \A i \in 1 .. Len(buffer) : \E k \in 1 .. Len(log) :
       InForceAt(k, Instant(i)) /\ log[k].out = buffer[i]

LEMMA LastEntry ==
  ASSUME LogInv
  PROVE  /\ log \in Seq(Entries) /\ log # <<>> /\ Len(log) \in Nat \ {0}
         /\ log[Len(log)] \in Entries /\ log[Len(log)].from \in Nat
         /\ log[Len(log)].out = Output(dac) /\ log[Len(log)].from < previous + PERIOD
<1>1. log \in Seq(Entries) /\ log # <<>>
  BY DEF LogInv
<1>2. Len(log) \in Nat \ {0}
  BY <1>1, EmptySeq
<1>3. log[Len(log)] \in Entries
  <2>1. Len(log) \in 1 .. Len(log)
    BY <1>2
  <2> QED BY <1>1, <2>1, ElementOfSeq
<1>4. log[Len(log)].from \in Nat
  BY <1>3 DEF Entries
<1> QED
  BY <1>1, <1>2, <1>3, <1>4 DEF LogInv

\* There is one such entry, so that it is the one InForce chooses.
LEMMA InForceIsIt ==
  ASSUME log \in Seq(Entries), NEW m \in Int, NEW k \in 1 .. Len(log), InForceAt(k, m)
  PROVE  InForce(m) = log[k].out
<1> DEFINE P(j) == /\ log[j].from < m
                   /\ \A l \in (j + 1) .. Len(log) : log[l].from >= m
<1>1. P(k) /\ Len(log) \in Nat
  BY LenProperties DEF InForceAt
<1>2. \A j \in 1 .. Len(log) : log[j].from \in Nat
  <2>1. ASSUME NEW j \in 1 .. Len(log) PROVE log[j] \in Entries
    BY ElementOfSeq
  <2> QED BY <2>1 DEF Entries
<1>3. ASSUME NEW j \in 1 .. Len(log), P(j) PROVE j = k
  <2>1. CASE j < k
    <3>1. k \in (j + 1) .. Len(log)
      BY <1>1, <2>1
    <3> QED BY <1>1, <1>2, <1>3, <3>1
  <2>2. CASE k < j
    <3>1. j \in (k + 1) .. Len(log)
      BY <1>1, <2>2
    <3> QED BY <1>1, <1>2, <1>3, <3>1
  <2> QED BY <1>1, <2>1, <2>2
<1> DEFINE c == CHOOSE j \in 1 .. Len(log) : P(j)
<1>4. InForce(m) = log[c].out
  BY DEF InForce
<1>5. c \in 1 .. Len(log) /\ P(c)
  BY <1>1
<1>6. c = k
  BY <1>3, <1>5
<1> QED
  BY <1>4, <1>6

\* Rendering does not take time back.
LEMMA RendersOnward ==
  ASSUME DacInv, NEW t \in Nat, cycles \in Nat, t >= cycles, YM_DAC_RenderOutput(t)
  PROVE  /\ previous' \in Nat /\ previous \in Nat /\ previous <= previous'
         /\ previous' <= 15 * t /\ 15 * t < previous' + 1008
<1>1. VizTypeOK /\ NoDrift /\ previous \in Nat
  BY DEF DacInv, VizTypeOK
<1> QED
  BY <1>1, Renders

\* What rendering adds to the buffer is what the DAC gives out now, and the end of
\* the log is in force for it.
LEMMA RendersWhatIsHeard ==
  ASSUME DacInv, LogInv, NEW t \in Nat, cycles \in Nat, t >= cycles, YM_DAC_RenderOutput(t)
  PROVE  \A i \in 1 .. Len(buffer') :
           /\ Instant(i)' \in Int /\ Instant(i)' <= previous'
           /\ \E k \in 1 .. Len(log) :
                InForceAt(k, Instant(i)') /\ log[k].out = buffer'[i]
<1> DEFINE n == samples_to_commit(t)
           new == [i \in 1 .. n |-> Output(dac)]
<1>1. /\ VizTypeOK /\ NoDrift /\ buffer \in Seq(Bytes) /\ committed \in Nat
      /\ previous = 1008 * committed /\ previous <= 15 * t
  BY DEF DacInv, VizTypeOK, NoDrift
<1>2. n \in Nat
  BY <1>1 DEF samples_to_commit
<1>3. buffer' = buffer \o new /\ committed' = committed + n
  BY DEF YM_DAC_RenderOutput
<1>4. new \in Seq(Bytes) /\ Len(new) = n /\ \A i \in 1 .. n : new[i] = Output(dac)
  BY <1>1, <1>2, OutputIsBytes DEF VizTypeOK
<1> HIDE DEF n, new
<1>5. /\ Len(buffer') = Len(buffer) + n /\ Len(buffer) \in Nat
      /\ \A i \in 1 .. Len(buffer) : buffer'[i] = buffer[i]
      /\ \A i \in (Len(buffer) + 1) .. (Len(buffer) + n) : buffer'[i] = new[i - Len(buffer)]
  <2>1. Len(buffer) \in Nat
    BY <1>1, LenProperties
  <2>2. /\ Len(buffer \o new) = Len(buffer) + Len(new)
        /\ \A i \in 1 .. Len(buffer) + Len(new) :
             (buffer \o new)[i] = IF i <= Len(buffer) THEN buffer[i] ELSE new[i - Len(buffer)]
    BY <1>1, <1>4, ConcatProperties
  <2> QED BY <1>2, <1>3, <1>4, <2>1, <2>2
<1>6. previous' = 1008 * committed'
  BY <1>1, Renders
<1>7. /\ log \in Seq(Entries) /\ Len(log) \in Nat \ {0}
      /\ log[Len(log)].out = Output(dac) /\ log[Len(log)].from < previous + 1008
  BY LastEntry
<1> SUFFICES ASSUME NEW i \in 1 .. Len(buffer')
             PROVE  /\ Instant(i)' \in Int /\ Instant(i)' <= previous'
                    /\ \E k \in 1 .. Len(log) :
                         InForceAt(k, Instant(i)') /\ log[k].out = buffer'[i]
  OBVIOUS
<1>8. i \in Int /\ 1 <= i /\ i <= Len(buffer) + n
  BY <1>2, <1>5
<1>9. Instant(i)' = 1008 * (committed - Len(buffer) + i)
  BY <1>1, <1>2, <1>3, <1>5, <1>8 DEF Instant
<1>10. Instant(i)' \in Int /\ Instant(i)' <= previous'
  BY <1>1, <1>2, <1>3, <1>5, <1>6, <1>8, <1>9
<1>11. CASE i <= Len(buffer)
  <2>1. i \in 1 .. Len(buffer) /\ Instant(i)' = Instant(i) /\ buffer'[i] = buffer[i]
    BY <1>5, <1>8, <1>9, <1>11 DEF Instant
  <2> QED BY <1>10, <2>1 DEF LogInv
<1>12. CASE i > Len(buffer)
  <2>1. i - Len(buffer) \in 1 .. n /\ buffer'[i] = Output(dac)
    BY <1>2, <1>4, <1>5, <1>8, <1>12
  <2>2. Instant(i)' >= previous + 1008
    BY <1>1, <1>5, <1>8, <1>9, <1>12
  <2>3. InForceAt(Len(log), Instant(i)')
    <3>1. log[Len(log)].from \in Nat
      BY LastEntry
    <3>2. log[Len(log)].from < Instant(i)'
      BY <1>1, <1>7, <1>10, <2>2, <3>1
    <3>3. (Len(log) + 1) .. Len(log) = {}
      BY <1>7
    <3> QED BY <3>2, <3>3 DEF InForceAt
  <2>4. Len(log) \in 1 .. Len(log)
    BY <1>7
  <2> QED BY <1>7, <1>10, <2>1, <2>3, <2>4
<1> QED
  BY <1>5, <1>8, <1>11, <1>12

LEMMA LogStart == ASSUME Init PROVE LogInv
<1>1. /\ log = <<[from |-> 0, out |-> <<Silence, Silence>>]>> /\ buffer = <<>> /\ previous = 0
      /\ dac = [sample |-> 0, enabled |-> FALSE, left |-> FALSE, right |-> FALSE]
  BY DEF Init
<1>2. Output(dac) = <<Silence, Silence>> /\ <<Silence, Silence>> \in Bytes
  BY <1>1 DEF Output, Silence, Bytes
<1>3. log \in Seq(Entries) /\ Len(log) = 1 /\ log # <<>>
  BY <1>1, <1>2 DEF Entries
<1>4. log[1].out = Output(dac) /\ log[1].from = 0
  BY <1>1, <1>2
<1>5. Len(buffer) = 0
  BY <1>1
<1> QED
  BY <1>1, <1>3, <1>4, <1>5 DEF LogInv

\* A write renders up to its own cycle, then begins an entry there if the output
\* changes: no sample that has been rendered comes after it.
LEMMA WriteLogged ==
  ASSUME FrameInv, DacInv, LogInv, NEW k \in Nat, Write(k, dac'),
         dac' \in [sample : 0 .. 255, enabled : BOOLEAN, left : BOOLEAN, right : BOOLEAN]
  PROVE  LogInv'
<1> DEFINE t == cycles + k
           entry == [from |-> MASTER * t, out |-> Output(dac')]
<1>1. /\ YM_DAC_RenderOutput(t)
      /\ log' = IF Output(dac') = Output(dac) THEN log ELSE Append(log, entry)
  BY DEF Write
<1>2. cycles \in Nat /\ t \in Nat /\ t >= cycles
  BY DEF FrameInv, FrameTypeOK
<1> HIDE DEF t
<1>3. \A i \in 1 .. Len(buffer') :
        /\ Instant(i)' \in Int /\ Instant(i)' <= previous'
        /\ \E j \in 1 .. Len(log) : InForceAt(j, Instant(i)') /\ log[j].out = buffer'[i]
  BY <1>1, <1>2, RendersWhatIsHeard
<1>4. /\ previous' \in Nat /\ previous' <= 15 * t /\ 15 * t < previous' + 1008
      /\ previous \in Nat /\ previous <= previous'
  BY <1>1, <1>2, RendersOnward
<1>5. /\ log \in Seq(Entries) /\ Len(log) \in Nat \ {0} /\ log # <<>>
      /\ log[Len(log)].out = Output(dac) /\ log[Len(log)].from < previous + 1008
      /\ log[Len(log)].from \in Nat
  BY LastEntry
<1>6. CASE Output(dac') = Output(dac)
  <2>1. log' = log
    BY <1>1, <1>6
  <2>2. log'[Len(log')].out = Output(dac') /\ log'[Len(log')].from < previous' + 1008
    BY <1>4, <1>5, <1>6, <2>1
  <2>3. \A i \in 1 .. Len(buffer') : \E j \in 1 .. Len(log') :
          InForceAt(j, Instant(i))' /\ log'[j].out = buffer'[i]
    BY <1>3, <2>1 DEF InForceAt
  <2> QED BY <1>5, <2>1, <2>2, <2>3 DEF LogInv, Output
<1>7. CASE Output(dac') # Output(dac)
  <2>1. log' = Append(log, entry)
    BY <1>1, <1>7
  <2>2. entry \in Entries /\ entry.from = 15 * t /\ entry.out = Output(dac')
    BY <1>2, OutputIsBytes DEF Entries
  <2> HIDE DEF entry
  <2>3. /\ log' \in Seq(Entries) /\ Len(log') = Len(log) + 1 /\ log' # <<>>
        /\ log'[Len(log) + 1] = entry
        /\ \A j \in 1 .. Len(log) : log'[j] = log[j]
    BY <1>5, <2>1, <2>2, AppendProperties
  <2>4. log'[Len(log')].out = Output(dac)' /\ log'[Len(log')].from < previous' + 1008
    <3>1. log'[Len(log')] = entry /\ Output(dac)' = Output(dac')
      BY <2>3 DEF Output
    <3> QED BY <1>4, <2>2, <3>1
  <2>5. ASSUME NEW i \in 1 .. Len(buffer')
        PROVE  \E j \in 1 .. Len(log') : InForceAt(j, Instant(i))' /\ log'[j].out = buffer'[i]
    <3>1. Instant(i)' \in Int /\ Instant(i)' <= previous'
      BY <1>3
    <3>2. PICK j \in 1 .. Len(log) : InForceAt(j, Instant(i)') /\ log[j].out = buffer'[i]
      BY <1>3
    <3>3. j \in 1 .. Len(log') /\ log'[j] = log[j] /\ j \in Int
      BY <1>5, <2>3
    <3>4. ASSUME NEW l \in (j + 1) .. Len(log') PROVE log'[l].from >= Instant(i)'
      <4>1. CASE l \in (j + 1) .. Len(log)
        BY <2>3, <3>2, <3>3, <4>1, <1>5 DEF InForceAt
      <4>2. CASE l = Len(log) + 1
        BY <1>2, <1>4, <2>2, <2>3, <3>1, <4>2
      <4> QED BY <1>5, <2>3, <3>3, <4>1, <4>2
    <3> QED BY <3>2, <3>3, <3>4 DEF InForceAt
  <2> QED BY <2>3, <2>4, <2>5 DEF LogInv
<1> QED
  BY <1>6, <1>7

LEMMA RenderLogged == ASSUME FrameInv, DacInv, LogInv, Render PROVE LogInv'
<1>1. YM_DAC_RenderOutput(cycles) /\ UNCHANGED <<dac, log>>
  BY DEF Render
<1>2. cycles \in Nat
  BY DEF FrameInv, FrameTypeOK
<1>3. \A i \in 1 .. Len(buffer') : \E j \in 1 .. Len(log) :
        InForceAt(j, Instant(i)') /\ log[j].out = buffer'[i]
  BY <1>1, <1>2, RendersWhatIsHeard
<1>4. previous' \in Nat /\ previous \in Nat /\ previous <= previous'
  BY <1>1, <1>2, RendersOnward
<1>5. /\ log[Len(log)].from \in Nat /\ log[Len(log)].out = Output(dac)
      /\ log[Len(log)].from < previous + PERIOD
  BY LastEntry
<1>6. log'[Len(log')].out = Output(dac)' /\ log'[Len(log')].from < previous' + PERIOD
  BY <1>1, <1>4, <1>5 DEF Output
<1>7. \A i \in 1 .. Len(buffer') : \E j \in 1 .. Len(log') :
        InForceAt(j, Instant(i))' /\ log'[j].out = buffer'[i]
  BY <1>1, <1>3 DEF InForceAt
<1> QED
  BY <1>1, <1>6, <1>7 DEF LogInv

\* Entries are dropped once no sample is left that they are in force for.
LEMMA GiveLogged == ASSUME LogInv, Give PROVE LogInv'
<1>1. log' = <<log[Len(log)]>> /\ buffer' = <<>> /\ UNCHANGED <<dac, previous>>
  BY DEF Give
<1>2. log[Len(log)] \in Entries
  BY LastEntry
<1>3. log' \in Seq(Entries) /\ Len(log') = 1 /\ log' # <<>> /\ log'[1] = log[Len(log)]
  BY <1>1, <1>2
<1>4. log'[Len(log')].out = Output(dac)' /\ log'[Len(log')].from < previous' + PERIOD
  BY <1>1, <1>3 DEF LogInv, Output
<1>5. 1 .. Len(buffer') = {}
  BY <1>1
<1> QED
  BY <1>3, <1>4, <1>5 DEF LogInv

LEMMA LogUnchanged ==
  ASSUME LogInv, UNCHANGED <<dac, buffer, previous, committed, log>>
  PROVE  LogInv'
BY DEF LogInv, Output, Instant, InForceAt

LEMMA ProgramLogged == ASSUME FrameInv, DacInv, LogInv, Program PROVE LogInv'
<1>1. PICK k \in Stretches :
        \/ \E v \in Values : WriteSample(k, v)
        \/ \E e \in BOOLEAN : WriteEnable(k, e)
        \/ \E pan \in Pans : WritePan(k, pan)
  BY DEF Program
<1>2. PICK d : Write(k, d)
  BY <1>1 DEF WriteSample, WriteEnable, WritePan
<1>3. dac' = d /\ DacInv'
  BY <1>2, ProgramKeeps DEF Write
<1>4. k \in Nat /\ dac' \in [sample : 0 .. 255, enabled : BOOLEAN, left : BOOLEAN, right : BOOLEAN]
  BY <1>3, VisualizerAssumption DEF DacInv, VizTypeOK
<1> QED
  BY <1>2, <1>3, <1>4, WriteLogged

LEMMA LogStep == ASSUME FrameInv, DacInv, LogInv, [Next]_vars PROVE LogInv'
<1>1. CASE Program
  BY <1>1, ProgramLogged
<1>2. CASE Render
  BY <1>2, RenderLogged
<1>3. CASE Give
  BY <1>3, GiveLogged
<1>4. CASE \/ StartFrame
           \/ \E late \in Late : FinishFrame(budget + late)
           \/ Quiet
           \/ UNCHANGED vars
  <2>1. UNCHANGED <<dac, buffer, previous, committed, log>>
    BY <1>4 DEF StartFrame, Quiet, FinishFrame, vars, vizVars
  <2> QED BY <2>1, LogUnchanged
<1> QED
  BY <1>1, <1>2, <1>3, <1>4 DEF Next

\* Each sample in the buffer is what the DAC gave out when its period ended, in
\* whatever order writes, renders and frames come (megapcm-viz.c:54-80): the callback
\* renders what has passed before the VM stores the new value.
THEOREM SamplesAreHeard == Spec => []StreamIsSampled
<1>1. ASSUME DacInv, LogInv, NEW i \in 1 .. Len(buffer)
      PROVE  buffer[i] = InForce(PERIOD * (committed - Len(buffer) + i))
  <2>1. PICK k \in 1 .. Len(log) : InForceAt(k, Instant(i)) /\ log[k].out = buffer[i]
    BY <1>1 DEF LogInv
  <2>2. Instant(i) \in Int
    BY <1>1, LenProperties DEF Instant, DacInv, VizTypeOK
  <2>3. InForce(Instant(i)) = log[k].out
    BY <1>1, <2>1, <2>2, InForceIsIt DEF LogInv
  <2> QED BY <2>1, <2>3 DEF Instant
<1>2. DacInv /\ LogInv => StreamIsSampled
  BY <1>1 DEF StreamIsSampled
<1>3. Init => FrameInv /\ DacInv /\ LogInv
  BY FrameStart, DacStart, LogStart DEF Init
<1>4. FrameInv /\ DacInv /\ LogInv /\ [Next]_vars => (FrameInv /\ DacInv /\ LogInv)'
  BY FrameStep, DacStep, LogStep
<1> QED
  BY <1>2, <1>3, <1>4, PTL DEF Spec
=============================================================================
