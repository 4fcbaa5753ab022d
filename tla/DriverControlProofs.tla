------------------------ MODULE DriverControlProofs ------------------------
(***************************************************************************)
(* What holds of DriverControl for every sample table and every set of     *)
(* commands: its invariants, that it plays samples as Playback says, and   *)
(* which commands it may lose.                                             *)
(***************************************************************************)
EXTENDS DriverHistory, SequenceTheorems, TLAPS

-----------------------------------------------------------------------------
(* The stack.                                                              *)

\* A push followed by a pop leaves the stack as it was.
LEMMA PushPop ==
    ASSUME NEW S, NEW s \in Seq(S), NEW x \in S
    PROVE  /\ Append(s, x) \in Seq(S)
           /\ Last(Append(s, x)) = x
           /\ Front(Append(s, x)) = s
<1>1. /\ Append(s, x) \in Seq(S)
      /\ Len(Append(s, x)) = Len(s) + 1
      /\ Append(s, x)[Len(s) + 1] = x
      /\ Len(s) \in Nat
  BY AppendProperties
<1>2. Last(Append(s, x)) = x
  BY <1>1 DEF Last
<1>3. Front(Append(s, x)) = SubSeq(Append(s, x), 1, Len(s))
  BY <1>1 DEF Front
<1>4. SubSeq(Append(s, x), 1, Len(s)) = s
  OBVIOUS
<1> QED BY <1>1, <1>2, <1>3, <1>4

LEMMA Tuples ==
    ASSUME NEW a, NEW b, NEW c
    PROVE  /\ <<a>> = Append(<<>>, a)
           /\ <<a, b>> = Append(Append(<<>>, a), b)
           /\ <<a, b, c>> = Append(Append(Append(<<>>, a), b), c)
OBVIOUS

LEMMA PushMany ==
    ASSUME NEW S, NEW s \in Seq(S), NEW a \in S, NEW b \in S, NEW c \in S,
           NEW d \in S
    PROVE  /\ s \o <<>> = s /\ s \o <<a>> = Append(s, a)
           /\ s \o <<a, b>> = Append(Append(s, a), b)
           /\ s \o <<a, b, c>> = Append(Append(Append(s, a), b), c)
           /\ s \o <<a, b, c, d>> = Append(Append(Append(Append(s, a), b), c), d)
OBVIOUS

-----------------------------------------------------------------------------
(* The inductive invariant.                                                *)

\* Places of a playback handler outside a pause, and in one.
HandlerPlaces == {"ProcessCommandInput", "VBlankReturn", "PauseReturn"}
PausePlaces == {"PauseWait", "PauseLoop_VBlank", "UnknownWhilePaused", "PauseRestore"}

\* From the moment a sample is requested to the loop that plays it.
RequestPlaces ==
    {"RequestSamplePlayback", "PlaySample", "PlaySampleSetup", "EnterPlaybackLoop"}

\* Where interrupts may be enabled or not.
EndPlaces == {"DisableDAC", "DisableDACWrite", "IdleLoop"}

CalibrationPlaces ==
    {"CalibrationWait", "BenchmarkReads", "CalibrationLoop_VBlank", "InitReturn"}

\* The stack of a playback handler that interrupted p, of a call it makes, of
\* the pause it calls, of the handler of the pause, and of a call of that.
InHandler(p) == Append(Append(Append(MainStack(p), p), "af"), "bc")
InCall(p) == Append(InHandler(p), "VBlankReturn")
InPause(p) == Append(InCall(p), "PauseReturn")
InPauseVBlank(p) == Append(InPause(p), "PauseWait")
InPauseCall(p) == Append(InPauseVBlank(p), "PauseRestore")

\* StackDiscipline, place by place.  No interrupt comes before a loop has put
\* its routine at 38h.
StackInv ==
    /\ pc # "VoidInterrupt"
    /\ pc \in MainPlaces => stack = MainStack(pc)
    /\ pc \in {"PlaySample", "PlaySampleSetup"} => stack = <<"IdleLoop">>
    /\ pc = "EnterPlaybackLoop" => stack = <<"IdleLoop", "DisableDAC">>
    /\ pc = "InitReturn" => stack = <<>>
    /\ pc = "CalibrationLoop_VBlank" =>
         \E p \in {"CalibrationWait", "BenchmarkReads"} : stack = <<"InitReturn", p>>
    /\ pc = "IdleLoop_VBlank" => stack = <<"IdleWait">>
    /\ pc \in PlaybackRoutines => \E p \in PlaybackPlaces : stack = Append(MainStack(p), p)
    /\ pc = "VBlankReturn" => \E p \in PlaybackPlaces : stack = InHandler(p)
    /\ pc \in {"ProcessCommandInput", "PauseReturn"} =>
         \E p \in PlaybackPlaces : stack = InCall(p)
    /\ pc = "PauseWait" => \E p \in PlaybackPlaces : stack = InPause(p)
    /\ pc \in PausePlaces \ {"PauseWait"} => \E p \in PlaybackPlaces : stack = InPauseVBlank(p)
    /\ pc = "ProcessCommandInput2" =>
         \E p \in PlaybackPlaces :
           \/ stack = InCall(p) /\ loopId \in PlaybackLoops
           \/ stack = InPauseCall(p) /\ loopId = "LOOP_PAUSE" /\ IsSample(request)

\* Interrupts are enabled in the main program and in the pause loop, except on
\* the way out of a handler that reset the stack.
IffInv ==
    /\ pc \in (MainPlaces \ EndPlaces) \cup {"PauseWait"} => iff
    /\ iff => pc \in MainPlaces \cup {"PauseWait"}

\* LoopId at each place.
PlaceInv ==
    /\ pc \in CalibrationPlaces => loopId = "LOOP_CALIBRATION" /\ frame \in 0 .. 3
    /\ pc \in CalibrationPlaces \ {"InitReturn"} => frame \in 0 .. 2
    /\ pc \in {"IdleWait", "IdleLoop_VBlank"} => loopId = "LOOP_IDLE"
    /\ pc \in {"Playing", "Scratch"} \cup PlaybackRoutines \cup HandlerPlaces =>
         loopId \in PlaybackLoops
    /\ pc \in EndPlaces /\ iff => loopId \in PlaybackLoops
    /\ pc \in PausePlaces => loopId = "LOOP_PAUSE"
    /\ pc \in {"DisableDAC", "DisableDACWrite", "StopSamplePlayback"} \cup RequestPlaces =>
         loopId \in {"LOOP_IDLE", "LOOP_PAUSE"} \cup PlaybackLoops
    /\ pc = "IdleLoop" =>
         loopId \in {"LOOP_CALIBRATION", "LOOP_IDLE", "LOOP_PAUSE"} \cup PlaybackLoops

\* The VBlank routine is that of LoopId, LoopId that of the active sample; in a
\* pause the copies are.
LoopInv ==
    /\ vblankRoutine = RoutineOf(loopId)
    /\ loopId \in PlaybackLoops =>
         active \in SampleIds /\ Playable(Flags[active]) /\ loopId = LoopOf(Flags[active])
    /\ loopId = "LOOP_PAUSE" =>
         /\ active \in SampleIds /\ Playable(Flags[active])
         /\ loopIdCopy = LoopOf(Flags[active])
         /\ loopIdCopy \in PlaybackLoops
         /\ vblankRoutineCopy = RoutineOf(loopIdCopy)
         /\ COMMAND_PAUSE \in Commands

\* A requested sample has been accepted over the one that plays.
RequestInv ==
    /\ commandInput \in Commands \cup {NoCommand}
    /\ pc \in RequestPlaces \cup {"ProcessCommandInput2"} => request # NoCommand
    /\ pc \in RequestPlaces /\ loopId # "LOOP_IDLE" =>
         Accepts(FlagsOf(active), FlagsOf(request))
    /\ pc \in {"PlaySampleSetup", "EnterPlaybackLoop"} => Playable(FlagsOf(request))

ControlInv ==
    /\ TypeOK
    /\ StackInv
    /\ IffInv
    /\ pc # "InitDriver" => PlaceInv /\ LoopInv /\ RequestInv

-----------------------------------------------------------------------------
(* Names and stacks.                                                       *)

LEMMA RoutineNames ==
    /\ PlaybackRoutines = {"PCMLoop_VBlank", "PCMTurboLoop_VBlank", "DPCMLoop_VBlank",
                           "DPCMTurboLoop_VBlank"}
    /\ Routines = PlaybackRoutines \cup
         {"CalibrationLoop_VBlank", "IdleLoop_VBlank", "PauseLoop_VBlank", "VoidInterrupt"}
    /\ RoutineOf("LOOP_CALIBRATION") = "CalibrationLoop_VBlank"
    /\ RoutineOf("LOOP_IDLE") = "IdleLoop_VBlank"
    /\ RoutineOf("LOOP_PAUSE") = "PauseLoop_VBlank"
    /\ \A loop \in PlaybackLoops : RoutineOf(loop) \in PlaybackRoutines
<1>1. /\ RoutineOf("LOOP_CALIBRATION") = "CalibrationLoop_VBlank"
      /\ RoutineOf("LOOP_IDLE") = "IdleLoop_VBlank"
      /\ RoutineOf("LOOP_PAUSE") = "PauseLoop_VBlank"
      /\ RoutineOf("None") = "VoidInterrupt"
      /\ RoutineOf("LOOP_PCM") = "PCMLoop_VBlank"
      /\ RoutineOf("LOOP_PCM_TURBO") = "PCMTurboLoop_VBlank"
      /\ RoutineOf("LOOP_DPCM") = "DPCMLoop_VBlank"
      /\ RoutineOf("LOOP_DPCM_TURBO") = "DPCMTurboLoop_VBlank"
      /\ RoutineOf("LOOP_DPCM_HQ") = "DPCMLoop_VBlank"
      /\ RoutineOf("LOOP_DPCM_HQ_TURBO") = "DPCMTurboLoop_VBlank"
  BY DEF RoutineOf
<1>2. PlaybackRoutines = {"PCMLoop_VBlank", "PCMTurboLoop_VBlank", "DPCMLoop_VBlank",
                          "DPCMTurboLoop_VBlank"}
  BY <1>1 DEF PlaybackRoutines, PlaybackLoops
<1>3. Routines = PlaybackRoutines \cup
         {"CalibrationLoop_VBlank", "IdleLoop_VBlank", "PauseLoop_VBlank", "VoidInterrupt"}
  BY <1>1, <1>2 DEF Routines, LoopIds, PlaybackLoops
<1>4. \A loop \in PlaybackLoops : RoutineOf(loop) \in PlaybackRoutines
  BY DEF PlaybackRoutines
<1> QED BY <1>1, <1>2, <1>3, <1>4

\* What the places of the main program have on the stack, and what a handler
\* adds to it and takes away.
LEMMA Stacks ==
    /\ MainStack("CalibrationWait") = <<"InitReturn">>
    /\ MainStack("BenchmarkReads") = <<"InitReturn">>
    /\ MainStack("IdleLoop") = <<>>
    /\ MainStack("IdleWait") = <<>>
    /\ MainStack("DisableDAC") = <<"IdleLoop">>
    /\ MainStack("DisableDACWrite") = <<"IdleLoop">>
    /\ MainStack("Playing") = <<"IdleLoop", "DisableDAC">>
    /\ MainStack("Scratch") = <<"IdleLoop", "DisableDAC", "scratch">>
BY DEF MainStack

LEMMA WordsOfStacks ==
    /\ {"af", "bc", "scratch"} \subseteq Words
    /\ MainPlaces \subseteq Words /\ OtherPlaces \subseteq Words /\ Routines \subseteq Words
    /\ PlaybackPlaces \subseteq MainPlaces
BY DEF Words, Places, PlaybackPlaces, MainPlaces

LEMMA HandlerStacks ==
    ASSUME NEW p \in PlaybackPlaces
    PROVE  /\ MainStack(p) \in Seq(Words)
           /\ Append(MainStack(p), p) \in Seq(Words)
           /\ InHandler(p) \in Seq(Words)
           /\ InCall(p) \in Seq(Words)
           /\ InPause(p) \in Seq(Words)
           /\ InPauseVBlank(p) \in Seq(Words)
           /\ InPauseCall(p) \in Seq(Words)
           /\ Append(MainStack(p), p) \o <<"af", "bc", "VBlankReturn">> = InCall(p)
           /\ Last(Front(Front(InHandler(p)))) = p
           /\ Front(Front(Front(InHandler(p)))) = MainStack(p)
           /\ Last(InCall(p)) = "VBlankReturn" /\ Front(InCall(p)) = InHandler(p)
           /\ Last(InPause(p)) = "PauseReturn" /\ Front(InPause(p)) = InCall(p)
           /\ Last(InPauseVBlank(p)) = "PauseWait" /\ Front(InPauseVBlank(p)) = InPause(p)
           /\ Last(InPauseCall(p)) = "PauseRestore"
           /\ Front(InPauseCall(p)) = InPauseVBlank(p)
<1> DEFINE s1 == Append(MainStack(p), p)
           s2 == Append(s1, "af")
<1>1. /\ p \in Words
      /\ {"af", "bc", "scratch", "VBlankReturn", "PauseReturn", "PauseWait", "PauseRestore",
          "IdleLoop", "DisableDAC"} \subseteq Words
  BY WordsOfStacks DEF OtherPlaces, MainPlaces
<1>2. MainStack(p) \in Seq(Words)
  <2>1. /\ <<>> \in Seq(Words) /\ <<"IdleLoop">> \in Seq(Words)
        /\ <<"IdleLoop", "DisableDAC">> \in Seq(Words)
        /\ <<"IdleLoop", "DisableDAC", "scratch">> \in Seq(Words)
    BY <1>1
  <2> QED BY <2>1, Stacks DEF PlaybackPlaces
<1>3. s1 \in Seq(Words) /\ Last(s1) = p /\ Front(s1) = MainStack(p)
  BY <1>1, <1>2, PushPop
<1>4. s2 \in Seq(Words) /\ Front(s2) = s1
  BY <1>1, <1>3, PushPop
<1>5. InHandler(p) \in Seq(Words) /\ Front(InHandler(p)) = s2
  BY <1>1, <1>4, PushPop DEF InHandler
<1>6. InCall(p) \in Seq(Words) /\ Last(InCall(p)) = "VBlankReturn"
      /\ Front(InCall(p)) = InHandler(p)
  BY <1>1, <1>5, PushPop DEF InCall
<1>7. InPause(p) \in Seq(Words) /\ Last(InPause(p)) = "PauseReturn"
      /\ Front(InPause(p)) = InCall(p)
  BY <1>1, <1>6, PushPop DEF InPause
<1>8. InPauseVBlank(p) \in Seq(Words) /\ Last(InPauseVBlank(p)) = "PauseWait"
      /\ Front(InPauseVBlank(p)) = InPause(p)
  BY <1>1, <1>7, PushPop DEF InPauseVBlank
<1>9. InPauseCall(p) \in Seq(Words) /\ Last(InPauseCall(p)) = "PauseRestore"
      /\ Front(InPauseCall(p)) = InPauseVBlank(p)
  BY <1>1, <1>8, PushPop DEF InPauseCall
<1>10. s1 \o <<"af", "bc", "VBlankReturn">> = InCall(p)
  BY <1>1, <1>3, PushMany DEF InCall, InHandler
<1> QED
  BY <1>2, <1>3, <1>4, <1>5, <1>6, <1>7, <1>8, <1>9, <1>10

\* The short stacks of the main program.
LEMMA MainStacks ==
    /\ Last(<<"IdleLoop", "DisableDAC">>) = "DisableDAC"
    /\ Front(<<"IdleLoop", "DisableDAC">>) = <<"IdleLoop">>
    /\ Append(<<"IdleLoop">>, "DisableDAC") = <<"IdleLoop", "DisableDAC">>
    /\ Append(<<"IdleLoop", "DisableDAC">>, "scratch") = <<"IdleLoop", "DisableDAC", "scratch">>
    /\ Front(<<"IdleLoop", "DisableDAC", "scratch">>) = <<"IdleLoop", "DisableDAC">>
    /\ Last(<<"IdleLoop">>) = "IdleLoop" /\ Front(<<"IdleLoop">>) = <<>>
    /\ Last(<<"IdleWait">>) = "IdleWait" /\ Front(<<"IdleWait">>) = <<>>
    /\ Append(<<>>, "IdleWait") = <<"IdleWait">>
    /\ Last(<<"InitReturn">>) = "InitReturn" /\ Front(<<"InitReturn">>) = <<>>
    /\ \A p \in {"CalibrationWait", "BenchmarkReads"} :
         /\ Append(<<"InitReturn">>, p) = <<"InitReturn", p>>
         /\ Front(<<"InitReturn", p>>) = <<"InitReturn">>
<1>1. ASSUME NEW x, NEW y, NEW z
      PROVE  /\ Last(<<x>>) = x /\ Front(<<x>>) = <<>> /\ Append(<<>>, x) = <<x>>
             /\ Last(<<x, y>>) = y /\ Front(<<x, y>>) = <<x>> /\ Append(<<x>>, y) = <<x, y>>
             /\ Append(<<x, y>>, z) = <<x, y, z>> /\ Front(<<x, y, z>>) = <<x, y>>
  <2> DEFINE S == {x, y, z}
  <2>1. <<>> \in Seq(S) /\ <<x>> \in Seq(S) /\ <<x, y>> \in Seq(S)
    OBVIOUS
  <2>2. /\ <<x>> = Append(<<>>, x) /\ <<x, y>> = Append(<<x>>, y)
        /\ <<x, y, z>> = Append(<<x, y>>, z)
    OBVIOUS
  <2>3. x \in S /\ y \in S /\ z \in S
    OBVIOUS
  <2>4. Last(Append(<<>>, x)) = x /\ Front(Append(<<>>, x)) = <<>>
    BY <2>1, <2>3, PushPop
  <2>5. Last(Append(<<x>>, y)) = y /\ Front(Append(<<x>>, y)) = <<x>>
    BY <2>1, <2>3, PushPop
  <2>6. Front(Append(<<x, y>>, z)) = <<x, y>>
    BY <2>1, <2>3, PushPop
  <2> QED BY <2>2, <2>4, <2>5, <2>6
<1> QED BY <1>1

-----------------------------------------------------------------------------
(* The invariant holds.                                                    *)

\* What of TypeOK an action of the Z80 can disturb.
LEMMA TypeParts ==
    /\ MainPlaces \subseteq Places /\ OtherPlaces \subseteq Places /\ Routines \subseteq Places
    /\ {"None", "LOOP_CALIBRATION", "LOOP_IDLE", "LOOP_PAUSE"} \subseteq LoopIds
    /\ PlaybackLoops \subseteq LoopIds
    /\ \A loop \in LoopIds : RoutineOf(loop) \in Routines
    /\ "VoidInterrupt" \in Routines
    /\ <<>> \in Seq(Words) /\ <<"IdleLoop">> \in Seq(Words) /\ <<"InitReturn">> \in Seq(Words)
    /\ <<"IdleLoop", "DisableDAC">> \in Seq(Words)
    /\ <<"IdleLoop", "DisableDAC", "scratch">> \in Seq(Words)
<1>1. "IdleLoop" \in Words /\ "InitReturn" \in Words /\ "DisableDAC" \in Words
      /\ "scratch" \in Words
  BY WordsOfStacks DEF MainPlaces, OtherPlaces
<1>2. /\ <<>> \in Seq(Words) /\ <<"IdleLoop">> \in Seq(Words) /\ <<"InitReturn">> \in Seq(Words)
      /\ <<"IdleLoop", "DisableDAC">> \in Seq(Words)
      /\ <<"IdleLoop", "DisableDAC", "scratch">> \in Seq(Words)
  BY <1>1
<1>3. MainPlaces \subseteq Places /\ OtherPlaces \subseteq Places /\ Routines \subseteq Places
  BY DEF Places
<1>4. /\ {"None", "LOOP_CALIBRATION", "LOOP_IDLE", "LOOP_PAUSE"} \subseteq LoopIds
      /\ PlaybackLoops \subseteq LoopIds
  BY DEF LoopIds
<1>5. \A loop \in LoopIds : RoutineOf(loop) \in Routines
  BY DEF Routines
<1> QED BY <1>2, <1>3, <1>4, <1>5, RoutineNames

LEMMA ControlInit == Init => ControlInv
<1> SUFFICES ASSUME Init PROVE ControlInv
  OBVIOUS
<1>1. TypeOK
  <2>1. pc \in Places /\ stack \in Seq(Words)
    BY TypeParts DEF Init, OtherPlaces
  <2>2. loopId \in LoopIds /\ loopIdCopy \in LoopIds
        /\ vblankRoutine \in Routines /\ vblankRoutineCopy \in Routines
    BY TypeParts DEF Init
  <2>3. /\ iff \in BOOLEAN /\ vblankActive \in BOOLEAN /\ driverReady \in BOOLEAN
        /\ lastError \in BOOLEAN
    BY DEF Init
  <2>4. /\ commandInput \in Commands \cup {NoCommand, COMMAND_PAUSE, EntryByte}
        /\ request \in Commands \cup {NoCommand}
        /\ active \in SampleIds \cup {0} /\ frame \in 0 .. 3
        /\ m68k \in {"Loading", "Running", "Waiting"}
    BY DEF Init
  <2> QED BY <2>1, <2>2, <2>3, <2>4 DEF TypeOK
<1>2. StackInv
  BY RoutineNames DEF Init, StackInv, MainPlaces, PausePlaces
<1>3. IffInv
  BY DEF Init, IffInv, MainPlaces, EndPlaces
<1> QED BY <1>1, <1>2, <1>3 DEF Init, ControlInv

\* Start-up.
LEMMA StartUpStep == ControlInv /\ StartUp => ControlInv'
<1> SUFFICES ASSUME ControlInv, StartUp PROVE ControlInv'
  OBVIOUS
<1> USE RoutineNames DEF MainPlaces, EndPlaces, PausePlaces, HandlerPlaces, RequestPlaces,
    CalibrationPlaces
<1>1. CASE InitDriver
  <2>1. TypeOK'
    <3>1. pc' \in Places /\ stack' \in Seq(Words)
      BY <1>1, TypeParts DEF InitDriver
    <3>2. loopId' \in LoopIds /\ loopIdCopy' \in LoopIds
          /\ vblankRoutine' \in Routines /\ vblankRoutineCopy' \in Routines
      BY <1>1, TypeParts DEF InitDriver, Install
    <3>3. /\ iff' \in BOOLEAN /\ vblankActive' \in BOOLEAN /\ driverReady' \in BOOLEAN
          /\ lastError' \in BOOLEAN
      BY <1>1 DEF InitDriver
    <3>4. /\ commandInput' \in Commands \cup {NoCommand, COMMAND_PAUSE, EntryByte}
          /\ request' \in Commands \cup {NoCommand}
          /\ active' \in SampleIds \cup {0} /\ frame' \in 0 .. 3
          /\ m68k' \in {"Loading", "Running", "Waiting"}
      BY <1>1 DEF InitDriver, ControlInv, TypeOK
    <3> QED BY <3>1, <3>2, <3>3, <3>4 DEF TypeOK
  <2>2. StackInv'
    BY <1>1, Stacks DEF InitDriver, StackInv
  <2>3. IffInv'
    BY <1>1 DEF InitDriver, IffInv
  <2>4. PlaceInv' /\ LoopInv' /\ RequestInv'
    BY <1>1 DEF InitDriver, Install, PlaceInv, LoopInv, RequestInv, PlaybackLoops, NoCommand
  <2> QED BY <2>1, <2>2, <2>3, <2>4 DEF ControlInv
<1>2. CASE CalibrationVBlank
  <2>1. PICK p \in {"CalibrationWait", "BenchmarkReads"} : stack = <<"InitReturn", p>>
    BY <1>2 DEF CalibrationVBlank, ControlInv, StackInv
  <2>2. /\ Front(stack) = <<"InitReturn">> /\ Last(Front(stack)) = "InitReturn"
        /\ Front(Front(stack)) = <<>>
    BY <2>1, MainStacks
  <2>3. frame \in 0 .. 2 /\ ~iff
    BY <1>2 DEF CalibrationVBlank, ControlInv, PlaceInv, IffInv
  <2>4. CASE frame < 2
    <3>1. /\ pc' = "BenchmarkReads" /\ stack' = <<"InitReturn">> /\ iff' = TRUE
          /\ frame' \in 0 .. 2
      BY <1>2, <2>2, <2>3, <2>4 DEF CalibrationVBlank
    <3>2. TypeOK'
      BY <1>2, <3>1, TypeParts
         DEF CalibrationVBlank, ControlInv, TypeOK, loops, mailbox, status
    <3>3. StackInv' /\ IffInv'
      BY <3>1, Stacks DEF StackInv, IffInv
    <3>4. PlaceInv' /\ LoopInv' /\ RequestInv'
      BY <1>2, <3>1
         DEF CalibrationVBlank, ControlInv, PlaceInv, LoopInv, RequestInv, loops, mailbox
    <3> QED BY <3>2, <3>3, <3>4 DEF ControlInv
  <2>5. CASE frame = 2
    <3>1. /\ pc' = "InitReturn" /\ stack' = <<>> /\ iff' = FALSE /\ frame' = 3
      BY <1>2, <2>2, <2>3, <2>5 DEF CalibrationVBlank, ControlInv, TypeOK
    <3>2. TypeOK'
      BY <1>2, <3>1, TypeParts
         DEF CalibrationVBlank, ControlInv, TypeOK, loops, mailbox, status, OtherPlaces
    <3>3. StackInv' /\ IffInv'
      BY <3>1, Stacks DEF StackInv, IffInv
    <3>4. PlaceInv' /\ LoopInv' /\ RequestInv'
      BY <1>2, <3>1
         DEF CalibrationVBlank, ControlInv, PlaceInv, LoopInv, RequestInv, loops, mailbox
    <3> QED BY <3>2, <3>3, <3>4 DEF ControlInv
  <2> QED BY <2>3, <2>4, <2>5
<1>3. CASE InitReturn
  <2>1. stack = <<>> /\ pc' = "IdleLoop" /\ stack' = <<>> /\ ~iff /\ ~iff'
    BY <1>3 DEF InitReturn, ControlInv, StackInv, IffInv
  <2>2. TypeOK'
    BY <1>3, <2>1, TypeParts DEF InitReturn, ControlInv, TypeOK, loops, mailbox
  <2>3. StackInv' /\ IffInv'
    BY <2>1, Stacks DEF StackInv, IffInv
  <2>4. PlaceInv' /\ LoopInv' /\ RequestInv'
    BY <1>3, <2>1 DEF InitReturn, ControlInv, PlaceInv, LoopInv, RequestInv, loops, mailbox
  <2> QED BY <2>2, <2>3, <2>4 DEF ControlInv
<1> QED BY <1>1, <1>2, <1>3 DEF StartUp

\* Where interrupts are enabled the routine that is called belongs to the place.
LEMMA InterruptStep == ControlInv /\ Interrupt => ControlInv'
<1> SUFFICES ASSUME ControlInv, Interrupt PROVE ControlInv'
  OBVIOUS
<1> USE RoutineNames DEF MainPlaces, EndPlaces, PausePlaces, HandlerPlaces, RequestPlaces,
    CalibrationPlaces
<1>1. /\ iff' = FALSE /\ stack' = Append(stack, pc) /\ pc' = vblankRoutine
      /\ vblankRoutine = RoutineOf(loopId)
      /\ pc \in MainPlaces \cup {"PauseWait"} /\ pc # "InitDriver"
      /\ UNCHANGED <<loops, mailbox, status, active, frame, m68k>>
  BY DEF Interrupt, Push, ControlInv, IffInv, LoopInv
<1>2. TypeOK'
  <2>1. pc \in Words
    BY <1>1, WordsOfStacks DEF OtherPlaces
  <2>2. stack' \in Seq(Words) /\ pc' \in Places
    BY <1>1, <2>1, PushPop, TypeParts DEF ControlInv, TypeOK
  <2> QED BY <1>1, <2>2 DEF ControlInv, TypeOK, loops, mailbox, status
<1>3. IffInv'
  BY <1>1, TypeParts DEF IffInv, ControlInv, TypeOK
<1>4. CASE pc \in {"CalibrationWait", "BenchmarkReads"}
  <2>1. loopId = "LOOP_CALIBRATION" /\ frame \in 0 .. 2 /\ stack = <<"InitReturn">>
    BY <1>1, <1>4, Stacks DEF ControlInv, PlaceInv, StackInv
  <2>2. pc' = "CalibrationLoop_VBlank" /\ stack' = <<"InitReturn", pc>>
    BY <1>1, <1>4, <2>1, MainStacks
  <2>3. StackInv'
    BY <1>4, <2>2 DEF StackInv
  <2>4. PlaceInv' /\ LoopInv' /\ RequestInv'
    BY <1>1, <2>1, <2>2 DEF ControlInv, PlaceInv, LoopInv, RequestInv, loops, mailbox
  <2> QED BY <1>2, <1>3, <2>3, <2>4 DEF ControlInv
<1>5. CASE pc = "IdleWait"
  <2>1. loopId = "LOOP_IDLE" /\ stack = <<>>
    BY <1>1, <1>5, Stacks DEF ControlInv, PlaceInv, StackInv
  <2>2. pc' = "IdleLoop_VBlank" /\ stack' = <<"IdleWait">>
    BY <1>1, <1>5, <2>1, MainStacks
  <2>3. StackInv'
    BY <2>2 DEF StackInv
  <2>4. PlaceInv' /\ LoopInv' /\ RequestInv'
    BY <1>1, <2>1, <2>2 DEF ControlInv, PlaceInv, LoopInv, RequestInv, loops, mailbox
  <2> QED BY <1>2, <1>3, <2>3, <2>4 DEF ControlInv
<1>6. CASE pc = "PauseWait"
  <2>1. PICK p \in PlaybackPlaces : stack = InPause(p)
    BY <1>6 DEF ControlInv, StackInv
  <2>2. loopId = "LOOP_PAUSE"
    BY <1>1, <1>6 DEF ControlInv, PlaceInv
  <2>3. pc' = "PauseLoop_VBlank" /\ stack' = InPauseVBlank(p)
    BY <1>1, <1>6, <2>1, <2>2 DEF InPauseVBlank
  <2>4. StackInv'
    BY <2>3 DEF StackInv
  <2>5. PlaceInv' /\ LoopInv' /\ RequestInv'
    BY <1>1, <2>2, <2>3 DEF ControlInv, PlaceInv, LoopInv, RequestInv, loops, mailbox
  <2> QED BY <1>2, <1>3, <2>4, <2>5 DEF ControlInv
<1>7. CASE pc \in PlaybackPlaces
  <2>1. stack = MainStack(pc)
    BY <1>1, <1>7, WordsOfStacks DEF ControlInv, StackInv
  <2>2. loopId \in PlaybackLoops
    BY <1>1, <1>7 DEF Interrupt, ControlInv, PlaceInv, PlaybackPlaces
  <2>3. pc' \in PlaybackRoutines /\ stack' = Append(MainStack(pc), pc)
    BY <1>1, <2>1, <2>2
  <2>4. StackInv'
    BY <1>7, <2>3 DEF StackInv
  <2>5. PlaceInv' /\ LoopInv' /\ RequestInv'
    BY <1>1, <2>2, <2>3 DEF ControlInv, PlaceInv, LoopInv, RequestInv, loops, mailbox
  <2> QED BY <1>2, <1>3, <2>4, <2>5 DEF ControlInv
<1> QED BY <1>1, <1>4, <1>5, <1>6, <1>7 DEF PlaybackPlaces

LEMMA IdlingStep == ControlInv /\ Idling => ControlInv'
<1> SUFFICES ASSUME ControlInv, Idling PROVE ControlInv'
  OBVIOUS
<1> USE RoutineNames DEF MainPlaces, EndPlaces, PausePlaces, HandlerPlaces, RequestPlaces,
    CalibrationPlaces
<1>1. CASE IdleLoop
  <2>1. /\ stack = <<>> /\ stack' = <<>> /\ pc' = "IdleWait" /\ iff' = TRUE
        /\ loopId' = "LOOP_IDLE" /\ vblankRoutine' = RoutineOf("LOOP_IDLE")
    BY <1>1, Stacks DEF IdleLoop, Install, ControlInv, StackInv
  <2>2. TypeOK'
    BY <1>1, <2>1, TypeParts DEF IdleLoop, ControlInv, TypeOK, mailbox, status
  <2>3. StackInv' /\ IffInv'
    BY <2>1, Stacks DEF StackInv, IffInv
  <2>4. PlaceInv' /\ LoopInv' /\ RequestInv'
    BY <1>1, <2>1
       DEF IdleLoop, ControlInv, PlaceInv, LoopInv, RequestInv, PlaybackLoops, mailbox
  <2> QED BY <2>2, <2>3, <2>4 DEF ControlInv
<1>2. CASE IdleVBlank
  <2>1. /\ stack = <<"IdleWait">> /\ loopId = "LOOP_IDLE" /\ pc = "IdleLoop_VBlank" /\ ~iff
        /\ UNCHANGED <<loops, commandInput, status, active, frame, m68k>>
        /\ commandInput \in Commands \cup {NoCommand}
    BY <1>2 DEF IdleVBlank, ControlInv, StackInv, PlaceInv, IffInv, RequestInv
  <2>2. CASE IsSample(commandInput)
    <3>1. /\ request' = commandInput /\ pc' = "RequestSamplePlayback"
          /\ UNCHANGED <<iff, stack>>
      BY <1>2, <2>2 DEF IdleVBlank
    <3>2. request' # NoCommand
      BY <2>2, <3>1 DEF IsSample, NoCommand
    <3>3. TypeOK'
      BY <2>1, <3>1, TypeParts
         DEF ControlInv, TypeOK, OtherPlaces, loops, status
    <3>4. StackInv' /\ IffInv'
      BY <2>1, <3>1 DEF StackInv, IffInv
    <3>5. PlaceInv' /\ LoopInv' /\ RequestInv'
      BY <2>1, <3>1, <3>2 DEF ControlInv, PlaceInv, LoopInv, RequestInv, loops
    <3> QED BY <3>3, <3>4, <3>5 DEF ControlInv
  <2>3. CASE ~IsSample(commandInput)
    <3>1. /\ pc' = "IdleWait" /\ stack' = <<>> /\ iff' = TRUE /\ request' = request
      BY <1>2, <2>1, <2>3, MainStacks DEF IdleVBlank, Return
    <3>2. TypeOK'
      BY <2>1, <3>1, TypeParts DEF ControlInv, TypeOK, loops, status
    <3>3. StackInv' /\ IffInv'
      BY <3>1, Stacks DEF StackInv, IffInv
    <3>4. PlaceInv' /\ LoopInv' /\ RequestInv'
      BY <2>1, <3>1 DEF ControlInv, PlaceInv, LoopInv, RequestInv, loops
    <3> QED BY <3>2, <3>3, <3>4 DEF ControlInv
  <2> QED BY <2>2, <2>3
<1> QED BY <1>1, <1>2 DEF Idling

\* A sample that is in no slot has flags 0, and would be played by no loop.
LEMMA LoopsOfSlots ==
    ASSUME NEW id, LoopOf(FlagsOf(id)) # "None"
    PROVE  /\ id \in SampleIds /\ FlagsOf(id) = Flags[id]
           /\ LoopOf(FlagsOf(id)) \in PlaybackLoops
<1>1. LoopOf(0) = "None"
  BY DEF LoopOf, MaskType
<1>2. id \in SampleIds
  BY <1>1 DEF FlagsOf
<1>3. \A flags : LoopOf(flags) # "None" => LoopOf(flags) \in PlaybackLoops
  BY DEF LoopOf, PlaybackLoops
<1> QED BY <1>2, <1>3 DEF FlagsOf

LEMMA StartingStep == ControlInv /\ Starting => ControlInv'
<1> SUFFICES ASSUME ControlInv, Starting PROVE ControlInv'
  OBVIOUS
<1> USE RoutineNames DEF MainPlaces, EndPlaces, PausePlaces, HandlerPlaces, RequestPlaces,
    CalibrationPlaces
<1>1. CASE RequestSamplePlayback
  <2>1. /\ stack' = <<"IdleLoop">> /\ pc' = "PlaySample" /\ ~iff /\ ~iff'
        /\ commandInput' = NoCommand
        /\ pc = "RequestSamplePlayback"
        /\ UNCHANGED <<iff, loops, request, status, active, frame, m68k>>
    BY <1>1 DEF RequestSamplePlayback, ControlInv, IffInv
  <2>2. TypeOK'
    BY <2>1, TypeParts DEF ControlInv, TypeOK, OtherPlaces, loops, status
  <2>3. StackInv' /\ IffInv'
    BY <2>1 DEF StackInv, IffInv
  <2>4. PlaceInv' /\ LoopInv' /\ RequestInv'
    BY <2>1 DEF ControlInv, PlaceInv, LoopInv, RequestInv, loops
  <2> QED BY <2>2, <2>3, <2>4 DEF ControlInv
<1>2. CASE PlaySample
  <2>1. /\ pc = "PlaySample" /\ stack = <<"IdleLoop">> /\ ~iff
        /\ UNCHANGED <<iff, stack, loops, mailbox, vblankActive, lastError, active, frame, m68k>>
    BY <1>2 DEF PlaySample, ControlInv, StackInv, IffInv
  <2>2. CASE Playable(FlagsOf(request))
    <3>1. pc' = "PlaySampleSetup" /\ driverReady' = FALSE
      BY <1>2, <2>2 DEF PlaySample
    <3>2. TypeOK'
      BY <2>1, <3>1, TypeParts DEF ControlInv, TypeOK, OtherPlaces, loops, mailbox
    <3>3. StackInv' /\ IffInv'
      BY <2>1, <3>1 DEF StackInv, IffInv
    <3>4. PlaceInv' /\ LoopInv' /\ RequestInv'
      BY <2>1, <2>2, <3>1 DEF ControlInv, PlaceInv, LoopInv, RequestInv, loops, mailbox
    <3> QED BY <3>2, <3>3, <3>4 DEF ControlInv
  <2>3. CASE ~Playable(FlagsOf(request))
    <3>1. pc' = "StopSamplePlayback" /\ driverReady' = driverReady
      BY <1>2, <2>3 DEF PlaySample
    <3>2. TypeOK'
      BY <2>1, <3>1, TypeParts DEF ControlInv, TypeOK, OtherPlaces, loops, mailbox
    <3>3. StackInv' /\ IffInv'
      BY <2>1, <3>1 DEF StackInv, IffInv
    <3>4. PlaceInv' /\ LoopInv' /\ RequestInv'
      BY <2>1, <3>1 DEF ControlInv, PlaceInv, LoopInv, RequestInv, loops, mailbox
    <3> QED BY <3>2, <3>3, <3>4 DEF ControlInv
  <2> QED BY <2>2, <2>3
<1>3. CASE PlaySampleSetup
  <2>1. /\ pc = "PlaySampleSetup" /\ stack = <<"IdleLoop">> /\ ~iff
        /\ pc' = "EnterPlaybackLoop" /\ stack' = <<"IdleLoop", "DisableDAC">>
        /\ driverReady' = TRUE
        /\ UNCHANGED <<iff, loops, mailbox, vblankActive, lastError, active, frame, m68k>>
    BY <1>3, MainStacks DEF PlaySampleSetup, Push, ControlInv, StackInv, IffInv
  <2>2. TypeOK'
    BY <2>1, TypeParts DEF ControlInv, TypeOK, OtherPlaces, loops, mailbox
  <2>3. StackInv' /\ IffInv'
    BY <2>1 DEF StackInv, IffInv
  <2>4. PlaceInv' /\ LoopInv' /\ RequestInv'
    BY <2>1 DEF ControlInv, PlaceInv, LoopInv, RequestInv, loops, mailbox
  <2> QED BY <2>2, <2>3, <2>4 DEF ControlInv
<1>4. CASE EnterPlaybackLoop
  <2>1. /\ pc = "EnterPlaybackLoop" /\ stack = <<"IdleLoop", "DisableDAC">> /\ ~iff
        /\ Playable(FlagsOf(request))
        /\ UNCHANGED <<stack, loopIdCopy, vblankRoutineCopy, commandInput, status, frame, m68k>>
    BY <1>4 DEF EnterPlaybackLoop, ControlInv, StackInv, IffInv, RequestInv
  <2>2. CASE LoopOf(FlagsOf(request)) # "None"
    <3>1. /\ request \in SampleIds /\ FlagsOf(request) = Flags[request]
          /\ LoopOf(Flags[request]) \in PlaybackLoops
      BY <2>2, LoopsOfSlots
    <3>2. /\ pc' = "Playing" /\ iff' = TRUE /\ active' = request /\ request' = NoCommand
          /\ loopId' = LoopOf(Flags[request]) /\ vblankRoutine' = RoutineOf(loopId')
      BY <1>4, <2>2, <3>1 DEF EnterPlaybackLoop, Install
    <3>3. vblankRoutine' \in Routines /\ loopId' \in LoopIds
      BY <3>1, <3>2, TypeParts
    <3>4. TypeOK'
      BY <2>1, <3>1, <3>2, <3>3, TypeParts DEF ControlInv, TypeOK, status
    <3>5. StackInv' /\ IffInv'
      BY <2>1, <3>2, Stacks DEF StackInv, IffInv
    <3>6. PlaceInv'
      BY <3>1, <3>2 DEF PlaceInv
    <3>7. LoopInv'
      BY <2>1, <3>1, <3>2 DEF LoopInv, PlaybackLoops
    <3>8. RequestInv'
      BY <2>1, <3>2 DEF ControlInv, RequestInv
    <3> QED BY <3>4, <3>5, <3>6, <3>7, <3>8 DEF ControlInv
  <2>3. CASE LoopOf(FlagsOf(request)) = "None"
    <3>1. /\ pc' = "StopSamplePlayback"
          /\ UNCHANGED <<iff, loopId, vblankRoutine, request, active>>
      BY <1>4, <2>3 DEF EnterPlaybackLoop
    <3>2. TypeOK'
      BY <2>1, <3>1, TypeParts DEF ControlInv, TypeOK, OtherPlaces, status
    <3>3. StackInv' /\ IffInv'
      BY <2>1, <3>1 DEF StackInv, IffInv
    <3>4. PlaceInv' /\ LoopInv' /\ RequestInv'
      BY <2>1, <3>1 DEF ControlInv, PlaceInv, LoopInv, RequestInv
    <3> QED BY <3>2, <3>3, <3>4 DEF ControlInv
  <2> QED BY <2>2, <2>3
<1> QED BY <1>1, <1>2, <1>3, <1>4 DEF Starting

LEMMA StoppingStep == ControlInv /\ Stopping => ControlInv'
<1> SUFFICES ASSUME ControlInv, Stopping PROVE ControlInv'
  OBVIOUS
<1> USE RoutineNames DEF MainPlaces, EndPlaces, PausePlaces, HandlerPlaces, RequestPlaces,
    CalibrationPlaces
<1>1. CASE StopSamplePlayback
  <2>1. /\ pc = "StopSamplePlayback" /\ pc' = "DisableDAC" /\ stack' = <<"IdleLoop">> /\ ~iff
        /\ commandInput' = NoCommand /\ request' = NoCommand
        /\ UNCHANGED <<iff, loops, status, active, frame, m68k>>
    BY <1>1 DEF StopSamplePlayback, ControlInv, IffInv
  <2>2. TypeOK'
    BY <2>1, TypeParts DEF ControlInv, TypeOK, loops, status
  <2>3. StackInv' /\ IffInv'
    BY <2>1, Stacks DEF StackInv, IffInv
  <2>4. PlaceInv' /\ LoopInv' /\ RequestInv'
    BY <2>1 DEF ControlInv, PlaceInv, LoopInv, RequestInv, loops
  <2> QED BY <2>2, <2>3, <2>4 DEF ControlInv
<1>2. CASE DisableDAC
  <2>1. /\ pc = "DisableDAC" /\ pc' = "DisableDACWrite" /\ stack = <<"IdleLoop">>
        /\ driverReady' = FALSE
        /\ UNCHANGED <<iff, stack, loops, mailbox, vblankActive, lastError, active, frame, m68k>>
    BY <1>2, Stacks DEF DisableDAC, ControlInv, StackInv
  <2>2. TypeOK'
    BY <2>1, TypeParts DEF ControlInv, TypeOK, loops, mailbox
  <2>3. StackInv' /\ IffInv'
    BY <2>1, Stacks DEF ControlInv, StackInv, IffInv
  <2>4. PlaceInv' /\ LoopInv' /\ RequestInv'
    BY <2>1 DEF ControlInv, PlaceInv, LoopInv, RequestInv, loops, mailbox
  <2> QED BY <2>2, <2>3, <2>4 DEF ControlInv
<1>3. CASE DisableDACWrite
  <2>1. /\ pc = "DisableDACWrite" /\ pc' = "IdleLoop" /\ stack' = <<>>
        /\ driverReady' = TRUE
        /\ UNCHANGED <<iff, loops, mailbox, vblankActive, lastError, active, frame, m68k>>
    BY <1>3, Stacks, MainStacks DEF DisableDACWrite, Return, ControlInv, StackInv
  <2>2. TypeOK'
    BY <2>1, TypeParts DEF ControlInv, TypeOK, loops, mailbox
  <2>3. StackInv' /\ IffInv'
    BY <2>1, Stacks DEF ControlInv, StackInv, IffInv
  <2>4. PlaceInv' /\ LoopInv' /\ RequestInv'
    BY <2>1 DEF ControlInv, PlaceInv, LoopInv, RequestInv, loops, mailbox
  <2> QED BY <2>2, <2>3, <2>4 DEF ControlInv
<1> QED BY <1>1, <1>2, <1>3 DEF Stopping

\* The main program of a playback loop.
LEMMA PlayingStep == ControlInv /\ (Scratching \/ SampleEnds) => ControlInv'
<1> SUFFICES ASSUME ControlInv, Scratching \/ SampleEnds PROVE ControlInv'
  OBVIOUS
<1> USE RoutineNames DEF MainPlaces, EndPlaces, PausePlaces, HandlerPlaces, RequestPlaces,
    CalibrationPlaces
<1>1. CASE SaveScratch
  <2>1. /\ pc = "Playing" /\ pc' = "Scratch" /\ iff
        /\ stack' = <<"IdleLoop", "DisableDAC", "scratch">>
        /\ UNCHANGED <<iff, loops, mailbox, status, active, frame, m68k>>
    BY <1>1, Stacks, MainStacks DEF SaveScratch, Push, ControlInv, StackInv, IffInv
  <2>2. TypeOK'
    BY <2>1, TypeParts DEF ControlInv, TypeOK, loops, mailbox, status
  <2>3. StackInv' /\ IffInv'
    BY <2>1, Stacks DEF StackInv, IffInv
  <2>4. PlaceInv' /\ LoopInv' /\ RequestInv'
    BY <2>1 DEF ControlInv, PlaceInv, LoopInv, RequestInv, loops, mailbox
  <2> QED BY <2>2, <2>3, <2>4 DEF ControlInv
<1>2. CASE RestoreScratch
  <2>1. /\ pc = "Scratch" /\ pc' = "Playing" /\ iff
        /\ stack' = <<"IdleLoop", "DisableDAC">>
        /\ UNCHANGED <<iff, loops, mailbox, status, active, frame, m68k>>
    BY <1>2, Stacks, MainStacks DEF RestoreScratch, ControlInv, StackInv, IffInv
  <2>2. TypeOK'
    BY <2>1, TypeParts DEF ControlInv, TypeOK, loops, mailbox, status
  <2>3. StackInv' /\ IffInv'
    BY <2>1, Stacks DEF StackInv, IffInv
  <2>4. PlaceInv' /\ LoopInv' /\ RequestInv'
    BY <2>1 DEF ControlInv, PlaceInv, LoopInv, RequestInv, loops, mailbox
  <2> QED BY <2>2, <2>3, <2>4 DEF ControlInv
<1>3. CASE SampleEnds
  <2>1. /\ pc = "Playing" /\ pc' = "DisableDAC" /\ iff
        /\ stack' = <<"IdleLoop">>
        /\ UNCHANGED <<iff, loops, mailbox, status, active, frame, m68k>>
    BY <1>3, Stacks, MainStacks DEF SampleEnds, Return, ControlInv, StackInv, IffInv
  <2>2. TypeOK'
    BY <2>1, TypeParts DEF ControlInv, TypeOK, loops, mailbox, status
  <2>3. StackInv' /\ IffInv'
    BY <2>1, Stacks DEF StackInv, IffInv
  <2>4. PlaceInv' /\ LoopInv' /\ RequestInv'
    BY <2>1 DEF ControlInv, PlaceInv, LoopInv, RequestInv, loops, mailbox
  <2> QED BY <2>2, <2>3, <2>4 DEF ControlInv
<1> QED BY <1>1, <1>2, <1>3 DEF Scratching

\* The VBlank handler of a playback loop.
LEMMA HandlingStep == ControlInv /\ Handling => ControlInv'
<1> SUFFICES ASSUME ControlInv, Handling PROVE ControlInv'
  OBVIOUS
<1> USE RoutineNames DEF MainPlaces, EndPlaces, PausePlaces, HandlerPlaces, RequestPlaces,
    CalibrationPlaces
<1>1. CASE PlaybackVBlank
  <2>1. PICK p \in PlaybackPlaces : stack = Append(MainStack(p), p)
    BY <1>1 DEF PlaybackVBlank, ControlInv, StackInv
  <2>2. /\ pc \in PlaybackRoutines /\ pc' = "ProcessCommandInput" /\ ~iff
        /\ stack' = InCall(p) /\ stack' \in Seq(Words) /\ vblankActive' = TRUE
        /\ UNCHANGED <<iff, loops, mailbox, driverReady, lastError, active, frame, m68k>>
    BY <1>1, <2>1, HandlerStacks DEF PlaybackVBlank, ControlInv, IffInv
  <2>3. TypeOK'
    BY <2>2, TypeParts DEF ControlInv, TypeOK, OtherPlaces, loops, mailbox
  <2>4. StackInv' /\ IffInv'
    BY <2>2 DEF StackInv, IffInv
  <2>5. PlaceInv' /\ LoopInv' /\ RequestInv'
    BY <2>2 DEF ControlInv, PlaceInv, LoopInv, RequestInv, loops, mailbox
  <2> QED BY <2>3, <2>4, <2>5 DEF ControlInv
<1>2. CASE ProcessCommandInput
  <2>1. PICK p \in PlaybackPlaces : stack = InCall(p)
    BY <1>2 DEF ProcessCommandInput, ControlInv, StackInv
  <2>2. /\ pc = "ProcessCommandInput" /\ ~iff /\ request' = commandInput
        /\ loopId \in PlaybackLoops /\ commandInput \in Commands \cup {NoCommand}
        /\ UNCHANGED <<iff, loops, commandInput, status, active, frame, m68k>>
    BY <1>2 DEF ProcessCommandInput, ControlInv, IffInv, PlaceInv, RequestInv
  <2>3. CASE commandInput = NoCommand
    <3>1. /\ pc' = "VBlankReturn" /\ stack' = InHandler(p) /\ stack' \in Seq(Words)
      BY <1>2, <2>1, <2>3, HandlerStacks DEF ProcessCommandInput, Return
    <3>2. TypeOK'
      BY <2>2, <3>1, TypeParts DEF ControlInv, TypeOK, OtherPlaces, loops, status
    <3>3. StackInv' /\ IffInv'
      BY <2>2, <3>1 DEF StackInv, IffInv
    <3>4. PlaceInv' /\ LoopInv' /\ RequestInv'
      BY <2>2, <3>1 DEF ControlInv, PlaceInv, LoopInv, RequestInv, loops
    <3> QED BY <3>2, <3>3, <3>4 DEF ControlInv
  <2>4. CASE commandInput # NoCommand
    <3>1. /\ pc' = "ProcessCommandInput2" /\ stack' = stack
      BY <1>2, <2>4 DEF ProcessCommandInput
    <3>2. TypeOK'
      BY <2>2, <3>1, TypeParts DEF ControlInv, TypeOK, OtherPlaces, loops, status
    <3>3. StackInv' /\ IffInv'
      BY <2>1, <2>2, <3>1 DEF StackInv, IffInv, loops
    <3>4. PlaceInv' /\ LoopInv' /\ RequestInv'
      BY <2>2, <2>4, <3>1 DEF ControlInv, PlaceInv, LoopInv, RequestInv, loops
    <3> QED BY <3>2, <3>3, <3>4 DEF ControlInv
  <2> QED BY <2>3, <2>4
<1>3. ASSUME pc = "ProcessCommandInput2"
      PROVE  /\ ~iff /\ request \in Commands /\ request # NoCommand
             /\ loopId \in PlaybackLoops \cup {"LOOP_PAUSE"}
             /\ PlaceInv /\ LoopInv /\ RequestInv
  BY <1>3 DEF ControlInv, StackInv, IffInv, PlaceInv, RequestInv, TypeOK
<1>4. ASSUME pc = "ProcessCommandInput2", Return
      PROVE  \E p \in PlaybackPlaces :
               /\ stack' \in Seq(Words)
               /\ \/ pc' = "VBlankReturn" /\ stack' = InHandler(p) /\ loopId \in PlaybackLoops
                  \/ /\ pc' = "PauseRestore" /\ stack' = InPauseVBlank(p)
                     /\ loopId = "LOOP_PAUSE"
  <2>1. PICK p \in PlaybackPlaces :
           \/ stack = InCall(p) /\ loopId \in PlaybackLoops
           \/ stack = InPauseCall(p) /\ loopId = "LOOP_PAUSE"
    BY <1>4 DEF ControlInv, StackInv
  <2> QED BY <1>4, <2>1, HandlerStacks DEF Return
<1>5. CASE AcceptSample
  <2>1. /\ pc = "ProcessCommandInput2" /\ pc' = "RequestSamplePlayback"
        /\ Accepts(FlagsOf(active), FlagsOf(request))
        /\ UNCHANGED <<iff, stack, loops, mailbox, status, active, frame, m68k>>
    BY <1>5 DEF AcceptSample
  <2>2. TypeOK'
    BY <2>1, TypeParts DEF ControlInv, TypeOK, OtherPlaces, loops, mailbox, status
  <2>3. StackInv' /\ IffInv'
    BY <1>3, <2>1 DEF StackInv, IffInv
  <2>4. PlaceInv' /\ LoopInv' /\ RequestInv'
    BY <1>3, <2>1 DEF PlaceInv, LoopInv, RequestInv, loops, mailbox
  <2> QED BY <2>2, <2>3, <2>4 DEF ControlInv
<1>6. CASE RejectSample \/ UnknownCommand
  <2>1. /\ pc = "ProcessCommandInput2" /\ Return
        /\ commandInput' = NoCommand /\ request' = NoCommand
        /\ lastError' \in BOOLEAN
        /\ UNCHANGED <<iff, loops, vblankActive, driverReady, active, frame, m68k>>
    BY <1>6 DEF RejectSample, UnknownCommand, status, ControlInv, TypeOK
  <2>2. PICK p \in PlaybackPlaces :
               /\ stack' \in Seq(Words)
               /\ \/ pc' = "VBlankReturn" /\ stack' = InHandler(p) /\ loopId \in PlaybackLoops
                  \/ /\ pc' = "PauseRestore" /\ stack' = InPauseVBlank(p)
                     /\ loopId = "LOOP_PAUSE"
    BY <1>4, <2>1
  <2>3. pc' \in Places
    BY <2>2, TypeParts DEF OtherPlaces
  <2>4. TypeOK'
    BY <2>1, <2>2, <2>3 DEF ControlInv, TypeOK, loops
  <2>5. StackInv' /\ IffInv'
    BY <1>3, <2>1, <2>2 DEF StackInv, IffInv
  <2>6. PlaceInv' /\ LoopInv' /\ RequestInv'
    BY <1>3, <2>1, <2>2 DEF PlaceInv, LoopInv, RequestInv, loops
  <2> QED BY <2>4, <2>5, <2>6 DEF ControlInv
<1>7. CASE StopCommand
  <2>1. /\ pc = "ProcessCommandInput2" /\ pc' = "StopSamplePlayback"
        /\ UNCHANGED <<iff, stack, loops, mailbox, status, active, frame, m68k>>
    BY <1>7 DEF StopCommand
  <2>2. TypeOK'
    BY <2>1, TypeParts DEF ControlInv, TypeOK, OtherPlaces, loops, mailbox, status
  <2>3. StackInv' /\ IffInv'
    BY <1>3, <2>1 DEF StackInv, IffInv
  <2>4. PlaceInv' /\ LoopInv' /\ RequestInv'
    BY <1>3, <2>1 DEF PlaceInv, LoopInv, RequestInv, loops, mailbox
  <2> QED BY <2>2, <2>3, <2>4 DEF ControlInv
<1>8. CASE PausePlayback
  <2>1. /\ pc = "ProcessCommandInput2" /\ pc' = "PauseWait" /\ iff' = TRUE
        /\ request = COMMAND_PAUSE /\ request' = NoCommand
        /\ stack' = Append(stack, "PauseReturn")
        /\ loopIdCopy' = loopId /\ vblankRoutineCopy' = vblankRoutine
        /\ loopId' = "LOOP_PAUSE" /\ vblankRoutine' = RoutineOf("LOOP_PAUSE")
        /\ UNCHANGED <<commandInput, status, active, frame, m68k>>
    BY <1>8 DEF PausePlayback, Push, Install
  <2>2. ~IsSample(request)
    BY <2>1 DEF IsSample, COMMAND_PAUSE
  <2>3. PICK p \in PlaybackPlaces : stack = InCall(p) /\ loopId \in PlaybackLoops
    BY <2>1, <2>2 DEF ControlInv, StackInv
  <2>4. stack' = InPause(p) /\ stack' \in Seq(Words)
    BY <2>1, <2>3, HandlerStacks DEF InPause
  <2>5. TypeOK'
    BY <2>1, <2>4, TypeParts DEF ControlInv, TypeOK, OtherPlaces, status
  <2>6. StackInv' /\ IffInv'
    BY <2>1, <2>4 DEF StackInv, IffInv
  <2>7. PlaceInv' /\ RequestInv'
    BY <1>3, <2>1 DEF PlaceInv, RequestInv
  <2>8. LoopInv'
    BY <1>3, <2>1, <2>3 DEF LoopInv, PlaybackLoops
  <2> QED BY <2>5, <2>6, <2>7, <2>8 DEF ControlInv
<1>9. CASE VBlankReturn
  <2>1. PICK p \in PlaybackPlaces : stack = InHandler(p)
    BY <1>9 DEF VBlankReturn, ControlInv, StackInv
  <2>2. /\ pc = "VBlankReturn" /\ pc' = p /\ stack' = MainStack(p) /\ stack' \in Seq(Words)
        /\ iff' = TRUE /\ vblankActive' = FALSE
        /\ UNCHANGED <<loops, mailbox, driverReady, lastError, active, frame, m68k>>
    BY <1>9, <2>1, HandlerStacks DEF VBlankReturn
  <2>3. pc' \in MainPlaces /\ loopId \in PlaybackLoops
    BY <2>2, WordsOfStacks DEF ControlInv, PlaceInv
  <2>4. TypeOK'
    BY <2>2, <2>3, TypeParts DEF ControlInv, TypeOK, loops, mailbox
  <2>5. StackInv'
    BY <2>2 DEF StackInv, PlaybackPlaces
  <2>6. IffInv'
    BY <2>2, <2>3 DEF IffInv
  <2>7. PlaceInv' /\ LoopInv' /\ RequestInv'
    BY <2>2, <2>3
       DEF ControlInv, PlaceInv, LoopInv, RequestInv, PlaybackPlaces, loops, mailbox
  <2> QED BY <2>4, <2>5, <2>6, <2>7 DEF ControlInv
<1> QED BY <1>1, <1>2, <1>5, <1>6, <1>7, <1>8, <1>9 DEF Handling

\* The VBlank handler of the pause loop.
LEMMA PausingStep == ControlInv /\ Pausing => ControlInv'
<1> SUFFICES ASSUME ControlInv, Pausing PROVE ControlInv'
  OBVIOUS
<1> USE RoutineNames DEF MainPlaces, EndPlaces, PausePlaces, HandlerPlaces, RequestPlaces,
    CalibrationPlaces
<1>1. ASSUME pc \in {"PauseLoop_VBlank", "UnknownWhilePaused", "PauseRestore"}
      PROVE  /\ ~iff /\ loopId = "LOOP_PAUSE"
             /\ commandInput \in Commands \cup {NoCommand} /\ COMMAND_PAUSE \in Commands
             /\ PlaceInv /\ LoopInv /\ RequestInv
             /\ \E p \in PlaybackPlaces : stack = InPauseVBlank(p)
  BY <1>1 DEF ControlInv, StackInv, IffInv, PlaceInv, LoopInv, RequestInv
<1>2. CASE Unpause
  <2>1. PICK p \in PlaybackPlaces : stack = InPauseVBlank(p)
    BY <1>1, <1>2 DEF Unpause
  <2>2. /\ pc' = "PauseReturn" /\ stack' = InCall(p) /\ stack' \in Seq(Words) /\ ~iff /\ ~iff'
        /\ vblankRoutine' = vblankRoutineCopy /\ loopId' = loopIdCopy
        /\ UNCHANGED <<iff, loopIdCopy, vblankRoutineCopy, mailbox, status, active, frame, m68k>>
    BY <1>1, <1>2, <2>1, HandlerStacks DEF Unpause
  <2>3. /\ loopIdCopy \in PlaybackLoops /\ loopIdCopy = LoopOf(Flags[active])
        /\ vblankRoutineCopy = RoutineOf(loopIdCopy)
        /\ active \in SampleIds /\ Playable(Flags[active]) /\ RequestInv
    BY <1>1, <1>2 DEF Unpause, LoopInv
  <2>4. TypeOK'
    BY <2>2, TypeParts DEF ControlInv, TypeOK, OtherPlaces, mailbox, status
  <2>5. StackInv' /\ IffInv'
    BY <2>2 DEF StackInv, IffInv
  <2>6. PlaceInv' /\ RequestInv'
    BY <2>2, <2>3 DEF PlaceInv, RequestInv, mailbox
  <2>7. LoopInv'
    BY <2>2, <2>3 DEF LoopInv, PlaybackLoops
  <2> QED BY <2>4, <2>5, <2>6, <2>7 DEF ControlInv
<1>3. CASE PauseReturn
  <2>1. PICK p \in PlaybackPlaces : stack = InCall(p)
    BY <1>3 DEF PauseReturn, ControlInv, StackInv
  <2>2. /\ pc = "PauseReturn" /\ pc' = "VBlankReturn" /\ ~iff
        /\ stack' = InHandler(p) /\ stack' \in Seq(Words)
        /\ UNCHANGED <<iff, loops, mailbox, status, active, frame, m68k>>
    BY <1>3, <2>1, HandlerStacks DEF PauseReturn, Return, ControlInv, IffInv
  <2>3. TypeOK'
    BY <2>2, TypeParts DEF ControlInv, TypeOK, OtherPlaces, loops, mailbox, status
  <2>4. StackInv' /\ IffInv'
    BY <2>2 DEF StackInv, IffInv
  <2>5. PlaceInv' /\ LoopInv' /\ RequestInv'
    BY <2>2 DEF ControlInv, PlaceInv, LoopInv, RequestInv, loops, mailbox
  <2> QED BY <2>3, <2>4, <2>5 DEF ControlInv
<1>4. CASE StayPaused \/ PauseRestore \/ ResetWhilePaused
  <2>1. PICK p \in PlaybackPlaces : stack = InPauseVBlank(p)
    BY <1>1, <1>4 DEF StayPaused, PauseRestore, ResetWhilePaused
  <2>2. /\ pc \in PausePlaces /\ pc' = "PauseWait" /\ iff' = TRUE
        /\ stack' = InPause(p) /\ stack' \in Seq(Words)
        /\ commandInput' \in {commandInput, COMMAND_PAUSE, NoCommand}
        /\ request' \in {request, NoCommand}
        /\ UNCHANGED <<loops, vblankActive, driverReady, active, frame, m68k>>
    BY <1>4, <2>1, HandlerStacks
       DEF StayPaused, PauseRestore, ResetWhilePaused, Return, mailbox, status
  <2>3. lastError' \in BOOLEAN
    BY <1>4 DEF StayPaused, PauseRestore, ResetWhilePaused, status, ControlInv, TypeOK
  <2>4. TypeOK'
    BY <2>2, <2>3, TypeParts DEF ControlInv, TypeOK, OtherPlaces, loops
  <2>5. StackInv' /\ IffInv'
    BY <2>2 DEF StackInv, IffInv
  <2>6. loopId = "LOOP_PAUSE" /\ LoopInv /\ RequestInv
    BY <1>1, <1>4 DEF StayPaused, PauseRestore, ResetWhilePaused
  <2>7. PlaceInv' /\ LoopInv' /\ RequestInv'
    BY <2>2, <2>6 DEF PlaceInv, LoopInv, RequestInv, loops
  <2> QED BY <2>4, <2>5, <2>7 DEF ControlInv
<1>5. CASE StopWhilePaused \/ UnknownWhilePaused
  <2>1. /\ pc = "PauseLoop_VBlank" /\ pc' \in {"StopSamplePlayback", "UnknownWhilePaused"}
        /\ request' = commandInput
        /\ UNCHANGED <<iff, stack, loops, commandInput, status, active, frame, m68k>>
    BY <1>5 DEF StopWhilePaused, UnknownWhilePaused
  <2>2. TypeOK'
    BY <1>1, <2>1, TypeParts DEF ControlInv, TypeOK, OtherPlaces, loops, status
  <2>3. StackInv' /\ IffInv'
    BY <1>1, <2>1 DEF StackInv, IffInv
  <2>4. PlaceInv' /\ LoopInv' /\ RequestInv'
    BY <1>1, <2>1 DEF PlaceInv, LoopInv, RequestInv, loops
  <2> QED BY <2>2, <2>3, <2>4 DEF ControlInv
<1>6. CASE SampleWhilePaused
  <2>1. PICK p \in PlaybackPlaces : stack = InPauseVBlank(p)
    BY <1>1, <1>6 DEF SampleWhilePaused
  <2>2. /\ pc = "PauseLoop_VBlank" /\ pc' = "ProcessCommandInput2"
        /\ request' = commandInput /\ IsSample(commandInput)
        /\ stack' = InPauseCall(p) /\ stack' \in Seq(Words)
        /\ UNCHANGED <<iff, loops, commandInput, status, active, frame, m68k>>
    BY <1>6, <2>1, HandlerStacks DEF SampleWhilePaused, Push, InPauseCall
  <2>3. commandInput # NoCommand
    BY <2>2 DEF IsSample, NoCommand
  <2>4. TypeOK'
    BY <1>1, <2>2, TypeParts DEF ControlInv, TypeOK, OtherPlaces, loops, status
  <2>5. StackInv' /\ IffInv'
    BY <1>1, <2>2 DEF StackInv, IffInv, loops
  <2>6. PlaceInv' /\ LoopInv' /\ RequestInv'
    BY <1>1, <2>2, <2>3 DEF PlaceInv, LoopInv, RequestInv, loops
  <2> QED BY <2>4, <2>5, <2>6 DEF ControlInv
<1> QED BY <1>2, <1>3, <1>4, <1>5, <1>6 DEF Pausing

\* The 68K changes the mailbox, or resets the Z80.
LEMMA M68kStep == ControlInv /\ M68k => ControlInv'
<1> SUFFICES ASSUME ControlInv, M68k PROVE ControlInv'
  OBVIOUS
<1> USE RoutineNames DEF MainPlaces, EndPlaces, PausePlaces, HandlerPlaces, RequestPlaces,
    CalibrationPlaces
<1>1. CASE LoadDriver
  <2>1. /\ pc' = "InitDriver" /\ iff' = FALSE /\ m68k' = "Loading"
        /\ vblankRoutine' = "VoidInterrupt" /\ commandInput' = EntryByte
        /\ UNCHANGED <<stack, loopId, loopIdCopy, vblankRoutineCopy, request, status, active,
                       frame>>
    BY <1>1 DEF LoadDriver
  <2>2. TypeOK'
    BY <2>1, TypeParts DEF ControlInv, TypeOK, OtherPlaces, status
  <2>3. StackInv' /\ IffInv'
    BY <2>1 DEF StackInv, IffInv
  <2> QED BY <2>1, <2>2, <2>3 DEF ControlInv
<1>2. CASE WriteCommand \/ DriverLoaded \/ EnsureYMWriteReady \/ YMWriteReady
  <2>1. /\ UNCHANGED <<cpu, loops, request, status, active, frame>>
        /\ commandInput' \in Commands \cup {commandInput}
        /\ m68k' \in {m68k, "Running", "Waiting"}
    BY <1>2 DEF WriteCommand, DriverLoaded, EnsureYMWriteReady, YMWriteReady, mailbox
  <2>2. TypeOK'
    BY <2>1 DEF ControlInv, TypeOK, cpu, loops, status
  <2>3. StackInv' /\ IffInv'
    BY <2>1 DEF ControlInv, StackInv, IffInv, cpu, loops
  <2>4. pc # "InitDriver" => PlaceInv' /\ LoopInv' /\ RequestInv'
    BY <2>1 DEF ControlInv, PlaceInv, LoopInv, RequestInv, cpu, loops
  <2> QED BY <2>1, <2>2, <2>3, <2>4 DEF ControlInv, cpu
<1> QED BY <1>1, <1>2 DEF M68k

LEMMA StutterStep == ControlInv /\ UNCHANGED vars => ControlInv'
BY DEF ControlInv, TypeOK, StackInv, IffInv, PlaceInv, LoopInv, RequestInv, vars, cpu, loops,
       mailbox, status

\* The inductive invariant.
THEOREM ControlInvariance == Spec => []ControlInv
<1>1. ControlInv /\ [Next]_vars => ControlInv'
  BY StartUpStep, InterruptStep, IdlingStep, StartingStep, StoppingStep, PlayingStep,
     HandlingStep, PausingStep, M68kStep, StutterStep
     DEF Next, Z80
<1> QED BY ControlInit, <1>1, PTL DEF Spec

-----------------------------------------------------------------------------
(* What it implies.                                                        *)

LEMMA StackInvImplies == ControlInv => StackDiscipline
<1> SUFFICES ASSUME ControlInv PROVE StackDiscipline
  OBVIOUS
<1> DEFINE calls ==
      {"ProcessCommandInput", "ProcessCommandInput2", "VBlankReturn", "PauseReturn"}
        \cup PausePlaces
<1>1. pc \in MainPlaces => StackDiscipline
  BY DEF ControlInv, StackInv, StackDiscipline
<1>2. pc \in {"PlaySample", "PlaySampleSetup", "EnterPlaybackLoop", "InitReturn",
              "CalibrationLoop_VBlank", "IdleLoop_VBlank", "InitDriver",
              "RequestSamplePlayback", "StopSamplePlayback"} => StackDiscipline
  BY DEF ControlInv, StackInv, StackDiscipline
<1>3. pc \in PlaybackRoutines => StackDiscipline
  BY DEF ControlInv, StackInv, StackDiscipline
<1>4. ASSUME NEW p \in PlaybackPlaces
      PROVE  /\ HandlerStack(p) \o <<>> = InHandler(p)
             /\ HandlerStack(p) \o <<"VBlankReturn">> = InCall(p)
             /\ HandlerStack(p) \o <<"VBlankReturn", "PauseReturn">> = InPause(p)
             /\ HandlerStack(p) \o <<"VBlankReturn", "PauseReturn", "PauseWait">>
                  = InPauseVBlank(p)
             /\ HandlerStack(p) \o <<"VBlankReturn", "PauseReturn", "PauseWait",
                                     "PauseRestore">> = InPauseCall(p)
  <2>1. {"af", "bc", "VBlankReturn", "PauseReturn", "PauseWait", "PauseRestore"} \subseteq Words
    BY WordsOfStacks DEF OtherPlaces
  <2>2. HandlerStack(p) = InHandler(p)
    BY <2>1, HandlerStacks, PushMany DEF HandlerStack, InHandler
  <2> QED
    BY <2>1, <2>2, HandlerStacks, PushMany DEF InCall, InPause, InPauseVBlank, InPauseCall
<1>5. pc \in calls => \E call \in CallStacks, p \in PlaybackPlaces :
                        pc = call[1] /\ stack = HandlerStack(p) \o call[2]
  <2> DEFINE At(place, calling) == \E p \in PlaybackPlaces :
        stack = HandlerStack(p) \o calling
  <2>1. ASSUME NEW place, NEW calling, <<place, calling>> \in CallStacks, pc = place,
               At(place, calling)
        PROVE  \E call \in CallStacks, p \in PlaybackPlaces :
                  pc = call[1] /\ stack = HandlerStack(p) \o call[2]
    <3>1. PICK p \in PlaybackPlaces : stack = HandlerStack(p) \o calling
      BY <2>1
    <3>2. /\ <<place, calling>>[1] = place /\ <<place, calling>>[2] = calling
      OBVIOUS
    <3> QED BY <2>1, <3>1, <3>2
  <2>2. pc = "VBlankReturn" => At(pc, <<>>)
    BY <1>4 DEF ControlInv, StackInv
  <2>3. pc \in {"ProcessCommandInput", "PauseReturn"} => At(pc, <<"VBlankReturn">>)
    BY <1>4 DEF ControlInv, StackInv
  <2>4. pc = "PauseWait" => At(pc, <<"VBlankReturn", "PauseReturn">>)
    BY <1>4 DEF ControlInv, StackInv
  <2>5. pc \in PausePlaces \ {"PauseWait"} =>
          At(pc, <<"VBlankReturn", "PauseReturn", "PauseWait">>)
    BY <1>4 DEF ControlInv, StackInv
  <2>6. pc = "ProcessCommandInput2" =>
          \/ At(pc, <<"VBlankReturn">>)
          \/ At(pc, <<"VBlankReturn", "PauseReturn", "PauseWait", "PauseRestore">>)
    BY <1>4 DEF ControlInv, StackInv
  <2>7. /\ <<"VBlankReturn", <<>>>> \in CallStacks
        /\ <<"ProcessCommandInput", <<"VBlankReturn">>>> \in CallStacks
        /\ <<"PauseReturn", <<"VBlankReturn">>>> \in CallStacks
        /\ <<"ProcessCommandInput2", <<"VBlankReturn">>>> \in CallStacks
        /\ <<"PauseWait", <<"VBlankReturn", "PauseReturn">>>> \in CallStacks
        /\ \A place \in PausePlaces \ {"PauseWait"} :
             <<place, <<"VBlankReturn", "PauseReturn", "PauseWait">>>> \in CallStacks
        /\ <<"ProcessCommandInput2",
             <<"VBlankReturn", "PauseReturn", "PauseWait", "PauseRestore">>>> \in CallStacks
    BY DEF CallStacks, PausePlaces
  <2> HIDE DEF At
  <2> QED BY <2>1, <2>2, <2>3, <2>4, <2>5, <2>6, <2>7 DEF PausePlaces
<1>6. \/ pc \in MainPlaces \cup PlaybackRoutines \cup calls
      \/ pc \in {"PlaySample", "PlaySampleSetup", "EnterPlaybackLoop", "InitReturn",
                 "CalibrationLoop_VBlank", "IdleLoop_VBlank", "InitDriver",
                 "RequestSamplePlayback", "StopSamplePlayback"}
  BY RoutineNames DEF ControlInv, TypeOK, StackInv, Places, OtherPlaces, PausePlaces
<1> QED BY <1>1, <1>2, <1>3, <1>5, <1>6 DEF StackDiscipline

\* Every variable stays in its range, and no ret goes to a saved register.
THEOREM ControlTypeCorrect == Spec => []TypeOK
<1>1. ControlInv => TypeOK
  BY DEF ControlInv
<1> QED BY ControlInvariance, <1>1, PTL

\* The stack is what the callers of the current place have left, through any
\* number of interrupts, pauses, stops and sample changes.
THEOREM StackNeverLeaks == Spec => []StackDiscipline
<1> QED BY ControlInvariance, StackInvImplies, PTL

\* The VBlank routine is that of the loop that runs, and in a pause the saved
\* one is that of the loop to resume.
THEOREM RoutineIsRight == Spec => []RoutineMatchesLoop
<1>1. ControlInv => RoutineMatchesLoop
  <2> SUFFICES ASSUME ControlInv, iff PROVE
        /\ vblankRoutine = RoutineOf(loopId)
        /\ loopId = "LOOP_PAUSE" => /\ loopIdCopy = LoopOf(FlagsOf(active))
                                    /\ vblankRoutineCopy = RoutineOf(loopIdCopy)
    BY DEF RoutineMatchesLoop
  <2>1. LoopInv
    BY DEF ControlInv, IffInv, MainPlaces
  <2> QED BY <2>1 DEF LoopInv, FlagsOf
<1> QED BY ControlInvariance, <1>1, PTL

-----------------------------------------------------------------------------
(* Priorities.                                                             *)

\* The bits below the priority decide between equal priorities.
LEMMA Comparison ==
    ASSUME NEW old \in FlagBytes, NEW new \in FlagBytes
    PROVE  /\ Accepts(old, new) => MaskPriority(old) <= MaskPriority(new)
           /\ new % 16 # 0 /\ ~Accepts(old, new) => MaskPriority(new) < MaskPriority(old)
           /\ Playable(old) /\ ~Playable(new) => MaskPriority(new) < MaskPriority(old)
<1> DEFINE h == old \div 16
           k == new \div 16
<1>1. /\ h \in Int /\ old = 16 * h + (old % 16)
      /\ k \in Int /\ new = 16 * k + (new % 16)
      /\ old \in Int /\ new \in Int
  BY DEF FlagBytes
<1>2. /\ old % 16 \in Int /\ 0 <= old % 16 /\ old % 16 <= 15
      /\ new % 16 \in Int /\ 0 <= new % 16 /\ new % 16 <= 15
  BY DEF FlagBytes
<1> HIDE DEF h, k
<1>3. MaskPriority(old) = 16 * h /\ MaskPriority(new) = 16 * k
  BY <1>1, <1>2 DEF MaskPriority
<1> QED BY <1>1, <1>2, <1>3 DEF Accepts, Playable

\* A record with no type and no loop flag is refused by its equals: the table
\* has none.
Typed == \A s \in SampleIds : Playable(Flags[s]) => Flags[s] % 16 # 0

\* Only a sample of lower priority is refused, if every sample has a type.
THEOREM RefusalIsByPriority ==
    ASSUME Typed
    PROVE  Spec => RefusesLowerOnly
<1>1. ASSUME NEW id PROVE FlagsOf(id) \in FlagBytes
  <2>1. 0 \in FlagBytes
    BY DEF FlagBytes
  <2>2. id \in SampleIds => Flags[id] \in FlagBytes
    BY ControlAssumption
  <2> QED BY <2>1, <2>2 DEF FlagsOf
<1>2. ControlInv /\ RejectSample => MaskPriority(FlagsOf(request)) < MaskPriority(FlagsOf(active))
  <2> SUFFICES ASSUME ControlInv, RejectSample
      PROVE  MaskPriority(FlagsOf(request)) < MaskPriority(FlagsOf(active))
    OBVIOUS
  <2>1. pc = "ProcessCommandInput2" /\ ~Accepts(FlagsOf(active), FlagsOf(request))
    BY DEF RejectSample
  <2>2. active \in SampleIds /\ Playable(Flags[active])
    BY <2>1 DEF ControlInv, StackInv, LoopInv
  <2>3. CASE request \in SampleIds /\ Playable(Flags[request])
    <3>1. FlagsOf(request) % 16 # 0
      BY <2>3, Typed DEF FlagsOf, Typed
    <3> QED BY <1>1, <2>1, <3>1, Comparison
  <2>4. CASE ~(request \in SampleIds /\ Playable(Flags[request]))
    <3>1. ~Playable(FlagsOf(request)) /\ Playable(FlagsOf(active))
      BY <2>2, <2>4 DEF FlagsOf, Playable
    <3> QED BY <1>1, <3>1, Comparison
  <2> QED BY <2>3, <2>4
<1>3. ControlInv /\ [Next]_vars =>
        [RejectSample => MaskPriority(FlagsOf(request)) < MaskPriority(FlagsOf(active))]_vars
  BY <1>2
<1> QED BY ControlInvariance, <1>3, PTL DEF Spec, RefusesLowerOnly

-----------------------------------------------------------------------------
(* The refinement of Playback.                                             *)

\* The flags mean the same in both modules.
LEMMA SameFlags ==
    /\ \A flags : Player!MaskPriority(flags) = MaskPriority(flags)
    /\ \A flags : Player!LoopOf(flags) = LoopOf(flags)
BY DEF Player!MaskPriority, MaskPriority, Player!LoopOf, LoopOf, Player!MaskType, MaskType

\* What Playback sees of the driver.
LEMMA PlayerStates ==
    /\ pc = "InitDriver" => PlayerMode = "Starting" /\ PlayerLoop = "None"
    /\ pc # "InitDriver" =>
         /\ loopId = "LOOP_CALIBRATION" => PlayerMode = "Starting" /\ PlayerLoop = "None"
         /\ loopId = "LOOP_IDLE" => PlayerMode = "Idle" /\ PlayerLoop = "None"
         /\ loopId = "LOOP_PAUSE" /\ loopIdCopy \in PlaybackLoops =>
              PlayerMode = "Paused" /\ PlayerLoop = loopIdCopy
         /\ loopId \in PlaybackLoops => PlayerMode = "Playing" /\ PlayerLoop = loopId
BY DEF PlayerMode, PlayerLoop, CurrentLoop, PlaybackLoops

\* Every action either changes nothing that Playback sees, or is one of its own.
LEMMA PlayerStep == ControlInv /\ ControlInv' /\ [Next]_vars => [Player!Next]_Player!playbackVars
<1> SUFFICES ASSUME ControlInv, ControlInv', [Next]_vars
    PROVE  Player!Next \/ UNCHANGED <<PlayerMode, active, PlayerLoop>>
  BY DEF Player!playbackVars
<1>1. ASSUME pc # "InitDriver", pc' # "InitDriver", UNCHANGED <<loopId, loopIdCopy, active>>
      PROVE  UNCHANGED <<PlayerMode, active, PlayerLoop>>
  BY <1>1 DEF PlayerMode, PlayerLoop, CurrentLoop
<1>2. ASSUME pc # "InitDriver"
      PROVE  PlaceInv /\ LoopInv /\ RequestInv
  BY <1>2 DEF ControlInv
<1>3. CASE InitDriver
  <2>1. PlayerMode' = "Starting" /\ PlayerLoop' = "None" /\ active' = 0
    BY <1>3 DEF InitDriver, Install, PlayerMode, PlayerLoop, CurrentLoop, PlaybackLoops
  <2> QED BY <2>1 DEF Player!Next, Player!Restart
<1>4. CASE LoadDriver
  <2>1. PlayerMode' = "Starting" /\ PlayerLoop' = "None" /\ active' = active
    BY <1>4 DEF LoadDriver, PlayerMode, PlayerLoop
  <2> QED BY <2>1 DEF Player!Next, Player!Restart
<1>5. CASE IdleLoop
  <2>1. /\ PlayerMode' = "Idle" /\ PlayerLoop' = "None" /\ active' = active
        /\ pc = "IdleLoop" /\ loopId' = "LOOP_IDLE" /\ pc' = "IdleWait"
        /\ loopIdCopy' = loopIdCopy
    BY <1>5 DEF IdleLoop, Install, PlayerMode, PlayerLoop, CurrentLoop, PlaybackLoops
  <2>2. PlaceInv /\ LoopInv
    BY <1>2, <2>1
  <2>3. CASE loopId = "LOOP_CALIBRATION"
    <3>1. PlayerMode = "Starting" /\ PlayerLoop = "None"
      BY <2>1, <2>3, PlayerStates
    <3> QED BY <2>1, <3>1 DEF Player!Next, Player!Started
  <2>4. CASE loopId = "LOOP_IDLE"
    BY <1>1, <2>1, <2>4
  <2>5. CASE loopId \in {"LOOP_PAUSE"} \cup PlaybackLoops
    <3>1. PlayerMode \in {"Playing", "Paused"}
      BY <2>1, <2>2, <2>5, PlayerStates DEF LoopInv
    <3> QED BY <2>1, <3>1 DEF Player!Next, Player!Silence
  <2> QED BY <2>1, <2>2, <2>3, <2>4, <2>5 DEF PlaceInv
<1>6. CASE EnterPlaybackLoop
  <2>1. CASE LoopOf(FlagsOf(request)) = "None"
    <3>1. /\ pc # "InitDriver" /\ pc' # "InitDriver"
          /\ UNCHANGED <<loopId, loopIdCopy, active>>
      BY <1>6, <2>1 DEF EnterPlaybackLoop
    <3> QED BY <1>1, <3>1
  <2>2. CASE LoopOf(FlagsOf(request)) # "None"
    <3>1. /\ request \in SampleIds /\ FlagsOf(request) = Flags[request]
          /\ LoopOf(Flags[request]) \in PlaybackLoops
      BY <2>2, LoopsOfSlots
    <3>2. /\ pc = "EnterPlaybackLoop" /\ pc' = "Playing" /\ active' = request
          /\ loopId' = LoopOf(Flags[request])
      BY <1>6, <2>2, <3>1 DEF EnterPlaybackLoop, Install
    <3>3. PlayerMode' = "Playing" /\ PlayerLoop' = LoopOf(Flags[request])
      BY <3>1, <3>2 DEF PlayerMode, PlayerLoop, CurrentLoop, PlaybackLoops
    <3>4. /\ PlaceInv /\ LoopInv
          /\ loopId # "LOOP_IDLE" => Accepts(FlagsOf(active), Flags[request])
      BY <1>2, <3>1, <3>2 DEF RequestInv, RequestPlaces
    <3>5. \/ PlayerMode = "Idle"
          \/ /\ PlayerMode \in {"Playing", "Paused"}
             /\ MaskPriority(Flags[active]) <= MaskPriority(Flags[request])
      <4>1. CASE loopId = "LOOP_IDLE"
        BY <3>2, <4>1, PlayerStates
      <4>2. CASE loopId \in {"LOOP_PAUSE"} \cup PlaybackLoops
        <5>1. PlayerMode \in {"Playing", "Paused"} /\ active \in SampleIds
          BY <3>2, <3>4, <4>2, PlayerStates DEF LoopInv
        <5>2. Flags[active] \in FlagBytes /\ Flags[request] \in FlagBytes
          BY <3>1, <5>1, ControlAssumption
        <5>3. Accepts(Flags[active], Flags[request])
          BY <3>4, <4>2, <5>1 DEF FlagsOf, PlaybackLoops
        <5> QED BY <5>1, <5>2, <5>3, Comparison
      <4> QED BY <3>2, <3>4, <4>1, <4>2 DEF PlaceInv, RequestPlaces
    <3>6. \/ PlayerMode = "Idle"
          \/ /\ PlayerMode \in {"Playing", "Paused"}
             /\ Player!MaskPriority(Flags[request]) >= Player!MaskPriority(Flags[active])
      <4>1. CASE PlayerMode = "Idle"
        BY <4>1
      <4>2. CASE PlayerMode # "Idle"
        <5>1. Flags[active] \in Int /\ Flags[request] \in Int
          <6>1. active \in SampleIds
            BY <3>2, <3>4, <4>2, PlayerStates DEF PlaceInv, LoopInv, RequestPlaces
          <6> QED BY <3>1, <6>1, ControlAssumption DEF FlagBytes
        <5>2. MaskPriority(Flags[active]) \in Int /\ MaskPriority(Flags[request]) \in Int
          BY <5>1 DEF MaskPriority
        <5> QED BY <3>5, <4>2, <5>2, SameFlags
      <4> QED BY <4>1, <4>2
    <3>7. Player!Play(request)
      BY <2>2, <3>1, <3>2, <3>3, <3>6, SameFlags DEF Player!Play
    <3> QED BY <3>1, <3>7 DEF Player!Next
  <2> QED BY <2>1, <2>2
<1>7. CASE PausePlayback
  <2>1. /\ pc = "ProcessCommandInput2" /\ pc' = "PauseWait" /\ ~IsSample(request)
        /\ loopIdCopy' = loopId /\ loopId' = "LOOP_PAUSE" /\ active' = active
    BY <1>7 DEF PausePlayback, Install, IsSample, COMMAND_PAUSE
  <2>2. loopId \in PlaybackLoops
    BY <2>1 DEF ControlInv, StackInv
  <2>3. PlayerMode = "Playing" /\ PlayerLoop = loopId
    BY <2>1, <2>2, PlayerStates
  <2>4. PlayerMode' = "Paused" /\ PlayerLoop' = loopId
    BY <2>1, <2>2 DEF PlayerMode, PlayerLoop, CurrentLoop, PlaybackLoops
  <2> QED BY <2>1, <2>3, <2>4 DEF Player!Next, Player!Pause
<1>8. CASE Unpause
  <2>1. /\ pc = "PauseLoop_VBlank" /\ loopId' = loopIdCopy /\ active' = active
        /\ pc' \in {"PauseReturn"}
    <3>1. PICK p \in PlaybackPlaces : stack = InPauseVBlank(p)
      BY <1>8 DEF Unpause, ControlInv, StackInv, PausePlaces
    <3> QED BY <1>8, <3>1, HandlerStacks DEF Unpause
  <2>2. loopId = "LOOP_PAUSE" /\ loopIdCopy \in PlaybackLoops
    BY <1>2, <2>1 DEF PlaceInv, LoopInv, PausePlaces
  <2>3. PlayerMode = "Paused" /\ PlayerLoop = loopIdCopy
    BY <2>1, <2>2, PlayerStates
  <2>4. PlayerMode' = "Playing" /\ PlayerLoop' = loopIdCopy
    BY <2>1, <2>2 DEF PlayerMode, PlayerLoop, CurrentLoop, PlaybackLoops
  <2> QED BY <2>1, <2>3, <2>4 DEF Player!Next, Player!Unpause
<1>9. CASE WriteCommand \/ DriverLoaded \/ EnsureYMWriteReady \/ YMWriteReady
  <2>1. UNCHANGED <<pc, loopId, loopIdCopy, active>>
    BY <1>9 DEF WriteCommand, DriverLoaded, EnsureYMWriteReady, YMWriteReady, cpu, loops
  <2> QED BY <2>1 DEF PlayerMode, PlayerLoop, CurrentLoop
<1>10. ASSUME UNCHANGED <<loopId, loopIdCopy, active>>, pc # "InitDriver"
       PROVE  Player!Next \/ UNCHANGED <<PlayerMode, active, PlayerLoop>>
  <2>1. CASE pc' = "InitDriver"
    <3>1. PlayerMode' = "Starting" /\ PlayerLoop' = "None" /\ active' = active
      BY <1>10, <2>1 DEF PlayerMode, PlayerLoop
    <3> QED BY <3>1 DEF Player!Next, Player!Restart
  <2>2. CASE pc' # "InitDriver"
    BY <1>1, <1>10, <2>2
  <2> QED BY <2>1, <2>2
<1>11. CASE CalibrationVBlank \/ InitReturn \/ IdleVBlank \/ Scratching \/ SampleEnds
  BY <1>10, <1>11
     DEF CalibrationVBlank, InitReturn, IdleVBlank, Scratching, SaveScratch, RestoreScratch,
         SampleEnds, loops
<1>12. CASE RequestSamplePlayback \/ PlaySample \/ PlaySampleSetup \/ Stopping
  BY <1>10, <1>12
     DEF RequestSamplePlayback, PlaySample, PlaySampleSetup, Stopping, StopSamplePlayback,
         DisableDAC, DisableDACWrite, loops
<1>13. CASE PlaybackVBlank \/ ProcessCommandInput \/ AcceptSample \/ RejectSample
            \/ StopCommand \/ UnknownCommand \/ VBlankReturn
  <2>1. UNCHANGED <<loopId, loopIdCopy, active>> /\ pc # "InitDriver"
    BY <1>13, RoutineNames
       DEF PlaybackVBlank, ProcessCommandInput, AcceptSample, RejectSample, StopCommand,
           UnknownCommand, VBlankReturn, loops
  <2> QED BY <1>10, <2>1
<1>14. CASE PauseReturn \/ StayPaused \/ StopWhilePaused \/ SampleWhilePaused \/ PauseRestore
            \/ UnknownWhilePaused \/ ResetWhilePaused
  BY <1>10, <1>14
     DEF PauseReturn, StayPaused, StopWhilePaused, SampleWhilePaused, PauseRestore,
         UnknownWhilePaused, ResetWhilePaused, loops
<1>15. CASE Interrupt
  BY <1>10, <1>15 DEF Interrupt, ControlInv, IffInv, MainPlaces, loops
<1>16. CASE UNCHANGED vars
  BY <1>16 DEF vars, cpu, loops, PlayerMode, PlayerLoop, CurrentLoop
<1> QED
  BY <1>3, <1>4, <1>5, <1>6, <1>7, <1>8, <1>9, <1>11, <1>12, <1>13, <1>14, <1>15, <1>16
     DEF Next, Z80, StartUp, Idling, Starting, Handling, Pausing, M68k

\* The driver plays one sample at a time, by priority, and a pause resumes what
\* it interrupted.
THEOREM PlaybackByPriority == Spec => PlaysByPriority
<1>1. Init => Player!Init
  BY DEF Init, Player!Init, PlayerMode, PlayerLoop
<1> QED BY ControlInvariance, <1>1, PlayerStep, PTL DEF Spec, PlaysByPriority, Player!Spec

-----------------------------------------------------------------------------
(* The mailbox, with its history.                                          *)

\* What the history adds to a step does not change it.
LEMMA StepsAreSteps == [NextH]_varsH => [Next]_vars
BY DEF NextH, WriteCommandH, LoadDriverH, NothingWritten, varsH, Next, M68k

LEMMA HistoryIsSpec == SpecH => Spec
<1>1. InitH => Init
  BY DEF InitH
<1> QED BY StepsAreSteps, <1>1, PTL DEF SpecH, Spec

\* What is in the mailbox at each place that may still write over it.
KeepInv ==
    /\ pc \in {"ProcessCommandInput2", "UnknownWhilePaused", "StopSamplePlayback"}
             \cup RequestPlaces
         => request # NoCommand
    /\ ~crowded =>
         /\ pc \in {"ProcessCommandInput2", "UnknownWhilePaused", "RequestSamplePlayback",
                    "PauseRestore"}
              => commandInput = request
         /\ pc \in {"PlaySample", "PlaySampleSetup", "EnterPlaybackLoop"}
              => commandInput = NoCommand
         /\ pc = "StopSamplePlayback" => commandInput \in {request, NoCommand}

KeepPlaces ==
    {"ProcessCommandInput2", "UnknownWhilePaused", "PauseRestore", "StopSamplePlayback"}
      \cup RequestPlaces

\* A step that writes no command.
LEMMA KeepStep ==
    ASSUME ControlInv, ControlInv', KeepInv, NothingWritten
    PROVE  KeepInv'
<1> USE DEF KeepPlaces, RequestPlaces
<1>0. crowded' = crowded
  BY DEF NothingWritten, history
<1>1. ASSUME pc' \notin KeepPlaces PROVE KeepInv'
  BY <1>1 DEF KeepInv
<1>2. CASE InitDriver \/ CalibrationVBlank \/ InitReturn
  <2>1. pc' \notin KeepPlaces
    <3>1. CASE InitDriver \/ InitReturn
      BY <3>1 DEF InitDriver, InitReturn
    <3>2. CASE CalibrationVBlank
      <4>1. PICK p \in {"CalibrationWait", "BenchmarkReads"} : stack = <<"InitReturn", p>>
        BY <3>2 DEF CalibrationVBlank, ControlInv, StackInv
      <4> QED BY <3>2, <4>1, MainStacks DEF CalibrationVBlank
    <3> QED BY <1>2, <3>1, <3>2
  <2> QED BY <1>1, <2>1
<1>3. CASE IdleLoop \/ DisableDAC \/ DisableDACWrite \/ Scratching \/ SampleEnds
  <2>1. pc' \notin KeepPlaces
    BY <1>3, Stacks, MainStacks
       DEF IdleLoop, DisableDAC, DisableDACWrite, Scratching, SaveScratch, RestoreScratch,
           SampleEnds, Return, ControlInv, StackInv, MainPlaces
  <2> QED BY <1>1, <2>1
<1>4. CASE IdleVBlank
  <2>1. stack = <<"IdleWait">>
    BY <1>4 DEF IdleVBlank, ControlInv, StackInv
  <2>2. CASE IsSample(commandInput)
    <3>1. pc' = "RequestSamplePlayback" /\ request' = commandInput
          /\ commandInput' = commandInput /\ commandInput # NoCommand
      BY <1>4, <2>2 DEF IdleVBlank, IsSample, NoCommand
    <3> QED BY <3>1 DEF KeepInv
  <2>3. CASE ~IsSample(commandInput)
    <3>1. pc' = "IdleWait"
      BY <1>4, <2>1, <2>3, MainStacks DEF IdleVBlank, Return
    <3> QED BY <1>1, <3>1
  <2> QED BY <2>2, <2>3
<1>5. CASE Starting
  BY <1>0, <1>5
     DEF Starting, RequestSamplePlayback, PlaySample, PlaySampleSetup, EnterPlaybackLoop,
         KeepInv, mailbox
<1>6. CASE StopSamplePlayback
  BY <1>1, <1>6 DEF StopSamplePlayback
<1>7. CASE PlaybackVBlank \/ VBlankReturn \/ PauseReturn \/ StayPaused \/ PauseRestore
           \/ ResetWhilePaused \/ Unpause
  <2>1. CASE PlaybackVBlank
    BY <1>1, <2>1 DEF PlaybackVBlank
  <2>2. CASE VBlankReturn
    <3>1. PICK p \in PlaybackPlaces : stack = InHandler(p)
      BY <2>2 DEF VBlankReturn, ControlInv, StackInv
    <3>2. pc' = p
      BY <2>2, <3>1, HandlerStacks DEF VBlankReturn
    <3> QED BY <1>1, <3>2 DEF PlaybackPlaces
  <2>3. CASE PauseReturn
    <3>1. PICK p \in PlaybackPlaces : stack = InCall(p)
      BY <2>3 DEF PauseReturn, ControlInv, StackInv
    <3>2. pc' = "VBlankReturn"
      BY <2>3, <3>1, HandlerStacks DEF PauseReturn, Return
    <3> QED BY <1>1, <3>2
  <2>4. CASE StayPaused \/ PauseRestore \/ ResetWhilePaused \/ Unpause
    <3>1. PICK p \in PlaybackPlaces : stack = InPauseVBlank(p)
      BY <2>4
         DEF StayPaused, PauseRestore, ResetWhilePaused, Unpause, ControlInv, StackInv,
             PausePlaces
    <3>2. pc' \in {"PauseWait", "PauseReturn"}
      BY <2>4, <3>1, HandlerStacks
         DEF StayPaused, PauseRestore, ResetWhilePaused, Unpause, Return
    <3> QED BY <1>1, <3>2
  <2> QED BY <1>7, <2>1, <2>2, <2>3, <2>4
<1>8. CASE ProcessCommandInput
  <2>1. PICK p \in PlaybackPlaces : stack = InCall(p)
    BY <1>8 DEF ProcessCommandInput, ControlInv, StackInv
  <2>2. \/ pc' = "VBlankReturn"
        \/ /\ pc' = "ProcessCommandInput2" /\ request' = commandInput
           /\ commandInput' = commandInput /\ commandInput # NoCommand
    BY <1>8, <2>1, HandlerStacks DEF ProcessCommandInput, Return
  <2> QED BY <1>1, <2>2 DEF KeepInv
<1>9. CASE RejectSample \/ UnknownCommand
  <2>1. PICK p \in PlaybackPlaces : stack = InCall(p) \/ stack = InPauseCall(p)
    BY <1>9 DEF RejectSample, UnknownCommand, ControlInv, StackInv
  <2>2. pc' \in {"VBlankReturn", "PauseRestore"} /\ commandInput' = request'
    BY <1>9, <2>1, HandlerStacks DEF RejectSample, UnknownCommand, Return
  <2> QED BY <2>2 DEF KeepInv
<1>10. CASE AcceptSample \/ StopCommand
  BY <1>0, <1>10 DEF AcceptSample, StopCommand, KeepInv, mailbox
<1>11. CASE PausePlayback
  BY <1>1, <1>11 DEF PausePlayback
<1>12. CASE StopWhilePaused \/ SampleWhilePaused \/ UnknownWhilePaused
  <2>1. /\ commandInput # NoCommand /\ commandInput' = commandInput
        /\ request' = commandInput
        /\ pc' \in {"StopSamplePlayback", "ProcessCommandInput2", "UnknownWhilePaused"}
    BY <1>12
       DEF StopWhilePaused, SampleWhilePaused, UnknownWhilePaused, NoCommand, COMMAND_STOP,
           IsSample
  <2> QED BY <2>1 DEF KeepInv
<1>13. CASE Interrupt
  <2>1. pc' \in Routines
    BY <1>13 DEF Interrupt, ControlInv, TypeOK
  <2> QED BY <1>1, <2>1, RoutineNames
<1>14. CASE DriverLoaded \/ EnsureYMWriteReady \/ YMWriteReady
  <2>1. UNCHANGED <<pc, commandInput, request>>
    BY <1>14 DEF DriverLoaded, EnsureYMWriteReady, YMWriteReady, cpu, mailbox
  <2> QED BY <1>0, <2>1 DEF KeepInv
<1> QED
  BY <1>2, <1>3, <1>4, <1>5, <1>6, <1>7, <1>8, <1>9, <1>10, <1>11, <1>12, <1>13, <1>14
     DEF NothingWritten, Z80, StartUp, Idling, Stopping, Handling, Pausing

LEMMA KeepInvariance == SpecH => []KeepInv
<1>1. InitH => KeepInv
  BY DEF InitH, Init, KeepInv, RequestPlaces
<1>2. ControlInv /\ ControlInv' /\ KeepInv /\ [NextH]_varsH => KeepInv'
  <2> SUFFICES ASSUME ControlInv, ControlInv', KeepInv, [NextH]_varsH PROVE KeepInv'
    OBVIOUS
  <2>1. CASE WriteCommandH
    <3>1. /\ pc' = pc /\ request' = request
          /\ crowded' = (request # NoCommand \/ pc \in {"PauseRestore", "InitDriver"})
      BY <2>1 DEF WriteCommandH, WriteCommand, HasCommandInHand, cpu
    <3> QED BY <3>1 DEF KeepInv, RequestPlaces
  <2>2. CASE LoadDriverH
    <3>1. pc' = "InitDriver"
      BY <2>2 DEF LoadDriverH, LoadDriver
    <3> QED BY <3>1 DEF KeepInv, RequestPlaces
  <2>3. CASE NothingWritten
    BY <2>3, KeepStep
  <2>4. CASE UNCHANGED varsH
    BY <2>4 DEF KeepInv, varsH, vars, history, cpu, mailbox
  <2> QED BY <2>1, <2>2, <2>3, <2>4 DEF NextH
<1> QED BY ControlInvariance, HistoryIsSpec, StepsAreSteps, <1>1, <1>2, PTL DEF SpecH

\* The driver resets the mailbox over a command it has not read only where the
\* 68K stored that command while another was in hand: however often it writes,
\* at whatever instruction of the driver.
THEOREM OnlyCrowdedCommandsAreLost == SpecH => CommandKept
<1>1. ControlInv /\ KeepInv /\ [NextH]_varsH =>
        [Z80 /\ pc # "InitDriver" /\ commandInput' # commandInput
           => commandInput = request \/ crowded]_varsH
  <2> SUFFICES ASSUME KeepInv, Z80, pc # "InitDriver", commandInput' # commandInput, ~crowded
               PROVE  commandInput = request
    OBVIOUS
  <2>1. CASE Handling
    BY <2>1
       DEF Handling, PlaybackVBlank, ProcessCommandInput, AcceptSample, RejectSample,
           StopCommand, PausePlayback, UnknownCommand, VBlankReturn, KeepInv, mailbox
  <2>2. CASE Pausing
    BY <2>2
       DEF Pausing, Unpause, PauseReturn, StayPaused, StopWhilePaused, SampleWhilePaused,
           PauseRestore, UnknownWhilePaused, ResetWhilePaused, KeepInv, mailbox
  <2>3. CASE Starting \/ Stopping
    BY <2>3
       DEF Starting, RequestSamplePlayback, PlaySample, PlaySampleSetup, EnterPlaybackLoop,
           Stopping, StopSamplePlayback, DisableDAC, DisableDACWrite, KeepInv, mailbox
  <2>4. CASE StartUp \/ Idling \/ Scratching
    BY <2>4
       DEF StartUp, InitDriver, CalibrationVBlank, InitReturn, Idling, IdleLoop, IdleVBlank,
           Scratching, SaveScratch, RestoreScratch, mailbox
  <2> QED BY <2>1, <2>2, <2>3, <2>4 DEF Z80
<1> QED
  BY ControlInvariance, KeepInvariance, HistoryIsSpec, StepsAreSteps, <1>1, PTL DEF SpecH, CommandKept

-----------------------------------------------------------------------------
(* Pauses.                                                                 *)

\* What the 68K wrote last lets a pause end.
MayUnpause == written = NoCommand \/ Unknown(written) \/ crowded

\* While paused the mailbox has the pause command or what the 68K wrote last.
HoldInv ==
    /\ pc \in {"PauseWait", "PauseLoop_VBlank"} =>
         commandInput \in {COMMAND_PAUSE, written} \/ MayUnpause
    /\ pc = "UnknownWhilePaused" => MayUnpause

LEMMA HoldStep ==
    ASSUME ControlInv, ControlInv', KeepInv, HoldInv, NothingWritten
    PROVE  HoldInv'
<1>0. written' = written /\ crowded' = crowded /\ (MayUnpause <=> MayUnpause')
  BY DEF NothingWritten, history, MayUnpause, Unknown
<1>2. ASSUME pc' \notin {"PauseWait", "PauseLoop_VBlank", "UnknownWhilePaused"}
      PROVE  HoldInv'
  BY <1>2 DEF HoldInv
<1>3. CASE Interrupt
  <2>1. pc' = vblankRoutine /\ commandInput' = commandInput /\ iff
    BY <1>3 DEF Interrupt, mailbox
  <2>2. CASE pc = "PauseWait"
    <3>1. loopId = "LOOP_PAUSE" /\ vblankRoutine = RoutineOf(loopId)
      BY <2>2 DEF ControlInv, PlaceInv, LoopInv, PausePlaces
    <3> QED BY <1>0, <2>1, <2>2, <3>1, RoutineNames DEF HoldInv
  <2>3. CASE pc # "PauseWait"
    <3>1. pc \in MainPlaces /\ pc # "InitDriver"
      BY <2>1, <2>3 DEF ControlInv, IffInv, MainPlaces
    <3>2. loopId \in {"LOOP_CALIBRATION", "LOOP_IDLE"} \cup PlaybackLoops
      BY <2>1, <3>1 DEF ControlInv, PlaceInv, MainPlaces, CalibrationPlaces, EndPlaces
    <3>3. vblankRoutine = RoutineOf(loopId)
      BY <3>1 DEF ControlInv, LoopInv
    <3> QED BY <1>2, <2>1, <3>2, <3>3, RoutineNames
  <2> QED BY <2>2, <2>3
<1>4. CASE PausePlayback
  <2>1. pc' = "PauseWait" /\ (commandInput' = COMMAND_PAUSE \/ crowded)
    BY <1>4 DEF PausePlayback, KeepInv
  <2> QED BY <1>0, <2>1 DEF HoldInv, MayUnpause
<1>5. CASE StayPaused \/ PauseRestore \/ PauseReturn
  <2>1. CASE StayPaused \/ PauseRestore
    <3>1. PICK p \in PlaybackPlaces : stack = InPauseVBlank(p)
      BY <2>1 DEF StayPaused, PauseRestore, ControlInv, StackInv, PausePlaces
    <3>2. pc' = "PauseWait" /\ commandInput' = COMMAND_PAUSE
      BY <2>1, <3>1, HandlerStacks DEF StayPaused, PauseRestore, Return, mailbox
    <3> QED BY <3>2 DEF HoldInv
  <2>2. CASE PauseReturn
    <3>1. PICK p \in PlaybackPlaces : stack = InCall(p)
      BY <2>2 DEF PauseReturn, ControlInv, StackInv
    <3>2. pc' = "VBlankReturn"
      BY <2>2, <3>1, HandlerStacks DEF PauseReturn, Return
    <3> QED BY <1>2, <3>2
  <2> QED BY <1>5, <2>1, <2>2
<1>6. CASE UnknownWhilePaused
  <2>1. /\ pc' = "UnknownWhilePaused" /\ pc = "PauseLoop_VBlank"
        /\ Unknown(commandInput) /\ commandInput # COMMAND_PAUSE
    BY <1>6 DEF UnknownWhilePaused, Unknown
  <2>2. MayUnpause
    BY <2>1 DEF HoldInv, MayUnpause
  <2> QED BY <1>0, <2>1, <2>2 DEF HoldInv
<1>7. CASE ResetWhilePaused
  BY <1>0, <1>7 DEF ResetWhilePaused, HoldInv
<1>8. CASE Unpause \/ StopWhilePaused \/ SampleWhilePaused
  <2>1. CASE Unpause
    <3>1. PICK p \in PlaybackPlaces : stack = InPauseVBlank(p)
      BY <2>1 DEF Unpause, ControlInv, StackInv, PausePlaces
    <3>2. pc' = "PauseReturn"
      BY <2>1, <3>1, HandlerStacks DEF Unpause
    <3> QED BY <1>2, <3>2
  <2>2. CASE StopWhilePaused \/ SampleWhilePaused
    BY <1>2, <2>2 DEF StopWhilePaused, SampleWhilePaused
  <2> QED BY <1>8, <2>1, <2>2
<1>9. CASE PlaybackVBlank \/ AcceptSample \/ StopCommand
  BY <1>2, <1>9 DEF PlaybackVBlank, AcceptSample, StopCommand
<1>10. CASE ProcessCommandInput
  <2>1. PICK p \in PlaybackPlaces : stack = InCall(p)
    BY <1>10 DEF ProcessCommandInput, ControlInv, StackInv
  <2>2. pc' \in {"VBlankReturn", "ProcessCommandInput2"}
    BY <1>10, <2>1, HandlerStacks DEF ProcessCommandInput, Return
  <2> QED BY <1>2, <2>2
<1>11. CASE RejectSample \/ UnknownCommand
  <2>1. PICK p \in PlaybackPlaces : stack = InCall(p) \/ stack = InPauseCall(p)
    BY <1>11 DEF RejectSample, UnknownCommand, ControlInv, StackInv
  <2>2. pc' \in {"VBlankReturn", "PauseRestore"}
    BY <1>11, <2>1, HandlerStacks DEF RejectSample, UnknownCommand, Return
  <2> QED BY <1>2, <2>2
<1>12. CASE VBlankReturn
  <2>1. PICK p \in PlaybackPlaces : stack = InHandler(p)
    BY <1>12 DEF VBlankReturn, ControlInv, StackInv
  <2>2. pc' = p
    BY <1>12, <2>1, HandlerStacks DEF VBlankReturn
  <2> QED BY <1>2, <2>2 DEF PlaybackPlaces
<1>13. CASE InitDriver \/ InitReturn \/ CalibrationVBlank
  <2>1. CASE InitDriver \/ InitReturn
    BY <1>2, <2>1 DEF InitDriver, InitReturn
  <2>2. CASE CalibrationVBlank
    <3>1. PICK p \in {"CalibrationWait", "BenchmarkReads"} : stack = <<"InitReturn", p>>
      BY <2>2 DEF CalibrationVBlank, ControlInv, StackInv
    <3> QED BY <1>2, <2>2, <3>1, MainStacks DEF CalibrationVBlank
  <2> QED BY <1>13, <2>1, <2>2
<1>14. CASE Idling
  <2>1. CASE IdleLoop
    BY <1>2, <2>1 DEF IdleLoop
  <2>2. CASE IdleVBlank
    <3>1. stack = <<"IdleWait">>
      BY <2>2 DEF IdleVBlank, ControlInv, StackInv
    <3>2. pc' \in {"IdleWait", "RequestSamplePlayback"}
      BY <2>2, <3>1, MainStacks DEF IdleVBlank, Return
    <3> QED BY <1>2, <3>2
  <2> QED BY <1>14, <2>1, <2>2 DEF Idling
<1>15. CASE Starting \/ Stopping \/ Scratching \/ SampleEnds
  <2>1. pc' \notin {"PauseWait", "PauseLoop_VBlank", "UnknownWhilePaused"}
    BY <1>15, Stacks, MainStacks
       DEF Starting, RequestSamplePlayback, PlaySample, PlaySampleSetup, EnterPlaybackLoop,
           Stopping, StopSamplePlayback, DisableDAC, DisableDACWrite, Scratching, SaveScratch,
           RestoreScratch, SampleEnds, Return, ControlInv, StackInv, MainPlaces
  <2> QED BY <1>2, <2>1
<1>16. CASE DriverLoaded \/ EnsureYMWriteReady \/ YMWriteReady
  <2>1. UNCHANGED <<pc, commandInput>>
    BY <1>16 DEF DriverLoaded, EnsureYMWriteReady, YMWriteReady, cpu, mailbox
  <2> QED BY <1>0, <2>1 DEF HoldInv
<1> QED
  BY <1>3, <1>4, <1>5, <1>6, <1>7, <1>8, <1>9, <1>10, <1>11, <1>12, <1>13, <1>14, <1>15,
     <1>16
     DEF NothingWritten, Z80, StartUp, Handling, Pausing

\* Nothing but the 68K ends a pause: a sample that is refused does not, whatever
\* the priorities, the commands and the instruction they come at.
THEOREM PausesHold == SpecH => PauseHolds
<1>1. InitH => HoldInv
  BY DEF InitH, Init, HoldInv
<1>2. ControlInv /\ ControlInv' /\ KeepInv /\ HoldInv /\ [NextH]_varsH => HoldInv'
  <2> SUFFICES ASSUME ControlInv, ControlInv', KeepInv, HoldInv, [NextH]_varsH PROVE HoldInv'
    OBVIOUS
  <2>1. CASE WriteCommandH
    <3>1. /\ pc' = pc /\ commandInput' = written'
          /\ request # NoCommand => crowded'
      BY <2>1 DEF WriteCommandH, WriteCommand, HasCommandInHand, cpu
    <3>2. pc = "UnknownWhilePaused" => MayUnpause'
      BY <3>1 DEF KeepInv, MayUnpause
    <3> QED BY <3>1, <3>2 DEF HoldInv
  <2>2. CASE LoadDriverH
    <3>1. pc' = "InitDriver"
      BY <2>2 DEF LoadDriverH, LoadDriver
    <3> QED BY <3>1 DEF HoldInv
  <2>3. CASE NothingWritten
    BY <2>3, HoldStep
  <2>4. CASE UNCHANGED varsH
    BY <2>4 DEF HoldInv, MayUnpause, Unknown, varsH, vars, history, cpu, mailbox
  <2> QED BY <2>1, <2>2, <2>3, <2>4 DEF NextH
<1>3. HoldInv /\ [NextH]_varsH =>
        [Unpause => written = NoCommand \/ Unknown(written) \/ crowded]_varsH
  <2> SUFFICES ASSUME HoldInv, Unpause PROVE MayUnpause
    BY DEF MayUnpause
  <2> QED BY DEF HoldInv, Unpause, MayUnpause, COMMAND_PAUSE, NoCommand
<1> QED
  BY ControlInvariance, KeepInvariance, HistoryIsSpec, StepsAreSteps, <1>1, <1>2, <1>3, PTL
     DEF SpecH, PauseHolds
=============================================================================
