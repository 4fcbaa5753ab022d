--------------------------- MODULE DriverControl ---------------------------
(***************************************************************************)
(* Control of the Z80 driver: which loop runs, what the VBlank interrupt   *)
(* does in it, what is on the stack, and the one-byte mailbox through      *)
(* which the 68K asks for samples, stops and pauses.                       *)
(*                                                                         *)
(* The stack matters because the driver jumps out of handlers by resetting *)
(* it, and pauses by calling, from inside a handler, a loop with a handler *)
(* of its own.  A stack entry is a place of the program (a return address) *)
(* or the name of a register pair.  A step ends where the 68K's accesses   *)
(* or an interrupt could tell: at a read of CommandInput, a write of it or *)
(* of DriverReady, an ei, a transfer of control.                           *)
(*                                                                         *)
(* Abstracted: what the playback loops do to the buffer (PcmLoop has it),  *)
(* their own pushes and calls (one "Scratch" word), panning, the YM writes *)
(* and how a handler spends its time.                                      *)
(***************************************************************************)
EXTENDS SampleFlags, SequencesExt

CONSTANTS
    SampleIds,      \* slots of the sample table the 68K may ask for
    Flags,          \* flags byte of each
    Commands,       \* bytes the 68K writes to CommandInput
    Reloads         \* may the 68K load the driver again?

COMMAND_STOP == 1
COMMAND_PAUSE == 2
NoCommand == 0
IsSample(c) == c >= 128

ASSUME ControlAssumption ==
    /\ SampleIds \subseteq 128 .. 255
    /\ Flags \in [SampleIds -> FlagBytes]
    /\ Commands \subseteq (0 .. 127) \cup SampleIds
    /\ Reloads \in BOOLEAN

VARIABLES
    pc,                 \* the place the Z80 is about to execute
    iff,                \* interrupts enabled
    stack,              \* its top is the last element
    loopId,
    loopIdCopy,
    vblankRoutine,      \* operand of the jump at 38h
    vblankRoutineCopy,
    vblankActive,
    driverReady,        \* DriverReady = 'R'
    lastError,          \* LastErrorCode is ERROR__UNKNOWN_COMMAND
    commandInput,       \* the mailbox, operand of the load at 0000h
    request,            \* a command read and not dealt with yet
    active,             \* id of the sample in ActiveSample, 0 if none
    frame,              \* c' of the calibration loop
    m68k                \* "Loading", "Running" or "Waiting"

cpu == <<pc, iff, stack>>
loops == <<loopId, loopIdCopy, vblankRoutine, vblankRoutineCopy>>
mailbox == <<commandInput, request>>
status == <<vblankActive, driverReady, lastError>>
vars == <<cpu, loops, mailbox, status, active, frame, m68k>>

FlagsOf(id) == IF id \in SampleIds THEN Flags[id] ELSE 0

\* The VBlank handler each loop installs; DPCM-HQ shares those of DPCM.
RoutineOf(loop) ==
    CASE loop = "LOOP_CALIBRATION" -> "CalibrationLoop_VBlank"
      [] loop = "LOOP_IDLE"        -> "IdleLoop_VBlank"
      [] loop = "LOOP_PAUSE"       -> "PauseLoop_VBlank"
      [] loop = "LOOP_PCM"         -> "PCMLoop_VBlank"
      [] loop = "LOOP_PCM_TURBO"   -> "PCMTurboLoop_VBlank"
      [] loop \in {"LOOP_DPCM", "LOOP_DPCM_HQ"} -> "DPCMLoop_VBlank"
      [] loop \in {"LOOP_DPCM_TURBO", "LOOP_DPCM_HQ_TURBO"} -> "DPCMTurboLoop_VBlank"
      [] OTHER                     -> "VoidInterrupt"

PlaybackRoutines == {RoutineOf(loop) : loop \in PlaybackLoops}

Install(loop) == loopId' = loop /\ vblankRoutine' = RoutineOf(loop)

\* What is at CommandInput when the driver is loaded: an opcode of Driver_Start.
EntryByte == 237

Push(word) == stack' = Append(stack, word)

\* ret
Return == pc' = Last(stack) /\ stack' = Front(stack)

Init ==
    /\ pc = "InitDriver" /\ iff = FALSE /\ stack = <<>>
    /\ loopId = "None" /\ loopIdCopy = "None"
    /\ vblankRoutine = "VoidInterrupt" /\ vblankRoutineCopy = "VoidInterrupt"
    /\ vblankActive = FALSE /\ driverReady \in BOOLEAN /\ lastError = FALSE
    /\ commandInput = EntryByte /\ request = NoCommand
    /\ active = 0 /\ frame = 0 /\ m68k = "Loading"

-----------------------------------------------------------------------------
(* Start-up (init.asm, loop-calibration.asm).                              *)

\* Clears the work RAM, patches address 0000h, calls CalibrationLoop.
InitDriver ==
    /\ pc = "InitDriver"
    /\ pc' = "CalibrationWait" /\ iff' = TRUE /\ stack' = <<"InitReturn">>
    /\ Install("LOOP_CALIBRATION")
    /\ loopIdCopy' = "None" /\ vblankRoutineCopy' = "VoidInterrupt"
    /\ vblankActive' = FALSE /\ driverReady' = FALSE /\ lastError' = FALSE
    /\ commandInput' = NoCommand /\ request' = NoCommand
    /\ active' = 0 /\ frame' = 0
    /\ UNCHANGED m68k

\* Frames 0 and 1 drop the return address and start a benchmark; frame 2
\* drops it and returns to the caller of CalibrationLoop.
CalibrationVBlank ==
    /\ pc = "CalibrationLoop_VBlank"
    /\ IF frame < 2
         THEN /\ pc' = "BenchmarkReads" /\ stack' = Front(stack) /\ iff' = TRUE
         ELSE /\ pc' = Last(Front(stack)) /\ stack' = Front(Front(stack))
              /\ UNCHANGED iff
    /\ frame' = frame + 1
    /\ UNCHANGED <<loops, mailbox, status, active, m68k>>

InitReturn ==
    /\ pc = "InitReturn"
    /\ driverReady' = TRUE
    /\ pc' = "IdleLoop"
    /\ UNCHANGED <<iff, stack, loops, mailbox, vblankActive, lastError, active, frame, m68k>>

-----------------------------------------------------------------------------
(* Interrupts and the idle loop (megapcm.asm, loop-idle.asm).              *)

\* Interrupt mode 1: the CPU disables interrupts and calls 38h, which jumps to
\* the routine of the loop.
Interrupt ==
    /\ iff
    /\ iff' = FALSE /\ Push(pc) /\ pc' = vblankRoutine
    /\ UNCHANGED <<loops, mailbox, status, active, frame, m68k>>

IdleLoop ==
    /\ pc = "IdleLoop"
    /\ Install("LOOP_IDLE")
    /\ iff' = TRUE /\ pc' = "IdleWait"
    /\ UNCHANGED <<stack, loopIdCopy, vblankRoutineCopy, mailbox, status, active, frame, m68k>>

\* (mutant) the idle loop clears the commands it does not take.
IdleVBlankClearing ==
    /\ pc = "IdleLoop_VBlank"
    /\ IF IsSample(commandInput)
         THEN /\ request' = commandInput
              /\ pc' = "RequestSamplePlayback"
              /\ UNCHANGED <<iff, stack, commandInput>>
         ELSE Return /\ iff' = TRUE /\ commandInput' = NoCommand /\ UNCHANGED request
    /\ UNCHANGED <<loops, status, active, frame, m68k>>

\* The idle loop takes samples only; any other command stays in the mailbox.
IdleVBlank ==
    /\ pc = "IdleLoop_VBlank"
    /\ IF IsSample(commandInput)
         THEN /\ request' = commandInput
              /\ pc' = "RequestSamplePlayback"
              /\ UNCHANGED <<iff, stack>>
         ELSE Return /\ iff' = TRUE /\ UNCHANGED request
    /\ UNCHANGED <<loops, commandInput, status, active, frame, m68k>>

-----------------------------------------------------------------------------
(* Starting and stopping playback (play-sample.asm).                       *)

\* RequestSamplePlayback2_NR: nothing of the interrupted program is kept.
RequestSamplePlayback ==
    /\ pc = "RequestSamplePlayback"
    /\ commandInput' = NoCommand
    /\ stack' = <<"IdleLoop">> /\ pc' = "PlaySample"
    /\ UNCHANGED <<iff, loops, request, status, active, frame, m68k>>

\* Up to the first write to the YM; a slot that is no sample stops playback.
PlaySample ==
    /\ pc = "PlaySample"
    /\ IF Playable(FlagsOf(request))
         THEN pc' = "PlaySampleSetup" /\ driverReady' = FALSE
         ELSE pc' = "StopSamplePlayback" /\ UNCHANGED driverReady
    /\ UNCHANGED <<iff, stack, loops, mailbox, vblankActive, lastError, active, frame, m68k>>

PlaySampleSetup ==
    /\ pc = "PlaySampleSetup"
    /\ driverReady' = TRUE
    /\ pc' = "EnterPlaybackLoop" /\ Push("DisableDAC")
    /\ UNCHANGED <<iff, loops, mailbox, vblankActive, lastError, active, frame, m68k>>

\* The jump through LoopTable, and the loop up to its first ei.
EnterPlaybackLoop ==
    /\ pc = "EnterPlaybackLoop"
    /\ LET loop == LoopOf(FlagsOf(request)) IN
         IF loop # "None"
           THEN /\ Install(loop) /\ active' = request /\ request' = NoCommand
                /\ iff' = TRUE /\ pc' = "Playing"
           ELSE /\ pc' = "StopSamplePlayback"
                /\ UNCHANGED <<iff, loopId, vblankRoutine, request, active>>
    /\ UNCHANGED <<stack, loopIdCopy, vblankRoutineCopy, commandInput, status, frame, m68k>>

\* (mutant) the stack of the interrupted program is kept.
StopKeepingStack ==
    /\ pc = "StopSamplePlayback"
    /\ commandInput' = NoCommand /\ request' = NoCommand
    /\ Push("IdleLoop") /\ pc' = "DisableDAC"
    /\ UNCHANGED <<iff, loops, status, active, frame, m68k>>

\* StopSamplePlayback_NR, always inside a handler.
StopSamplePlayback ==
    /\ pc = "StopSamplePlayback"
    /\ commandInput' = NoCommand /\ request' = NoCommand
    /\ stack' = <<"IdleLoop">> /\ pc' = "DisableDAC"
    /\ UNCHANGED <<iff, loops, status, active, frame, m68k>>

\* A playback loop saves registers or calls SetBank, with interrupts enabled.
SaveScratch ==
    /\ pc = "Playing"
    /\ Push("scratch") /\ pc' = "Scratch"
    /\ UNCHANGED <<iff, loops, mailbox, status, active, frame, m68k>>

RestoreScratch ==
    /\ pc = "Scratch"
    /\ stack' = Front(stack) /\ pc' = "Playing"
    /\ UNCHANGED <<iff, loops, mailbox, status, active, frame, m68k>>

\* The loop has drained its buffer: it enables interrupts and returns.
SampleEnds ==
    /\ pc = "Playing"
    /\ ~Looping(FlagsOf(active))
    /\ Return
    /\ UNCHANGED <<iff, loops, mailbox, status, active, frame, m68k>>

\* Two steps, because the 68K watches DriverReady.
DisableDAC ==
    /\ pc = "DisableDAC"
    /\ driverReady' = FALSE /\ pc' = "DisableDACWrite"
    /\ UNCHANGED <<iff, stack, loops, mailbox, vblankActive, lastError, active, frame, m68k>>

\* (mutant) DriverReady is left cleared.
DisableDACNotReady ==
    /\ pc = "DisableDACWrite"
    /\ Return
    /\ UNCHANGED <<iff, loops, mailbox, status, active, frame, m68k>>

DisableDACWrite ==
    /\ pc = "DisableDACWrite"
    /\ driverReady' = TRUE /\ Return
    /\ UNCHANGED <<iff, loops, mailbox, vblankActive, lastError, active, frame, m68k>>

-----------------------------------------------------------------------------
(* The VBlank handler of the playback loops and ProcessCommandInput.       *)

\* Saves af and bc, plays from the buffer, then calls ProcessCommandInput.
PlaybackVBlank ==
    /\ pc \in PlaybackRoutines
    /\ vblankActive' = TRUE
    /\ stack' = stack \o <<"af", "bc", "VBlankReturn">>
    /\ pc' = "ProcessCommandInput"
    /\ UNCHANGED <<iff, loops, mailbox, driverReady, lastError, active, frame, m68k>>

\* The routine at 0000h; its read is what the rest of the handler acts on.
ProcessCommandInput ==
    /\ pc = "ProcessCommandInput"
    /\ request' = commandInput
    /\ IF commandInput = NoCommand
         THEN Return
         ELSE pc' = "ProcessCommandInput2" /\ UNCHANGED stack
    /\ UNCHANGED <<iff, loops, commandInput, status, active, frame, m68k>>

AcceptSample ==
    /\ pc = "ProcessCommandInput2" /\ IsSample(request)
    /\ Accepts(FlagsOf(active), FlagsOf(request))
    /\ pc' = "RequestSamplePlayback"
    /\ UNCHANGED <<iff, stack, loops, mailbox, status, active, frame, m68k>>

RejectSample ==
    /\ pc = "ProcessCommandInput2" /\ IsSample(request)
    /\ ~Accepts(FlagsOf(active), FlagsOf(request))
    /\ commandInput' = NoCommand /\ request' = NoCommand
    /\ Return
    /\ UNCHANGED <<iff, loops, status, active, frame, m68k>>

StopCommand ==
    /\ pc = "ProcessCommandInput2" /\ request = COMMAND_STOP
    /\ pc' = "StopSamplePlayback"
    /\ UNCHANGED <<iff, stack, loops, mailbox, status, active, frame, m68k>>

UnknownCommand ==
    /\ pc = "ProcessCommandInput2"
    /\ ~IsSample(request) /\ request \notin {COMMAND_STOP, COMMAND_PAUSE}
    /\ lastError' = TRUE
    /\ commandInput' = NoCommand /\ request' = NoCommand
    /\ Return
    /\ UNCHANGED <<iff, loops, vblankActive, driverReady, active, frame, m68k>>

\* (mutant) one of the two saved registers is not popped.
VBlankReturnOnePop ==
    /\ pc = "VBlankReturn"
    /\ vblankActive' = FALSE
    /\ pc' = Last(Front(stack)) /\ stack' = Front(Front(stack))
    /\ iff' = TRUE
    /\ UNCHANGED <<loops, mailbox, driverReady, lastError, active, frame, m68k>>

VBlankReturn ==
    /\ pc = "VBlankReturn"
    /\ vblankActive' = FALSE
    /\ pc' = Last(Front(Front(stack))) /\ stack' = Front(Front(Front(stack)))
    /\ iff' = TRUE
    /\ UNCHANGED <<loops, mailbox, driverReady, lastError, active, frame, m68k>>

-----------------------------------------------------------------------------
(* Pausing (loop-pause.asm): a loop called from inside a playback handler. *)

\* .PausePlayback calls PauseLoop, which swaps in its own VBlank routine.
PausePlayback ==
    /\ pc = "ProcessCommandInput2" /\ request = COMMAND_PAUSE
    /\ Push("PauseReturn")
    /\ loopIdCopy' = loopId /\ vblankRoutineCopy' = vblankRoutine
    /\ Install("LOOP_PAUSE")
    /\ request' = NoCommand
    /\ iff' = TRUE /\ pc' = "PauseWait"
    /\ UNCHANGED <<commandInput, status, active, frame, m68k>>

\* (mutant) the saved loop id is not put back.
UnpauseKeepingLoopId ==
    /\ pc = "PauseLoop_VBlank" /\ commandInput = NoCommand
    /\ vblankRoutine' = vblankRoutineCopy /\ UNCHANGED loopId
    /\ pc' = Last(Front(stack)) /\ stack' = Front(Front(stack))
    /\ UNCHANGED <<iff, loopIdCopy, vblankRoutineCopy, mailbox, status, active, frame, m68k>>

\* .Unpause: back to the interrupted handler, not to the pause loop.
Unpause ==
    /\ pc = "PauseLoop_VBlank" /\ commandInput = NoCommand
    /\ vblankRoutine' = vblankRoutineCopy /\ loopId' = loopIdCopy
    /\ pc' = Last(Front(stack)) /\ stack' = Front(Front(stack))
    /\ UNCHANGED <<iff, loopIdCopy, vblankRoutineCopy, mailbox, status, active, frame, m68k>>

PauseReturn ==
    /\ pc = "PauseReturn" /\ Return
    /\ UNCHANGED <<iff, loops, mailbox, status, active, frame, m68k>>

StayPaused ==
    /\ pc = "PauseLoop_VBlank" /\ commandInput = COMMAND_PAUSE
    /\ Return /\ iff' = TRUE
    /\ UNCHANGED <<loops, mailbox, status, active, frame, m68k>>

\* (mutant) a stop is ignored while paused.
StopKeepsPaused ==
    /\ pc = "PauseLoop_VBlank" /\ commandInput = COMMAND_STOP
    /\ Return /\ iff' = TRUE
    /\ UNCHANGED <<loops, mailbox, status, active, frame, m68k>>

StopWhilePaused ==
    /\ pc = "PauseLoop_VBlank" /\ commandInput = COMMAND_STOP
    /\ request' = commandInput /\ pc' = "StopSamplePlayback"
    /\ UNCHANGED <<iff, stack, loops, commandInput, status, active, frame, m68k>>

\* (mutant) a sample is ignored while paused.
SampleKeepsPaused ==
    /\ pc = "PauseLoop_VBlank" /\ IsSample(commandInput)
    /\ Return /\ iff' = TRUE
    /\ UNCHANGED <<loops, mailbox, status, active, frame, m68k>>

SampleWhilePaused ==
    /\ pc = "PauseLoop_VBlank" /\ IsSample(commandInput)
    /\ request' = commandInput
    /\ pc' = "ProcessCommandInput2" /\ Push("PauseRestore")
    /\ UNCHANGED <<iff, loops, commandInput, status, active, frame, m68k>>

\* (mutant) a refused sample leaves the mailbox as ProcessCommandInput2 left it.
PauseNotRestored ==
    /\ pc = "PauseRestore"
    /\ Return /\ iff' = TRUE
    /\ UNCHANGED <<loops, mailbox, status, active, frame, m68k>>

\* (mutant) interrupts stay disabled.
PauseRestoreDisabled ==
    /\ pc = "PauseRestore"
    /\ commandInput' = COMMAND_PAUSE
    /\ Return
    /\ UNCHANGED <<iff, loops, request, status, active, frame, m68k>>

\* The sample was refused, and the mailbox reset with it: pause again.
PauseRestore ==
    /\ pc = "PauseRestore"
    /\ commandInput' = COMMAND_PAUSE
    /\ Return /\ iff' = TRUE
    /\ UNCHANGED <<loops, request, status, active, frame, m68k>>

UnknownWhilePaused ==
    /\ pc = "PauseLoop_VBlank"
    /\ commandInput \notin {NoCommand, COMMAND_STOP, COMMAND_PAUSE}
    /\ ~IsSample(commandInput)
    /\ request' = commandInput /\ pc' = "UnknownWhilePaused"
    /\ UNCHANGED <<iff, stack, loops, commandInput, status, active, frame, m68k>>

ResetWhilePaused ==
    /\ pc = "UnknownWhilePaused"
    /\ lastError' = TRUE
    /\ commandInput' = NoCommand /\ request' = NoCommand
    /\ Return /\ iff' = TRUE
    /\ UNCHANGED <<loops, vblankActive, driverReady, active, frame, m68k>>

-----------------------------------------------------------------------------
(* The 68K.  It stops the Z80 around each access, so an access is one step *)
(* between two instructions of the Z80.                                    *)

WriteCommand ==
    /\ m68k = "Running"
    /\ commandInput' \in Commands
    /\ UNCHANGED <<cpu, loops, request, status, active, frame, m68k>>

\* MegaPCM_LoadDriver copies the driver and resets the Z80 ...
LoadDriver ==
    /\ Reloads /\ m68k = "Running"
    /\ m68k' = "Loading"
    /\ pc' = "InitDriver" /\ iff' = FALSE
    /\ vblankRoutine' = "VoidInterrupt" /\ commandInput' = EntryByte
    /\ UNCHANGED <<stack, loopId, loopIdCopy, vblankRoutineCopy, request, status, active, frame>>

\* ... and polls DriverReady, which may still be what an earlier driver left in
\* the RAM: nothing but the time the 68K wastes lets InitDriver clear it first.
DriverLoaded ==
    /\ m68k = "Loading"
    /\ driverReady
    /\ m68k' = "Running"
    /\ UNCHANGED <<cpu, loops, mailbox, status, active, frame>>

\* MPCM_ensureYMWriteReady finds the driver busy and spins: the 68K does nothing
\* else, and sends no command, until it is ready.
EnsureYMWriteReady ==
    /\ m68k = "Running" /\ ~driverReady
    /\ m68k' = "Waiting"
    /\ UNCHANGED <<cpu, loops, mailbox, status, active, frame>>

YMWriteReady ==
    /\ m68k = "Waiting" /\ driverReady
    /\ m68k' = "Running"
    /\ UNCHANGED <<cpu, loops, mailbox, status, active, frame>>

-----------------------------------------------------------------------------
StartUp == InitDriver \/ CalibrationVBlank \/ InitReturn

Idling == IdleLoop \/ IdleVBlank

Starting == RequestSamplePlayback \/ PlaySample \/ PlaySampleSetup \/ EnterPlaybackLoop

Scratching == SaveScratch \/ RestoreScratch

Stopping == StopSamplePlayback \/ DisableDAC \/ DisableDACWrite

Handling ==
    \/ PlaybackVBlank \/ ProcessCommandInput \/ AcceptSample \/ RejectSample
    \/ StopCommand \/ PausePlayback \/ UnknownCommand \/ VBlankReturn

Pausing ==
    \/ Unpause \/ PauseReturn \/ StayPaused \/ StopWhilePaused
    \/ SampleWhilePaused \/ PauseRestore \/ UnknownWhilePaused \/ ResetWhilePaused

Z80 == StartUp \/ Idling \/ Starting \/ Scratching \/ Stopping \/ Handling \/ Pausing

M68k == WriteCommand \/ LoadDriver \/ DriverLoaded \/ EnsureYMWriteReady \/ YMWriteReady

Next == Z80 \/ SampleEnds \/ Interrupt \/ M68k

Spec == Init /\ [][Next]_vars

\* What the main program does where interrupts may be enabled.
MainProgram == IdleLoop \/ DisableDAC \/ DisableDACWrite

\* The Z80 runs, also between two VBlanks; a VBlank comes sooner or later where
\* interrupts stay enabled; a 68K that polls DriverReady sees it set.  Nothing
\* makes a sample end (it may be longer than the run) or the 68K send a command.
Fairness ==
    /\ WF_vars(Z80) /\ SF_vars(MainProgram) /\ WF_vars(Interrupt)
    /\ WF_vars(DriverLoaded) /\ WF_vars(YMWriteReady)

FairSpec == Spec /\ Fairness

-----------------------------------------------------------------------------
(* Types.                                                                  *)

LoopIds ==
    {"None", "LOOP_CALIBRATION", "LOOP_IDLE", "LOOP_PAUSE"} \cup PlaybackLoops

Routines == {RoutineOf(loop) : loop \in LoopIds}

\* Where the main program can be, with interrupts enabled, and be interrupted.
MainPlaces ==
    {"CalibrationWait", "BenchmarkReads", "IdleLoop", "IdleWait", "Playing",
     "Scratch", "DisableDAC", "DisableDACWrite"}

OtherPlaces ==
    {"InitDriver", "InitReturn", "RequestSamplePlayback", "PlaySample",
     "PlaySampleSetup", "EnterPlaybackLoop", "StopSamplePlayback",
     "ProcessCommandInput", "ProcessCommandInput2", "VBlankReturn",
     "PauseWait", "PauseReturn", "PauseRestore", "UnknownWhilePaused"}

Places == MainPlaces \cup OtherPlaces \cup Routines

Words == Places \cup {"af", "bc", "scratch"}

\* Every variable stays in its range; in particular no ret goes to a register.
TypeOK ==
    /\ pc \in Places /\ iff \in BOOLEAN /\ stack \in Seq(Words)
    /\ loopId \in LoopIds /\ loopIdCopy \in LoopIds
    /\ vblankRoutine \in Routines /\ vblankRoutineCopy \in Routines
    /\ vblankActive \in BOOLEAN /\ driverReady \in BOOLEAN /\ lastError \in BOOLEAN
    /\ commandInput \in Commands \cup {NoCommand, COMMAND_PAUSE, EntryByte}
    /\ request \in Commands \cup {NoCommand}
    /\ active \in SampleIds \cup {0}
    /\ frame \in 0 .. 3
    /\ m68k \in {"Loading", "Running", "Waiting"}

-----------------------------------------------------------------------------
(* Safety.                                                                 *)

\* What the main program has on the stack at each of its places.
MainStack(place) ==
    CASE place \in {"CalibrationWait", "BenchmarkReads"}  -> <<"InitReturn">>
      [] place = "Playing"                               -> <<"IdleLoop", "DisableDAC">>
      [] place = "Scratch"                     -> <<"IdleLoop", "DisableDAC", "scratch">>
      [] place \in {"DisableDAC", "DisableDACWrite"}      -> <<"IdleLoop">>
      [] OTHER                                           -> <<>>

\* The stack of a playback handler that interrupted the main program.
HandlerStack(place) == Append(MainStack(place), place) \o <<"af", "bc">>

\* Places of a playback handler from ProcessCommandInput on, with what each
\* has on the stack above HandlerStack.
CallStacks ==
    {<<"ProcessCommandInput", <<"VBlankReturn">>>>,
     <<"ProcessCommandInput2", <<"VBlankReturn">>>>,
     <<"VBlankReturn", <<>>>>,
     <<"PauseWait", <<"VBlankReturn", "PauseReturn">>>>,
     <<"PauseReturn", <<"VBlankReturn">>>>,
     <<"PauseLoop_VBlank", <<"VBlankReturn", "PauseReturn", "PauseWait">>>>,
     <<"UnknownWhilePaused", <<"VBlankReturn", "PauseReturn", "PauseWait">>>>,
     <<"PauseRestore", <<"VBlankReturn", "PauseReturn", "PauseWait">>>>,
     <<"ProcessCommandInput2",
       <<"VBlankReturn", "PauseReturn", "PauseWait", "PauseRestore">>>>}

\* Where a playback handler can find the main program.
PlaybackPlaces == {"Playing", "Scratch", "DisableDAC", "DisableDACWrite", "IdleLoop"}

\* The stack is exactly what the place's callers left on it, however long the
\* driver has been playing, pausing and being interrupted: nothing leaks, no
\* handler is entered twice, a pause is never nested in a pause.  (The handlers
\* reset or unwind the stack by hand: play-sample.asm:34 and 143,
\* loop-pause.asm:93, loop-calibration.asm:58.)
StackDiscipline ==
    \/ pc \in MainPlaces /\ stack = MainStack(pc)
    \/ pc \in {"PlaySample", "PlaySampleSetup"} /\ stack = <<"IdleLoop">>
    \/ pc = "EnterPlaybackLoop" /\ stack = <<"IdleLoop", "DisableDAC">>
    \/ pc = "InitReturn" /\ stack = <<>>
    \/ /\ pc = "CalibrationLoop_VBlank"
       /\ stack \in {<<"InitReturn", p>> : p \in {"CalibrationWait", "BenchmarkReads"}}
    \/ pc = "IdleLoop_VBlank" /\ stack = <<"IdleWait">>
    \/ /\ pc \in PlaybackRoutines
       /\ \E p \in PlaybackPlaces : stack = Append(MainStack(p), p)
    \/ \E call \in CallStacks, p \in PlaybackPlaces :
          pc = call[1] /\ stack = HandlerStack(p) \o call[2]
    \* these two reset the stack
    \/ pc \in {"InitDriver", "RequestSamplePlayback", "StopSamplePlayback"}

\* Whenever an interrupt can be taken, it goes to the routine of the loop that
\* LoopId names; while paused the copies name the loop of the active sample and
\* its routine, so that unpausing resumes it.
RoutineMatchesLoop ==
    iff =>
      /\ vblankRoutine = RoutineOf(loopId)
      /\ loopId = "LOOP_PAUSE" => /\ loopIdCopy = LoopOf(FlagsOf(active))
                                  /\ vblankRoutineCopy = RoutineOf(loopIdCopy)

\* Only a sample of lower priority than the one that plays is refused, as
\* docs/Sample_priorities.md:17-18 says; what ProcessCommandInput2 compares is a
\* priority with a whole flags byte.
RefusesLowerOnly ==
    [][RejectSample => MaskPriority(FlagsOf(request)) < MaskPriority(FlagsOf(active))]_vars

\* The loop that runs or is paused.
CurrentLoop == IF loopId = "LOOP_PAUSE" THEN loopIdCopy ELSE loopId

\* What the driver plays, seen from outside.
PlayerMode ==
    IF pc = "InitDriver" \/ loopId \in {"None", "LOOP_CALIBRATION"} THEN "Starting"
    ELSE IF loopId = "LOOP_IDLE" THEN "Idle"
    ELSE IF loopId = "LOOP_PAUSE" THEN "Paused"
    ELSE "Playing"

PlayerLoop == IF pc # "InitDriver" /\ CurrentLoop \in PlaybackLoops THEN CurrentLoop ELSE "None"

Player == INSTANCE Playback WITH mode <- PlayerMode, sample <- active, loop <- PlayerLoop

\* One sample at a time, replaced only by one of the same or a higher priority;
\* a pause resumes what it interrupted: the driver implements Playback.
PlaysByPriority == Player!Spec

-----------------------------------------------------------------------------
(* Liveness, under FairSpec.                                               *)

\* A pause holds no longer than its command stays in the mailbox.
UnpauseObeyed ==
    loopId = "LOOP_PAUSE" /\ commandInput = NoCommand
      ~> loopId # "LOOP_PAUSE" \/ commandInput # NoCommand

\* The 68K does not wait for DriverReady for ever: MegaPCM_LoadDriver returns,
\* and so does MPCM_ensureYMWriteReady, which waits while the driver writes to
\* the YM.
M68kProceeds == m68k # "Running" ~> m68k = "Running"

\* The same but for a pause that began while DriverReady was cleared.
M68kWaitsForPauseOnly ==
    m68k # "Running" ~> m68k = "Running" \/ loopId = "LOOP_PAUSE"
=============================================================================
