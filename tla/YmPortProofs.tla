---------------------------- MODULE YmPortProofs ----------------------------
(***************************************************************************)
(* Proofs about YmPort.  The lock works because every place between the    *)
(* number of a register and its data lies between the clearing of          *)
(* DriverReady and its setting, also if the VBlank handler is entered      *)
(* there: LockInv.  StruckInv adds what a VBlank that strikes DisableDAC    *)
(* can do to the chip.                                                     *)
(***************************************************************************)
EXTENDS YmPort, TLAPS

PlaybackHandler == {"VBlankPlay", "ProcessCommandInput", "Paused", "LastPlay"}

\* Where the main program is.
Main == IF pc \in PlaybackHandler \cup {"IdleVBlank"} THEN resume ELSE pc

\* DriverReady is cleared there.
Busy == {"SelectEnable", "WriteEnable", "SelectPan", "WritePan", "SelectDAC", "Prepared",
         "SelectDisable", "WriteDisable", "SetReady"}

Writing == m68k \in {"ready", "addressed", "written"}

\* A sample is being started.
Starts == {"PlaySample", "SelectEnable", "WriteEnable", "SelectPan", "WritePan", "SelectDAC",
           "Prepared", "EnterPlaybackLoop"}

\* What the handlers know of the place they interrupted.
HandlerInv ==
  /\ pc \in PlaybackHandler => resume \in {"Playing"} \cup Ending /\ routine = "Playback"
  /\ pc = "IdleVBlank" => resume = "IdleWait" /\ routine = "Idle"
  /\ pc = "Playing" \/ (pc \in Ending /\ iff) => routine = "Playback"
  /\ pc = "IdleWait" => routine = "Idle"
  /\ pc \in PlaybackHandler \cup {"IdleVBlank", "StopSamplePlayback"} \cup Starts => ~iff

BusInv ==
  /\ Main \in Busy => ~driverReady
  /\ Writing => driverReady
  /\ m68k = "addressed" => latch = "FM"

\* What is latched when the 68K is not writing.
LatchInv ==
  ~Writing =>
    /\ Main \in {"WriteEnable", "WriteDisable"} => latch = "Enable"
    /\ Main = "WritePan" => latch = "Pan"
    /\ Main \in {"Prepared", "EnterPlaybackLoop", "Playing"} => latch = "DAC"
    /\ pc \in PlaybackHandler \/ (pc \in Ending /\ iff) => latch \in {"DAC", "Enable"}

EnabledPlaces == {"SelectPan", "WritePan", "SelectDAC", "Prepared", "EnterPlaybackLoop", "Playing"}

RegsInv ==
  /\ Main \in EnabledPlaces => regs["Enable"].bit7
  /\ regs["FM"].by \in {"nobody", "m68k"} /\ regs["Pan"].by \in {"nobody", "setup"}

LockInv == TypeOK /\ HandlerInv /\ BusInv /\ LatchInv /\ RegsInv

\* A sample has run out: a handler still finds its routine, and comes to DisableDAC.
RanOut == pc \in PlaybackHandler \/ (pc \in Ending /\ iff)

\* DisableDAC has not yet selected 2Bh.
BeforeSelect == {"DisableDAC", "ClearReady", "SelectDisable"}

StruckInv ==
  /\ pc \in PlaybackHandler => struck = resume
  /\ Main \in EnabledPlaces => regs["Enable"].by = "setup"
  /\ RanOut /\ Main \in BeforeSelect =>
       regs["Enable"].by = "setup" /\ (~Writing => latch = "DAC")
  /\ WritesReachTheirRegisters
  /\ Main \in {"SetReady", "IdleLoop", "IdleWait"} =>
       ~regs["Enable"].bit7 \/ struck \in {"SetReady", "IdleLoop"}

-----------------------------------------------------------------------------
(* The lock.                                                               *)

LEMMA InitLock == Init => LockInv
<1> SUFFICES ASSUME Init PROVE LockInv
  OBVIOUS
<1> USE DEF Init, Starts, Main, Busy, Writing, EnabledPlaces, PlaybackHandler, Places, Ending, Register
<1>1. TypeOK
  <2>1. regs \in [Register -> [by : {"nobody", "playback", "setup", "m68k"}, bit7 : BOOLEAN]]
    OBVIOUS
  <2>2. pc \in Places /\ resume \in Places /\ latch \in Register
    OBVIOUS
  <2> QED BY <2>1, <2>2 DEF TypeOK
<1>2. HandlerInv /\ BusInv
  BY DEF HandlerInv, BusInv
<1>3. LatchInv /\ RegsInv
  BY DEF LatchInv, RegsInv
<1> QED BY <1>1, <1>2, <1>3 DEF LockInv

\* What is stored in a register keeps the types.
LEMMA StoreTypes ==
  ASSUME NEW by \in {"nobody", "playback", "setup", "m68k"}, NEW b \in BOOLEAN,
         NEW from, NEW to \in Places, TypeOK, Store(from, by, b, to)
  PROVE  TypeOK'
<1>1. regs' \in [Register -> [by : {"nobody", "playback", "setup", "m68k"}, bit7 : BOOLEAN]]
  BY DEF TypeOK, Store
<1>2. pc' \in Places /\ UNCHANGED <<m68k, resume, iff, routine, dpcm, struck, driverReady, latch>>
  BY DEF Store, Goto, cpu
<1> QED BY <1>1, <1>2 DEF TypeOK

\* Each step keeps the types.
LEMMA NextType == ASSUME TypeOK, [Next]_vars PROVE TypeOK'
<1> USE DEF TypeOK, Places, Ending
<1>1. CASE PlaySample
  BY <1>1 DEF PlaySample, SetReady, Jump, Goto, cpu, chip
<1>2. CASE EnableDAC
  <2>1. CASE Select("SelectEnable", "Enable", "WriteEnable")
    BY <2>1 DEF Select, Goto, cpu, Register
  <2>2. CASE Store("WriteEnable", "setup", TRUE, "SelectPan")
    BY <2>2, StoreTypes
  <2> QED BY <1>2, <2>1, <2>2 DEF EnableDAC
<1>3. CASE SetPan
  <2>1. CASE Select("SelectPan", "Pan", "WritePan")
    BY <2>1 DEF Select, Goto, cpu, Register
  <2>2. CASE \E b \in BOOLEAN : Store("WritePan", "setup", b, "SelectDAC")
    BY <2>2, StoreTypes
  <2> QED BY <1>3, <2>1, <2>2 DEF SetPan
<1>4. CASE PrepareDAC
  BY <1>4 DEF PrepareDAC, Select, SetReady, Goto, cpu, chip, Register
<1>5. CASE EnterPlaybackLoop
  BY <1>5 DEF EnterPlaybackLoop, Jump, Goto, cpu, chip
<1>6. CASE Play
  BY <1>6, StoreTypes DEF Play
<1>7. CASE SampleEnds \/ StopSamplePlayback
  BY <1>7 DEF SampleEnds, StopSamplePlayback, Jump, Goto, cpu, chip
<1>8. CASE DisableDAC
  <2>1. CASE Jump("DisableDAC", "ClearReady")
    BY <2>1 DEF Jump, Goto, cpu, chip
  <2>2. CASE SetReady("ClearReady", FALSE, "SelectDisable") \/ SetReady("SetReady", TRUE, "IdleLoop")
    BY <2>2 DEF SetReady, Goto, cpu, chip
  <2>3. CASE Select("SelectDisable", "Enable", "WriteDisable")
    BY <2>3 DEF Select, Goto, cpu, Register
  <2>4. CASE Store("WriteDisable", "setup", FALSE, "SetReady")
    BY <2>4, StoreTypes
  <2> QED BY <1>8, <2>1, <2>2, <2>3, <2>4 DEF DisableDAC
<1>9. CASE IdleLoop
  BY <1>9 DEF IdleLoop, Goto, cpu, chip
<1>10. CASE VBlank
  BY <1>10 DEF VBlank, chip
<1>11. CASE VBlankPhase
  <2>1. CASE HandlerPlay("VBlankPlay")
    BY <2>1, StoreTypes DEF HandlerPlay
  <2>2. CASE Jump("VBlankPlay", "ProcessCommandInput")
    BY <2>2 DEF Jump, Goto, cpu, chip
  <2> QED BY <1>11, <2>1, <2>2 DEF VBlankPhase
<1>12. CASE ProcessCommandInput \/ LeavePause
  BY <1>12 DEF ProcessCommandInput, LeavePause, Outcomes, Jump, Goto, cpu, chip
<1>13. CASE VBlankReturn
  <2>1. CASE HandlerPlay("LastPlay")
    BY <2>1, StoreTypes DEF HandlerPlay
  <2>2. CASE Return("LastPlay")
    BY <2>2 DEF Return, Goto, chip
  <2> QED BY <1>13, <2>1, <2>2 DEF VBlankReturn
<1>14. CASE IdleVBlank
  BY <1>14 DEF IdleVBlank, Return, Jump, Goto, cpu, chip
<1>15. CASE StopZ80
  BY <1>15 DEF StopZ80, cpu, chip
<1>16. CASE EnsureYMWriteReady
  BY <1>16 DEF EnsureYMWriteReady, cpu, chip
<1>17. CASE WriteFMI
  BY <1>17 DEF WriteFMI, cpu, Register
<1>18. CASE UNCHANGED vars
  BY <1>18 DEF vars, cpu, chip
<1> QED
  BY <1>1, <1>2, <1>3, <1>4, <1>5, <1>6, <1>7, <1>8, <1>9, <1>10, <1>11, <1>12, <1>13, <1>14,
     <1>15, <1>16, <1>17, <1>18 DEF Next, Starting, Stopping, Handling, M68k

\* A jump, the choice of a register, a write of data and a change of DriverReady, each
\* between places that are not those of a handler and go on alike.
LEMMA NextLock == LockInv /\ [Next]_vars => LockInv'
<1> SUFFICES ASSUME LockInv, [Next]_vars PROVE LockInv'
  OBVIOUS
<1> USE DEF LockInv, RegsInv, TypeOK, HandlerInv, BusInv, LatchInv, Main, Busy, Writing, EnabledPlaces,
        Starts, PlaybackHandler, Places, Ending, Register
<1>0. TypeOK'
  BY NextType
<1>1. CASE PlaySample
  <2>1. HandlerInv'
    BY <1>1 DEF PlaySample, SetReady, Jump, Goto, Z80Runs, cpu, chip
  <2>2. BusInv'
    BY <1>1 DEF PlaySample, SetReady, Jump, Goto, Z80Runs, cpu, chip
  <2>3. LatchInv'
    BY <1>1 DEF PlaySample, SetReady, Jump, Goto, Z80Runs, cpu, chip
  <2>4. RegsInv'
    BY <1>1 DEF PlaySample, SetReady, Jump, Goto, Z80Runs, cpu, chip
  <2> QED BY <1>0, <2>1, <2>2, <2>3, <2>4
<1>2. CASE EnableDAC
  <2>1. HandlerInv'
    BY <1>2 DEF EnableDAC, Select, Store, Goto, Z80Runs, cpu, chip
  <2>2. BusInv'
    BY <1>2 DEF EnableDAC, Select, Store, Goto, Z80Runs, cpu, chip
  <2>3. LatchInv'
    BY <1>2 DEF EnableDAC, Select, Store, Goto, Z80Runs, cpu, chip
  <2>4. RegsInv'
    BY <1>2 DEF EnableDAC, Select, Store, Goto, Z80Runs, cpu, chip
  <2> QED BY <1>0, <2>1, <2>2, <2>3, <2>4
<1>3. CASE SetPan
  <2>1. HandlerInv'
    BY <1>3 DEF SetPan, Select, Store, Goto, Z80Runs, cpu, chip
  <2>2. BusInv'
    BY <1>3 DEF SetPan, Select, Store, Goto, Z80Runs, cpu, chip
  <2>3. LatchInv'
    BY <1>3 DEF SetPan, Select, Store, Goto, Z80Runs, cpu, chip
  <2>4. RegsInv'
    BY <1>3 DEF SetPan, Select, Store, Goto, Z80Runs, cpu, chip
  <2> QED BY <1>0, <2>1, <2>2, <2>3, <2>4
<1>4. CASE PrepareDAC
  <2>1. HandlerInv'
    BY <1>4 DEF PrepareDAC, Select, SetReady, Goto, Z80Runs, cpu, chip
  <2>2. BusInv'
    BY <1>4 DEF PrepareDAC, Select, SetReady, Goto, Z80Runs, cpu, chip
  <2>3. LatchInv'
    BY <1>4 DEF PrepareDAC, Select, SetReady, Goto, Z80Runs, cpu, chip
  <2>4. RegsInv'
    BY <1>4 DEF PrepareDAC, Select, SetReady, Goto, Z80Runs, cpu, chip
  <2> QED BY <1>0, <2>1, <2>2, <2>3, <2>4
<1>5. CASE EnterPlaybackLoop
  <2>1. HandlerInv'
    BY <1>5 DEF EnterPlaybackLoop, Jump, Goto, Z80Runs, cpu, chip
  <2>2. BusInv'
    BY <1>5 DEF EnterPlaybackLoop, Jump, Goto, Z80Runs, cpu, chip
  <2>3. LatchInv'
    BY <1>5 DEF EnterPlaybackLoop, Jump, Goto, Z80Runs, cpu, chip
  <2>4. RegsInv'
    BY <1>5 DEF EnterPlaybackLoop, Jump, Goto, Z80Runs, cpu, chip
  <2> QED BY <1>0, <2>1, <2>2, <2>3, <2>4
<1>6. CASE Play
  <2>1. HandlerInv'
    BY <1>6 DEF Play, Store, Goto, Z80Runs, cpu, chip
  <2>2. BusInv'
    BY <1>6 DEF Play, Store, Goto, Z80Runs, cpu, chip
  <2>3. LatchInv'
    BY <1>6 DEF Play, Store, Goto, Z80Runs, cpu, chip
  <2>4. RegsInv'
    BY <1>6 DEF Play, Store, Goto, Z80Runs, cpu, chip
  <2> QED BY <1>0, <2>1, <2>2, <2>3, <2>4
<1>7. CASE SampleEnds \/ StopSamplePlayback
  <2>1. CASE SampleEnds
    <3>1. HandlerInv'
      BY <2>1 DEF SampleEnds, Jump, Goto, Z80Runs, cpu, chip
    <3>2. BusInv'
      BY <2>1 DEF SampleEnds, Jump, Goto, Z80Runs, cpu, chip
    <3>3. LatchInv'
      BY <2>1 DEF SampleEnds, Jump, Goto, Z80Runs, cpu, chip
    <3>4. RegsInv'
      BY <2>1 DEF SampleEnds, Jump, Goto, Z80Runs, cpu, chip
    <3> QED BY <1>0, <3>1, <3>2, <3>3, <3>4
  <2>2. CASE StopSamplePlayback
    <3>1. HandlerInv'
      BY <2>2 DEF StopSamplePlayback, Jump, Goto, Z80Runs, cpu, chip
    <3>2. BusInv'
      BY <2>2 DEF StopSamplePlayback, Jump, Goto, Z80Runs, cpu, chip
    <3>3. LatchInv'
      BY <2>2 DEF StopSamplePlayback, Jump, Goto, Z80Runs, cpu, chip
    <3>4. RegsInv'
      BY <2>2 DEF StopSamplePlayback, Jump, Goto, Z80Runs, cpu, chip
    <3> QED BY <1>0, <3>1, <3>2, <3>3, <3>4
  <2> QED BY <1>7, <2>1, <2>2
<1>8. CASE DisableDAC
  <2>1. HandlerInv'
    BY <1>8 DEF DisableDAC, Jump, SetReady, Select, Store, Goto, Z80Runs, cpu, chip
  <2>2. BusInv'
    BY <1>8 DEF DisableDAC, Jump, SetReady, Select, Store, Goto, Z80Runs, cpu, chip
  <2>3. LatchInv'
    BY <1>8 DEF DisableDAC, Jump, SetReady, Select, Store, Goto, Z80Runs, cpu, chip
  <2>4. RegsInv'
    BY <1>8 DEF DisableDAC, Jump, SetReady, Select, Store, Goto, Z80Runs, cpu, chip
  <2> QED BY <1>0, <2>1, <2>2, <2>3, <2>4
<1>9. CASE IdleLoop
  <2>1. HandlerInv'
    BY <1>9 DEF IdleLoop, Goto, Z80Runs, cpu, chip
  <2>2. BusInv'
    BY <1>9 DEF IdleLoop, Goto, Z80Runs, cpu, chip
  <2>3. LatchInv'
    BY <1>9 DEF IdleLoop, Goto, Z80Runs, cpu, chip
  <2>4. RegsInv'
    BY <1>9 DEF IdleLoop, Goto, Z80Runs, cpu, chip
  <2> QED BY <1>0, <2>1, <2>2, <2>3, <2>4
<1>10. CASE VBlank
  <2>1. HandlerInv'
    BY <1>10 DEF VBlank, Z80Runs, cpu, chip
  <2>2. BusInv'
    BY <1>10 DEF VBlank, Z80Runs, cpu, chip
  <2>3. LatchInv'
    BY <1>10 DEF VBlank, Z80Runs, cpu, chip
  <2>4. RegsInv'
    BY <1>10 DEF VBlank, Z80Runs, cpu, chip
  <2> QED BY <1>0, <2>1, <2>2, <2>3, <2>4
<1>11. CASE VBlankPhase
  <2>1. HandlerInv'
    BY <1>11 DEF VBlankPhase, HandlerPlay, Store, Jump, Goto, Z80Runs, cpu, chip
  <2>2. BusInv'
    BY <1>11 DEF VBlankPhase, HandlerPlay, Store, Jump, Goto, Z80Runs, cpu, chip
  <2>3. LatchInv'
    BY <1>11 DEF VBlankPhase, HandlerPlay, Store, Jump, Goto, Z80Runs, cpu, chip
  <2>4. RegsInv'
    BY <1>11 DEF VBlankPhase, HandlerPlay, Store, Jump, Goto, Z80Runs, cpu, chip
  <2> QED BY <1>0, <2>1, <2>2, <2>3, <2>4
<1>12. CASE ProcessCommandInput \/ LeavePause
  <2>1. HandlerInv'
    BY <1>12 DEF ProcessCommandInput, LeavePause, Outcomes, Jump, Goto, Z80Runs, cpu, chip
  <2>2. BusInv'
    BY <1>12 DEF ProcessCommandInput, LeavePause, Outcomes, Jump, Goto, Z80Runs, cpu, chip
  <2>3. LatchInv'
    BY <1>12 DEF ProcessCommandInput, LeavePause, Outcomes, Jump, Goto, Z80Runs, cpu, chip
  <2>4. RegsInv'
    BY <1>12 DEF ProcessCommandInput, LeavePause, Outcomes, Jump, Goto, Z80Runs, cpu, chip
  <2> QED BY <1>0, <2>1, <2>2, <2>3, <2>4
<1>13. CASE VBlankReturn
  <2>1. HandlerInv'
    BY <1>13 DEF VBlankReturn, HandlerPlay, Store, Return, Goto, Z80Runs, cpu, chip
  <2>2. BusInv'
    BY <1>13 DEF VBlankReturn, HandlerPlay, Store, Return, Goto, Z80Runs, cpu, chip
  <2>3. LatchInv'
    BY <1>13 DEF VBlankReturn, HandlerPlay, Store, Return, Goto, Z80Runs, cpu, chip
  <2>4. RegsInv'
    BY <1>13 DEF VBlankReturn, HandlerPlay, Store, Return, Goto, Z80Runs, cpu, chip
  <2> QED BY <1>0, <2>1, <2>2, <2>3, <2>4
<1>14. CASE IdleVBlank
  <2>1. HandlerInv'
    BY <1>14 DEF IdleVBlank, Return, Jump, Goto, Z80Runs, cpu, chip
  <2>2. BusInv'
    BY <1>14 DEF IdleVBlank, Return, Jump, Goto, Z80Runs, cpu, chip
  <2>3. LatchInv'
    BY <1>14 DEF IdleVBlank, Return, Jump, Goto, Z80Runs, cpu, chip
  <2>4. RegsInv'
    BY <1>14 DEF IdleVBlank, Return, Jump, Goto, Z80Runs, cpu, chip
  <2> QED BY <1>0, <2>1, <2>2, <2>3, <2>4
<1>15. CASE StopZ80
  <2>1. HandlerInv'
    BY <1>15 DEF StopZ80, Z80Runs, cpu, chip
  <2>2. BusInv'
    BY <1>15 DEF StopZ80, Z80Runs, cpu, chip
  <2>3. LatchInv'
    BY <1>15 DEF StopZ80, Z80Runs, cpu, chip
  <2>4. RegsInv'
    BY <1>15 DEF StopZ80, Z80Runs, cpu, chip
  <2> QED BY <1>0, <2>1, <2>2, <2>3, <2>4
<1>16. CASE EnsureYMWriteReady
  <2>1. HandlerInv'
    BY <1>16 DEF EnsureYMWriteReady, cpu, chip
  <2>2. BusInv'
    BY <1>16 DEF EnsureYMWriteReady, cpu, chip
  <2>3. LatchInv'
    BY <1>16 DEF EnsureYMWriteReady, cpu, chip
  <2>4. RegsInv'
    BY <1>16 DEF EnsureYMWriteReady, cpu, chip
  <2> QED BY <1>0, <2>1, <2>2, <2>3, <2>4
<1>17. CASE WriteFMI
  <2>1. HandlerInv'
    BY <1>17 DEF WriteFMI, cpu
  <2>2. BusInv'
    BY <1>17 DEF WriteFMI, cpu
  <2>3. LatchInv'
    BY <1>17 DEF WriteFMI, cpu
  <2>4. RegsInv'
    BY <1>17 DEF WriteFMI, cpu
  <2> QED BY <1>0, <2>1, <2>2, <2>3, <2>4
<1>18. CASE UNCHANGED vars
  BY <1>18 DEF vars, cpu, chip, Z80Runs
<1> QED
  BY <1>1, <1>2, <1>3, <1>4, <1>5, <1>6, <1>7, <1>8, <1>9, <1>10, <1>11, <1>12, <1>13, <1>14,
     <1>15, <1>16, <1>17, <1>18 DEF Next, Starting, Stopping, Handling, M68k

\* The inductive invariant of the lock.
THEOREM LockInvariance == Spec => []LockInv
BY InitLock, NextLock, PTL DEF Spec

\* Wherever the 68K stops the Z80 to write to the YM, and whenever a VBlank comes, what it
\* writes and what PlaySample sets reach their registers (macros.asm:290).
THEOREM YmLockHolds == Spec => []LockIsSound
<1>1. LockInv => LockIsSound
  BY DEF LockInv, LockIsSound, LatchInv, RegsInv, Main, EnabledPlaces, PlaybackHandler, Writing, Z80Runs
<1> QED BY <1>1, LockInvariance, PTL

-----------------------------------------------------------------------------
(* Samples that run out, with VBlanks anywhere.                            *)

LEMMA InitStruck == Init => StruckInv
BY DEF Init, StruckInv, RanOut, BeforeSelect, EnabledPlaces, WritesReachTheirRegisters, PlaybackHandler,
       Ending, Main, Register

LEMMA NextStruck ==
  ASSUME LockInv, StruckInv, [Next]_vars
  PROVE  StruckInv'
<1> USE DEF LockInv, RegsInv, TypeOK, BusInv, LatchInv, HandlerInv, StruckInv, RanOut, BeforeSelect,
        WritesReachTheirRegisters, Main, Busy, Writing, PlaybackHandler, EnabledPlaces, Ending, Starts,
        Register
<1>1. CASE PlaySample
  BY <1>1 DEF PlaySample, SetReady, Jump, Goto, Z80Runs, cpu, chip
<1>2. CASE EnableDAC
  BY <1>2 DEF EnableDAC, Select, Store, Goto, Z80Runs, cpu, chip
<1>3. CASE SetPan
  BY <1>3 DEF SetPan, Select, Store, Goto, Z80Runs, cpu, chip
<1>4. CASE PrepareDAC
  BY <1>4 DEF PrepareDAC, Select, SetReady, Goto, Z80Runs, cpu, chip
<1>5. CASE EnterPlaybackLoop
  BY <1>5 DEF EnterPlaybackLoop, Jump, Goto, Z80Runs, cpu, chip
<1>6. CASE Play
  BY <1>6 DEF Play, Store, Goto, Z80Runs, cpu, chip
<1>7. CASE SampleEnds \/ StopSamplePlayback
  BY <1>7 DEF SampleEnds, StopSamplePlayback, Jump, Goto, Z80Runs, cpu, chip
<1>8. CASE DisableDAC
  BY <1>8 DEF DisableDAC, Jump, SetReady, Select, Store, Goto, Z80Runs, cpu, chip
<1>9. CASE IdleLoop
  BY <1>9 DEF IdleLoop, Goto, Z80Runs, cpu, chip
<1>10. CASE VBlank
  BY <1>10 DEF VBlank, Z80Runs, cpu, chip
<1>11. CASE VBlankPhase
  BY <1>11 DEF VBlankPhase, HandlerPlay, Store, Jump, Goto, Z80Runs, cpu, chip
<1>12. CASE ProcessCommandInput \/ LeavePause
  BY <1>12 DEF ProcessCommandInput, LeavePause, Outcomes, Jump, Goto, Z80Runs, cpu, chip
<1>13. CASE VBlankReturn
  BY <1>13 DEF VBlankReturn, HandlerPlay, Store, Return, Goto, Z80Runs, cpu, chip
<1>14. CASE IdleVBlank
  BY <1>14 DEF IdleVBlank, Return, Jump, Goto, Z80Runs, cpu, chip
<1>15. CASE StopZ80
  BY <1>15 DEF StopZ80, Z80Runs, cpu, chip
<1>16. CASE EnsureYMWriteReady
  BY <1>16 DEF EnsureYMWriteReady, cpu, chip
<1>17. CASE WriteFMI
  BY <1>17 DEF WriteFMI, cpu
<1>18. CASE UNCHANGED vars
  BY <1>18 DEF vars, cpu, chip
<1> QED
  BY <1>1, <1>2, <1>3, <1>4, <1>5, <1>6, <1>7, <1>8, <1>9, <1>10, <1>11, <1>12, <1>13, <1>14,
     <1>15, <1>16, <1>17, <1>18 DEF Next, Starting, Stopping, Handling, M68k

\* What a VBlank can do to the chip, wherever it strikes.
THEOREM StruckInvariance == Spec => []StruckInv
<1>1. LockInv /\ StruckInv /\ [Next]_vars => StruckInv'
  BY NextStruck
<1> QED BY <1>1, InitStruck, LockInvariance, PTL DEF Spec

\* Samples go to the DAC only and the DAC gets nothing else, but for a VBlank that strikes
\* between DisableDAC's select of 2Bh and IdleLoop's di.
THEOREM WritesArrive == Spec => []WritesReachTheirRegisters
<1>1. StruckInv => WritesReachTheirRegisters
  BY DEF StruckInv
<1> QED BY <1>1, StruckInvariance, PTL

\* The driver gives FM6 back before it idles (play-sample.asm:95), unless a VBlank struck
\* after DisableDAC's last write: a stop, a pause, a refused or an accepted sample in any
\* other handler does not keep it.
THEOREM FM6Returns == Spec => []FM6BackWhenIdle
<1>1. StruckInv => FM6BackWhenIdle
  BY DEF StruckInv, FM6BackWhenIdle, Main, PlaybackHandler
<1> QED BY <1>1, StruckInvariance, PTL
=============================================================================
