------------------------------- MODULE YmPort -------------------------------
(***************************************************************************)
(* The YM2612 as the driver and the 68K share it.  A write is two: the     *)
(* number of a register, which the chip latches, and the data.  Playback   *)
(* sends data only and relies on 2Ah, the DAC, being latched; PlaySample   *)
(* and DisableDAC (play-sample.asm) latch other registers meanwhile, with  *)
(* DriverReady cleared; the 68K looks at DriverReady and latches 2Ah again *)
(* after each write of its own.                                            *)
(*                                                                         *)
(* One action per instruction that reaches the chip or DriverReady, since  *)
(* the 68K can stop the Z80 between any two.  Of a value only who wrote it *)
(* and its bit 7 are kept: 2Bh switches the DAC on (and FM6 off) by it.    *)
(***************************************************************************)
VARIABLES
  pc,            \* where the Z80 is
  resume,        \* the place of the main program its VBlank handler returns to
  iff,           \* interrupts are enabled
  routine,       \* VBlankRoutine: "Playback" or "Idle"
  dpcm,          \* the sample that plays is DPCM
  struck,        \* (history) where the last playback handler of the sample came
  driverReady,   \* DriverReady = 'R'
  latch,         \* the register the chip has latched
  regs,          \* register -> who wrote it last, and its bit 7
  m68k           \* where the 68K is: "away", "waiting"; with the Z80 stopped "stopped",
                 \* "ready", "addressed", "written"

chip == <<latch, regs>>
cpu  == <<resume, iff, routine, dpcm, struck>>
vars == <<pc, cpu, driverReady, chip, m68k>>

\* 2Ah, 2Bh, B6h of port 1, and whatever the 68K writes to.
Register == {"DAC", "Enable", "Pan", "FM"}

\* From the end of a sample to IdleLoop's di, which changes VBlankRoutine.
Ending == {"DisableDAC", "ClearReady", "SelectDisable", "WriteDisable", "SetReady", "IdleLoop"}

Places ==
  Ending \cup
  {"PlaySample", "SelectEnable", "WriteEnable", "SelectPan", "WritePan", "SelectDAC", "Prepared",
   "EnterPlaybackLoop", "Playing", "StopSamplePlayback", "IdleWait", "IdleVBlank",
   "VBlankPlay", "ProcessCommandInput", "Paused", "LastPlay"}

Init ==
  /\ pc = "IdleWait" /\ resume = "IdleWait" /\ iff = TRUE /\ routine = "Idle" /\ dpcm = FALSE
  /\ struck = "Playing"
  /\ driverReady = TRUE
  /\ latch \in Register
  /\ regs = [r \in Register |-> [by |-> "nobody", bit7 |-> FALSE]]
  /\ m68k = "away"

-----------------------------------------------------------------------------
(* Steps of the Z80.                                                       *)

Z80Runs == m68k \in {"away", "waiting"}

Goto(from, to) == Z80Runs /\ pc = from /\ pc' = to /\ UNCHANGED m68k

Jump(from, to) == Goto(from, to) /\ UNCHANGED <<cpu, driverReady, chip>>

Select(from, r, to) == Goto(from, to) /\ latch' = r /\ UNCHANGED <<cpu, driverReady, regs>>

Store(from, by, bit7, to) ==
  /\ Goto(from, to)
  /\ regs' = [regs EXCEPT ![latch] = [by |-> by, bit7 |-> bit7]]
  /\ UNCHANGED <<cpu, driverReady, latch>>

SetReady(from, ready, to) == Goto(from, to) /\ driverReady' = ready /\ UNCHANGED <<cpu, chip>>

\* (mutant) DriverReady stays set while the registers are written.
PlaySampleUnlocked ==
  \/ SetReady("PlaySample", driverReady, "SelectEnable")
  \/ Jump("PlaySample", "StopSamplePlayback")

\* A slot that is no sample stops playback.
PlaySample ==
  \/ SetReady("PlaySample", FALSE, "SelectEnable")
  \/ Jump("PlaySample", "StopSamplePlayback")

EnableDAC ==
  \/ Select("SelectEnable", "Enable", "WriteEnable")
  \/ Store("WriteEnable", "setup", TRUE, "SelectPan")

\* (mutant) the panning is written before its register is selected.
PanFirst ==
  \/ \E b \in BOOLEAN : Store("SelectPan", "setup", b, "WritePan")
  \/ Select("WritePan", "Pan", "SelectDAC")

SetPan ==
  \/ Select("SelectPan", "Pan", "WritePan")
  \/ \E b \in BOOLEAN : Store("WritePan", "setup", b, "SelectDAC")

PrepareDAC ==
  \/ Select("SelectDAC", "DAC", "Prepared")
  \/ SetReady("Prepared", TRUE, "EnterPlaybackLoop")

\* The loop up to its first ei; a reserved type stops playback.
EnterPlaybackLoop ==
  \/ /\ Goto("EnterPlaybackLoop", "Playing")
     /\ iff' = TRUE /\ routine' = "Playback" /\ dpcm' \in BOOLEAN /\ struck' = "Playing"
     /\ UNCHANGED <<resume, driverReady, chip>>
  \/ Jump("EnterPlaybackLoop", "StopSamplePlayback")

Play == \E b \in BOOLEAN : Store("Playing", "playback", b, "Playing")

\* The loop returns to DisableDAC, with interrupts enabled.
SampleEnds == Jump("Playing", "DisableDAC")

StopSamplePlayback == Jump("StopSamplePlayback", "DisableDAC")

\* (mutant) the DAC is left enabled.
DisableDACSkipped == Jump("DisableDAC", "IdleLoop")

\* ld de, YM_Port0_Reg changes e, which the handler of the PCM loops takes for
\* the read-ahead position.
DisableDAC ==
  \/ Jump("DisableDAC", "ClearReady")
  \/ SetReady("ClearReady", FALSE, "SelectDisable")
  \/ Select("SelectDisable", "Enable", "WriteDisable")
  \/ Store("WriteDisable", "setup", FALSE, "SetReady")
  \/ SetReady("SetReady", TRUE, "IdleLoop")

IdleLoop ==
  /\ Goto("IdleLoop", "IdleWait")
  /\ iff' = TRUE /\ routine' = "Idle"
  /\ UNCHANGED <<resume, dpcm, struck, driverReady, chip>>

-----------------------------------------------------------------------------
(* The VBlank handlers.                                                    *)

VBlank ==
  /\ Z80Runs /\ iff /\ pc \in {"Playing", "IdleWait"} \cup Ending
  /\ iff' = FALSE /\ resume' = pc
  /\ pc' = IF routine = "Playback" THEN "VBlankPlay" ELSE "IdleVBlank"
  /\ struck' = IF routine = "Playback" THEN pc ELSE struck
  /\ UNCHANGED <<routine, dpcm, driverReady, chip, m68k>>

\* The buffer does not look empty: while the sample plays it may not be; after its
\* end the DPCM loop's c is corrected twice, and e is changed by DisableDAC.
LooksFilled == resume = "Playing" \/ dpcm \/ resume # "DisableDAC"

HandlerPlay(place) ==
  /\ LooksFilled
  /\ \E b \in BOOLEAN : Store(place, "playback", b, place)

Return(from) ==
  /\ Goto(from, resume)
  /\ iff' = TRUE
  /\ UNCHANGED <<resume, routine, dpcm, struck, driverReady, chip>>

VBlankPhase == HandlerPlay("VBlankPlay") \/ Jump("VBlankPlay", "ProcessCommandInput")

\* Go on, stop, start a sample, or wait in a pause until one of these.
Outcomes == {"LastPlay", "StopSamplePlayback", "PlaySample"}

ProcessCommandInput == \E to \in Outcomes \cup {"Paused"} : Jump("ProcessCommandInput", to)

LeavePause == \E to \in Outcomes : Jump("Paused", to)

VBlankReturn == HandlerPlay("LastPlay") \/ Return("LastPlay")

IdleVBlank == Jump("IdleVBlank", "PlaySample") \/ Return("IdleVBlank")

-----------------------------------------------------------------------------
(* The 68K: MPCM_ensureYMWriteReady and a write, as in WriteFMI of the      *)
(* example's sound driver.                                                 *)

StopZ80 ==
  /\ Z80Runs
  /\ m68k' = "stopped"
  /\ UNCHANGED <<pc, cpu, driverReady, chip>>

\* A driver that is not ready runs on for a while.
EnsureYMWriteReady ==
  /\ m68k = "stopped"
  /\ m68k' = IF driverReady THEN "ready" ELSE "waiting"
  /\ UNCHANGED <<pc, cpu, driverReady, chip>>

WriteFMI ==
  /\ UNCHANGED <<pc, cpu, driverReady>>
  /\ \/ m68k = "ready" /\ latch' = "FM" /\ m68k' = "addressed" /\ UNCHANGED regs
     \/ /\ m68k = "addressed" /\ m68k' = "written"
        /\ \E b \in BOOLEAN : regs' = [regs EXCEPT ![latch] = [by |-> "m68k", bit7 |-> b]]
        /\ UNCHANGED latch
     \/ m68k = "written" /\ latch' = "DAC" /\ m68k' = "away" /\ UNCHANGED regs

Starting == PlaySample \/ EnableDAC \/ SetPan \/ PrepareDAC \/ EnterPlaybackLoop
Stopping == SampleEnds \/ StopSamplePlayback \/ DisableDAC \/ IdleLoop
Handling == VBlankPhase \/ ProcessCommandInput \/ LeavePause \/ VBlankReturn \/ IdleVBlank
M68k     == StopZ80 \/ EnsureYMWriteReady \/ WriteFMI

Next == Starting \/ Play \/ Stopping \/ VBlank \/ Handling \/ M68k

Spec == Init /\ [][Next]_vars

-----------------------------------------------------------------------------
(* Properties.                                                             *)

TypeOK ==
  /\ pc \in Places /\ resume \in Places /\ struck \in Places
  /\ iff \in BOOLEAN /\ routine \in {"Playback", "Idle"} /\ dpcm \in BOOLEAN
  /\ driverReady \in BOOLEAN /\ latch \in Register
  /\ regs \in [Register -> [by : {"nobody", "playback", "setup", "m68k"}, bit7 : BOOLEAN]]
  /\ m68k \in {"away", "waiting", "stopped", "ready", "addressed", "written"}

\* "Ensures Mega PCM 2 isn't busy writing to YM" (macros.asm:290): wherever the 68K
\* stops the Z80, its data and the panning reach their registers, and a sample
\* that plays finds the DAC switched on and latched.
LockIsSound ==
  /\ regs["FM"].by \in {"nobody", "m68k"} /\ regs["Pan"].by \in {"nobody", "setup"}
  /\ pc = "Playing" /\ Z80Runs => regs["Enable"].bit7 /\ latch = "DAC"

\* Samples go to the DAC and nothing else goes there: no 68K and no interrupt
\* comes between a register's number and its data.  Only a VBlank that strikes
\* while DisableDAC has 2Bh latched, up to IdleLoop's di, sends them elsewhere.
WritesReachTheirRegisters ==
  /\ regs["DAC"].by \in {"nobody", "playback"}
  /\ \/ regs["Enable"].by \in {"nobody", "setup"}
     \/ regs["Enable"].by = "playback" /\ struck \in {"WriteDisable", "SetReady", "IdleLoop"}

\* "Playback's done, disable DAC" (play-sample.asm:95): the idle driver has given
\* FM6 back, wherever VBlanks have struck DisableDAC and whatever their handlers
\* were told, except between its last write and IdleLoop's di.
FM6BackWhenIdle ==
  pc = "IdleWait" => ~regs["Enable"].bit7 \/ struck \in {"SetReady", "IdleLoop"}
=============================================================================
