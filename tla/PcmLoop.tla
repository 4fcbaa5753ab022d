------------------------------ MODULE PcmLoop ------------------------------
(***************************************************************************)
(* The PCM playback loop (loop-pcm.asm) and its vertical-blanking handler. *)
(*                                                                         *)
(* The main loop fetches two ROM bytes into the sample buffer and plays    *)
(* one, so the buffer fills; when the VBlank interrupt arrives the handler *)
(* plays from the buffer alone, because the 68K's DMA may own the bus, and *)
(* then looks at the command byte.  The two share e, l' and a' without any *)
(* lock but di/ei.  A label in pc stands for the place where the main loop *)
(* is; the labels of IrqPoints are those that lie between an ei and the    *)
(* next di.  Instructions under one di are one step: the 68K can stop the  *)
(* Z80 between them, but writes nothing they read twice.                   *)
(*                                                                         *)
(* Abstracted: the volume table (a map on the byte that is sent, without   *)
(* effect on control), the YM address writes made before the loop starts,  *)
(* pausing (PauseLoop suspends the handler and resumes it unchanged), and  *)
(* cycles, of which only the distance between two VBlanks is kept, counted *)
(* in iterations of the main loop.                                         *)
(***************************************************************************)
EXTENDS SampleBuffer, ActiveSample

CONSTANTS
    Samples,        \* sample table records of type PCM
    Pitches,        \* values of the pitch byte
    PitchBase,      \* 256 in the driver: a' overflows there
    VBlankPlays,    \* 142 in the driver: iterations before the last three
    FrameGap,       \* main loop iterations between two VBlanks, at least
    Interruptible   \* what a command may cut short, as ActiveSample holds it

ASSUME LoopAssumption ==
    /\ \A s \in Samples : s \in SampleInputs /\ WellFormed(s) /\ s.pitch \in Pitches
    /\ PitchBase \in Nat \ {0}
    /\ Pitches \subseteq 0 .. PitchBase - 1
    /\ VBlankPlays \in Nat
    /\ FrameGap \in Nat
    /\ FrameGap >= 1

VARIABLES
    pc,             \* where the main loop is
    handler,        \* steps left to the VBlank handler, 0 outside it
    sinceVBlank,    \* main loop iterations since the last VBlank, up to FrameGap
    active,         \* ActiveSample, but for its pitch
    pitchInput,     \* ActiveSample.pitch, which the 68K may change at any time
    iyl,            \* the pitch in effect
    accumulator,    \* a': the fraction of a byte played
    currentBank,    \* CurrentBank, what the driver takes the bank to be
    window,         \* the bank register: the bank in the ROM window, or Partial
    hl,             \* next byte to fetch, as an offset in the window
    bc,             \* bytes left in this bank
    e,              \* read-ahead position
    l,              \* l': playback position
    a,              \* playback position as the last play left it
    buffer,         \* SampleBuffer
    dac             \* the byte last written to the DAC

ring == <<iyl, accumulator, e, l, a, buffer, dac>>
source == <<active, currentBank, window, hl, bc>>
vars == <<pc, handler, sinceVBlank, pitchInput, ring, source>>

Labels == {"Idle", "Start", "Fetch", "Play", "Chk", "Exhausted", "Switch",
           "Drain", "Reload", "Reswitch"}

\* Where an interrupt can be taken: between ei and the next di.
IrqPoints == Labels \ {"Idle", "Start", "Play"}

\* The bank register is loaded a bit at a time, over nine writes: what it
\* selects between the first and the last is no bank anyone asked for.
Partial == -1

NoByte == -1

\* How many places the reader is ahead of the player.
Ahead == Diff(e, l)

NoSample ==
    [startBank |-> 0, endBank |-> 0, startOffset |-> 0, startLength |-> 0,
     endLength |-> 0, loop |-> FALSE]

Init ==
    /\ pc = "Idle" /\ handler = 0 /\ sinceVBlank = 0
    /\ active = NoSample /\ pitchInput = 0
    /\ iyl = 0 /\ accumulator = 0 /\ a = 0
    /\ currentBank = 255 /\ window = Partial /\ hl = 0 /\ bc = 0
    /\ e = 0 /\ l = 0
    /\ buffer \in [Slots -> {NoByte}] /\ dac = NoByte

-----------------------------------------------------------------------------
(* Playback macros (playback.asm).                                         *)

\* Send one byte to the DAC; the carry of the pitch counter advances l'.
SendByte ==
    /\ dac' = buffer[l]
    /\ accumulator' = (accumulator + iyl) % PitchBase
    /\ l' = IF accumulator + iyl >= PitchBase THEN Succ(l) ELSE l

\* (mutant) the handler plays without looking whether anything is left.
SendByteUnchecked == SendByte

\* Playback_Run_Draining_NoSync: the same, unless there is nothing to play.
SendByteIfAny == IF e = l THEN UNCHANGED <<dac, accumulator, l>> ELSE SendByte

CountIteration ==
    sinceVBlank' = IF sinceVBlank < FrameGap THEN sinceVBlank + 1 ELSE FrameGap

-----------------------------------------------------------------------------
(* Entering the loop.                                                      *)

\* RequestSamplePlayback: load the record and start from the top of the stack.
\* The caller is the VBlank handler of the idle loop, or ProcessCommandInput.
Request(s) ==
    /\ active' = Load(s)
    /\ pitchInput' = s.pitch
    /\ pc' = "Start"
    /\ handler' = 0
    /\ sinceVBlank' = 0

IdleVBlank ==
    /\ pc = "Idle"
    /\ \E s \in Samples : Request(s)
    /\ UNCHANGED <<ring, currentBank, window, hl, bc>>

\* PCMLoop_Reload after SetBank: both positions back to the start of the buffer,
\* the source back to the first byte of the sample.
Rewind ==
    /\ hl' = active.startOffset
    /\ bc' = active.startLength
    /\ e' = 0 /\ l' = 0
    /\ accumulator' = 0
    /\ iyl' = pitchInput
    /\ pc' = "Fetch"
    /\ UNCHANGED <<handler, sinceVBlank, active, pitchInput, a, buffer, dac>>

\* (mutant) SetBank compares with the bank of the new sample, already noted.
StartNotingFirst ==
    /\ pc = "Start" /\ handler = 0
    /\ currentBank' = active.startBank
    /\ window' = IF currentBank' = active.startBank THEN window ELSE active.startBank
    /\ Rewind

\* From the top of the loop all of it runs with interrupts disabled.  SetBank
\* trusts CurrentBank and leaves the register alone if it is the one wanted.
Start ==
    /\ pc = "Start" /\ handler = 0
    /\ currentBank' = active.startBank
    /\ window' = IF currentBank = active.startBank THEN window ELSE active.startBank
    /\ Rewind

\* From the end of a looping sample SetBank runs with interrupts enabled.
\* SetBank2 notes the bank in CurrentBank and then writes the register.
Reload ==
    /\ pc = "Reload" /\ handler = 0
    /\ IF currentBank = active.startBank
       THEN Rewind /\ UNCHANGED <<currentBank, window>>
       ELSE /\ currentBank' = active.startBank
            /\ window' = Partial
            /\ pc' = "Reswitch"
            /\ UNCHANGED <<handler, sinceVBlank, active, pitchInput, ring, hl, bc>>

Reswitched ==
    /\ pc = "Reswitch" /\ handler = 0
    /\ window' = currentBank
    /\ UNCHANGED currentBank
    /\ Rewind

-----------------------------------------------------------------------------
(* The main loop.                                                          *)

\* di; ldi; ldi; jp po
Fetch ==
    /\ pc = "Fetch" /\ handler = 0
    /\ buffer' = [buffer EXCEPT ![e] = Addr(window, hl),
                                ![Succ(e)] = Addr(window, hl + 1)]
    /\ e' = Succ(Succ(e))
    /\ hl' = hl + 2
    /\ bc' = bc - 2
    /\ pc' = IF bc' = 0 THEN "Exhausted" ELSE "Play"
    /\ UNCHANGED <<handler, sinceVBlank, active, currentBank, window, pitchInput,
                   iyl, accumulator, l, a, dac>>

\* Playback_Run_DI; ei
Play ==
    /\ pc = "Play" /\ handler = 0
    /\ SendByte
    /\ a' = l'
    /\ CountIteration
    /\ pc' = "Chk"
    /\ UNCHANGED <<handler, pitchInput, source, iyl, e, buffer>>

\* Playback_ChkReadaheadOk, with the position the play left in a: an interrupt
\* taken here moves l' but not a.  If full, waste the time of a fetch and play.
ChkReadahead ==
    /\ pc = "Chk" /\ handler = 0
    /\ pc' = IF ReadaheadOk(a, e) THEN "Fetch" ELSE "Play"
    /\ UNCHANGED <<handler, sinceVBlank, pitchInput, ring, source>>

\* .ReadAheadExhausted_DI in the last bank: only the buffer is left to play.
LastBankExhausted ==
    /\ pc = "Exhausted" /\ handler = 0
    /\ currentBank = active.endBank
    /\ pc' = "Drain"
    /\ UNCHANGED <<handler, sinceVBlank, pitchInput, ring, source>>

\* .ReadAheadExhausted_DI in another bank: PCMLoop_NormalPhase_LoadNextBank,
\* which runs with interrupts enabled up to the di before the play.
LoadNextBank ==
    /\ pc = "Exhausted" /\ handler = 0
    /\ currentBank # active.endBank
    /\ currentBank' = (currentBank + 1) % 256
    /\ window' = Partial
    /\ hl' = 0
    /\ bc' = IF currentBank' = active.endBank THEN active.endLength ELSE BankSize
    /\ pc' = "Switch"
    /\ UNCHANGED <<handler, sinceVBlank, active, pitchInput, ring>>

\* The last write of SetBank2, then di and a play without a fetch before it.
NextBankLoaded ==
    /\ pc = "Switch" /\ handler = 0
    /\ window' = currentBank
    /\ pc' = "Play"
    /\ UNCHANGED <<handler, sinceVBlank, active, pitchInput, ring, currentBank, hl, bc>>

\* One iteration of PCMLoop_DrainPhase while the buffer has something.
Drain ==
    /\ pc = "Drain" /\ handler = 0
    /\ e # l
    /\ SendByte
    /\ CountIteration
    /\ UNCHANGED <<pc, handler, pitchInput, source, iyl, e, a, buffer>>

\* (mutant) the loop flag is tested the wrong way round.
DrainedInverted ==
    /\ pc = "Drain" /\ handler = 0
    /\ e = l
    /\ pc' = IF active.loop THEN "Idle" ELSE "Reload"
    /\ UNCHANGED <<handler, sinceVBlank, pitchInput, ring, source>>

\* .Drained_EXX_DI: a looping sample starts over, any other ends.
Drained ==
    /\ pc = "Drain" /\ handler = 0
    /\ e = l
    /\ pc' = IF active.loop THEN "Reload" ELSE "Idle"
    /\ UNCHANGED <<handler, sinceVBlank, pitchInput, ring, source>>

-----------------------------------------------------------------------------
(* The VBlank handler.                                                     *)

VBlank ==
    /\ pc \in IrqPoints /\ handler = 0
    /\ sinceVBlank = FrameGap
    /\ handler' = VBlankPlays + 4
    /\ UNCHANGED <<pc, sinceVBlank, pitchInput, ring, source>>

\* PCMLoop_VBlankPhase, and the first play of PCMLoop_VBlankPhase_LastIteration.
VBlankPhase ==
    /\ handler > 3
    /\ SendByteIfAny
    /\ handler' = handler - 1
    /\ UNCHANGED <<pc, sinceVBlank, pitchInput, source, iyl, e, a, buffer>>

\* The second play of the last iteration, then Playback_LoadPitch.
LastIteration ==
    /\ handler = 3
    /\ SendByteIfAny
    /\ iyl' = pitchInput
    /\ handler' = 2
    /\ UNCHANGED <<pc, sinceVBlank, pitchInput, source, e, a, buffer>>

\* ProcessCommandInput: it returns, or it stops the sample, or it starts one.
\* In the last two cases the loop is left for good.
ProcessCommandInput ==
    /\ handler = 2
    /\ \/ handler' = 1 /\ UNCHANGED <<pc, sinceVBlank, pitchInput, active>>
       \/ /\ active \in Interruptible
          /\ handler' = 0 /\ pc' = "Idle"
          /\ UNCHANGED <<sinceVBlank, pitchInput, active>>
       \/ /\ active \in Interruptible
          /\ \E s \in Samples : Request(s)
    /\ UNCHANGED <<ring, currentBank, window, hl, bc>>

\* One last play, and back to the main loop.
VBlankReturn ==
    /\ handler = 1
    /\ SendByteIfAny
    /\ handler' = 0
    /\ sinceVBlank' = 0
    /\ UNCHANGED <<pc, pitchInput, source, iyl, e, a, buffer>>

\* The 68K writes ActiveSamplePitch.
SetPitch ==
    /\ pitchInput' \in Pitches
    /\ UNCHANGED <<pc, handler, sinceVBlank, ring, source>>

-----------------------------------------------------------------------------
MainLoop ==
    \/ Start \/ Reload \/ Reswitched
    \/ Fetch \/ Play \/ ChkReadahead
    \/ LastBankExhausted \/ LoadNextBank \/ NextBankLoaded
    \/ Drain \/ Drained

Handler == VBlankPhase \/ LastIteration \/ ProcessCommandInput \/ VBlankReturn

Next == IdleVBlank \/ MainLoop \/ VBlank \/ Handler \/ SetPitch

Spec == Init /\ [][Next]_vars

\* The Z80 keeps executing; nothing forces a VBlank or a 68K write to happen.
FairSpec == Spec /\ WF_vars(MainLoop \/ Handler)
-----------------------------------------------------------------------------
(* What the driver's users and its timing have to provide for the stream   *)
(* to be exact.  The code checks none of it.                               *)

\* Between two VBlanks the main loop has time to buffer as many bytes as the
\* handler plays, and the buffer has room for them.
RefillInTime ==
    /\ FrameGap >= VBlankPlays + 3
    /\ RingSize - Margin > VBlankPlays + 3

\* A looping sample starts over at any time between two VBlanks, so its first
\* part has to refill the buffer before the first bank switch.
LongLoops ==
    \A s \in Samples :
        s.loop /\ EndBank(s) # s.startBank => StartLength(s) >= 2 * (VBlankPlays + 4)

\* A command that cuts a bank switch short leaves CurrentBank naming a bank that
\* is not loaded: no sample may start in such a bank.  255 is where it begins.
SwitchesApart ==
    \A s \in Samples :
        /\ s.startBank # 255
        /\ Load(s) \in Interruptible =>
             \A t \in Samples :
                 /\ ~(s.startBank < t.startBank /\ t.startBank <= EndBank(s))
                 /\ s.loop /\ EndBank(s) # s.startBank => t.startBank # s.startBank

-----------------------------------------------------------------------------
(* Properties.                                                             *)

TypeOK ==
    /\ pc \in Labels
    /\ handler \in 0 .. VBlankPlays + 4
    /\ sinceVBlank \in 0 .. FrameGap
    /\ active \in {NoSample} \cup {Load(s) : s \in Samples}
    /\ pitchInput \in Pitches \cup {0} /\ iyl \in Pitches \cup {0}
    /\ accumulator \in 0 .. PitchBase - 1
    /\ currentBank \in BankIds /\ window \in BankIds \cup {Partial}
    /\ hl \in 0 .. BankSize /\ bc \in 0 .. BankSize
    /\ e \in Slots /\ l \in Slots /\ a \in Slots
    /\ buffer \in [Slots -> Int] /\ dac \in Int

\* The reader never overwrites a byte that has not been played: the margin that
\* was tested before the fetch, with a position an interrupt may have made
\* stale, leaves room for both bytes of it.
NoOverrun ==
    [][\A n \in 0 .. Ahead - 1 : buffer'[Plus(l, n)] = buffer[Plus(l, n)]]_vars

\* Every fetch is of two bytes of the active sample, whose ends are those of its
\* record, however they have been split into banks and lengths.
ReadsInsideSample ==
    pc = "Fetch" =>
        /\ \E s \in Samples :
             /\ active = Load(s)
             /\ First(s) <= Addr(currentBank, hl) /\ Addr(currentBank, hl + 2) <= End(s)
        /\ hl + 2 <= BankSize

\* A sample that does not loop is played through VBlank without a gap: while
\* its bytes last the handler finds one in the buffer for each of its plays.
NoStarvation ==
    handler > 0 /\ pc # "Drain" /\ ~active.loop /\ handler # 2 => e # l

\* What is left to play, and the next byte of it, are read off the positions:
\* the bytes between l' and e are those that precede the next fetch.
PlayingAt ==
    IF pc \in {"Start", "Reload", "Reswitch"} THEN Addr(active.startBank, active.startOffset)
    ELSE Addr(currentBank, hl) - Ahead

ClipOf(act) ==
    [first |-> Addr(act.startBank, act.startOffset),
     end |-> Addr(act.endBank, act.endLength),
     loop |-> act.loop]

Stream == INSTANCE SampleStream WITH
    Clips <- {[first |-> First(s), end |-> End(s), loop |-> s.loop] : s \in Samples},
    NoClip <- ClipOf(NoSample),
    clip <- IF pc = "Idle" THEN ClipOf(NoSample) ELSE ClipOf(active),
    next <- IF pc = "Idle" THEN 0 ELSE PlayingAt,
    dac <- dac

\* The DAC is sent the bytes of the sample in order, none missing, none stale.
StreamInOrder == Stream!Spec

\* What is read through the ROM window is the bank CurrentBank names: the
\* comments on CurrentBank call it the currently loaded bank.
CurrentBankIsLoaded ==
    pc = "Fetch" => window = currentBank

\* A sample that does not loop ends, or is stopped, or gives way to another.
Finishes ==
    pc = "Fetch" /\ ~active.loop ~> pc \in {"Idle", "Start"}
=============================================================================
