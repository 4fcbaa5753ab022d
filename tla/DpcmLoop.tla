------------------------------ MODULE DpcmLoop ------------------------------
(***************************************************************************)
(* The DPCM playback loops (loop-dpcm.asm, loop-dpcm-turbo.asm) and their  *)
(* vertical-blanking handlers.  A byte of ROM is two deltas; the decoder   *)
(* takes the sample before from the sample buffer itself, so its pointer   *)
(* c rests on the last sample written, one place behind the first free     *)
(* one, and whoever plays until the buffer is empty corrects it first.     *)
(*                                                                         *)
(* The turbo loop is the same but for its plays: each advances l', and the *)
(* handler makes none after the commands.  The decoding tables are those   *)
(* of DeltaCodec; a decoded sample is represented by its position in ROM,  *)
(* in nibbles, or Garbled if the delta was added to another sample than    *)
(* the one before it.  pc, handler and cycles are abstracted as in         *)
(* PcmLoop.                                                                *)
(***************************************************************************)
EXTENDS SampleBuffer, ActiveSample

CONSTANTS
    Samples,        \* records of the DPCM types; turbo tells the type
    Pitches,        \* values of the pitch byte
    PitchBase,      \* 256 in the driver
    VBlankPlays,    \* iterations of the handler's loop: 114, turbo 142
    FrameGap,       \* main loop iterations between two VBlanks, at least
    Coincidences    \* where the VBlank or a command may fall besides (see VBlank)

\* Records of the sample table: any byte may be the first or the last of a sample.
DpcmInputs ==
    [startBank : BankIds, endBank : BankIds,
     startOffset : 0 .. BankSize - 1, endOffset : 0 .. BankSize - 1,
     loop : BOOLEAN, turbo : BOOLEAN, pitch : Nat]

NotEmpty(s) ==
    \/ s.startBank < s.endBank
    \/ s.startBank = s.endBank /\ s.startOffset < s.endOffset

\* The margin "cannot be <=2 of PCM loops and <=3 for DPCM loops" (megapcm.asm:150).
ASSUME DpcmMarginAssumption == Margin >= 4

ASSUME DpcmAssumption ==
    /\ \A s \in Samples : s \in DpcmInputs /\ NotEmpty(s) /\ s.pitch \in Pitches
    /\ PitchBase \in Nat \ {0}
    /\ Pitches \subseteq 0 .. PitchBase - 1
    /\ VBlankPlays \in Nat
    /\ FrameGap \in Nat
    /\ Coincidences \subseteq {"Decode", "Drained", "Switch"}

VARIABLES
    pc,             \* where the main loop is
    handler,        \* steps left to the VBlank handler, 0 outside it
    sinceVBlank,    \* main loop iterations since the last VBlank, up to FrameGap
    active,         \* ActiveSample, and which of the two loops runs
    pitchInput,     \* ActiveSample.pitch
    iyl,            \* the pitch in effect
    accumulator,    \* a': the fraction of a sample played
    currentBank,    \* CurrentBank
    window,         \* the bank in the ROM window, or Partial
    de,             \* next byte to read, as an offset in the window
    length,         \* bytes left in this bank: ix, or bc' of the turbo loop
    code,           \* l: the two nibbles read, as the address they come from
    c,              \* the last sample written
    l,              \* l': playback position
    a,              \* playback position before the last play
    buffer,         \* SampleBuffer
    dac             \* the sample last sent to the DAC

ring == <<iyl, accumulator, c, l, a, buffer, dac>>
source == <<active, currentBank, window, de, length, code>>
vars == <<pc, handler, sinceVBlank, pitchInput, ring, source>>

Labels == {"Idle", "Start", "Fetch", "Decode", "Play", "Chk", "Exhausted", "Switch",
           "Drain", "Drained", "Reswitch"}

\* Where an interrupt can be taken: between ei and the next di.
IrqPoints == Labels \ {"Idle", "Start", "Play"}

Partial == -1
NoByte  == -1
Zero    == -2   \* 80h, the sample before the first
Garbled == -3


\* The first free place, where c rests one place behind it but for a moment
\* before the decoder writes and after the last sample was played; and how many
\* samples are to be played.
Corrected == pc \in {"Decode", "Drained", "Reswitch"}
Free      == IF Corrected THEN c ELSE Succ(c)
Ahead     == Diff(Free, l)

NoSample ==
    [startBank |-> 0, endBank |-> 0, startOffset |-> 0, startLength |-> 0,
     endLength |-> 0, loop |-> FALSE, turbo |-> FALSE]

\* LoadActiveSampleData_DI; the type has chosen the loop.
LoadDpcm(s) ==
    [startBank |-> s.startBank, endBank |-> EndBank(s),
     startOffset |-> s.startOffset, startLength |-> StartLength(s),
     endLength |-> EndLength(s), loop |-> s.loop, turbo |-> s.turbo]

Init ==
    /\ pc = "Idle" /\ handler = 0 /\ sinceVBlank = 0
    /\ active = NoSample /\ pitchInput = 0
    /\ iyl = 0 /\ accumulator = 0 /\ a = 0
    /\ currentBank = 255 /\ window = Partial /\ de = 0 /\ length = 0 /\ code = NoByte
    /\ c = 0 /\ l = 0
    /\ buffer = [slot \in Slots |-> NoByte] /\ dac = NoByte

-----------------------------------------------------------------------------
(* Playback macros (playback.asm, playback-turbo.asm).                     *)

\* Send one sample to the DAC; l' advances with the carry of the pitch counter,
\* in turbo mode always.
SendByte ==
    /\ dac' = buffer[l]
    /\ accumulator' = IF active.turbo THEN accumulator ELSE (accumulator + iyl) % PitchBase
    /\ l' = IF active.turbo \/ accumulator + iyl >= PitchBase THEN Succ(l) ELSE l

\* Playback_Run_Draining in the handler, which corrects c as if the main loop
\* never did.
SendByteIfAny == IF Succ(c) = l THEN UNCHANGED <<dac, accumulator, l>> ELSE SendByte

CountIteration ==
    sinceVBlank' = IF sinceVBlank < FrameGap THEN sinceVBlank + 1 ELSE FrameGap

-----------------------------------------------------------------------------
(* Entering the loops.                                                     *)

Request(s) ==
    /\ active' = LoadDpcm(s)
    /\ pitchInput' = s.pitch
    /\ pc' = "Start"
    /\ handler' = 0
    /\ sinceVBlank' = 0

IdleVBlank ==
    /\ pc = "Idle"
    /\ \E s \in Samples : Request(s)
    /\ UNCHANGED <<ring, currentBank, window, de, length, code>>

\* DPCMLoop_Cont: the source back to the first byte of the sample, the player to
\* the start of the buffer, c to the place before it, where the sample before the
\* first is put.  The turbo loop has no pitch.  (An interrupt before this write
\* finds the buffer empty, as one after it does.)
Rewind ==
    /\ de' = active.startOffset
    /\ length' = active.startLength
    /\ c' = RingSize - 1 /\ l' = 0
    /\ buffer' = [buffer EXCEPT ![RingSize - 1] = Zero]
    /\ accumulator' = IF active.turbo THEN accumulator ELSE 0
    /\ iyl' = IF active.turbo THEN iyl ELSE pitchInput
    /\ pc' = "Fetch"
    /\ UNCHANGED <<handler, sinceVBlank, active, pitchInput, code, a, dac>>

\* From the top to DPCMLoop_Cont, with interrupts disabled.
Start ==
    /\ pc = "Start" /\ handler = 0
    /\ currentBank' = active.startBank
    /\ window' = IF currentBank = active.startBank THEN window ELSE active.startBank
    /\ Rewind

\* After .Drained_EXX_DI, with interrupts enabled: a looping sample starts over.
Reload ==
    /\ pc = "Drained" /\ handler = 0
    /\ active.loop
    /\ IF currentBank = active.startBank
       THEN Rewind /\ UNCHANGED <<currentBank, window>>
       ELSE /\ currentBank' = active.startBank
            /\ window' = Partial
            /\ pc' = "Reswitch"
            /\ UNCHANGED <<handler, sinceVBlank, active, pitchInput, ring, de, length, code>>

Reswitched ==
    /\ pc = "Reswitch" /\ handler = 0
    /\ window' = currentBank
    /\ UNCHANGED currentBank
    /\ Rewind

\* (mutant) the return address is that of the drain loop.
ReturnToDrain ==
    /\ pc = "Drained" /\ handler = 0
    /\ ~active.loop
    /\ pc' = "Drain"
    /\ UNCHANGED <<handler, sinceVBlank, pitchInput, ring, source>>

\* Any other ends: back through DisableDAC to the idle loop's di.
Return ==
    /\ pc = "Drained" /\ handler = 0
    /\ ~active.loop
    /\ pc' = "Idle"
    /\ UNCHANGED <<handler, sinceVBlank, pitchInput, ring, source>>

-----------------------------------------------------------------------------
(* The main loop.                                                          *)

\* From ld a, (de) to inc c: interrupts are still enabled.
Fetch ==
    /\ pc = "Fetch" /\ handler = 0
    /\ code' = Addr(window, de)
    /\ de' = de + 1
    /\ c' = Succ(c)
    /\ pc' = "Decode"
    /\ UNCHANGED <<handler, sinceVBlank, active, currentBank, window, length, pitchInput,
                   iyl, accumulator, l, a, buffer, dac>>

\* add a, (hl): the sample a delta makes of the one before.
Decoded(before, position) ==
    IF before = (IF position = 2 * Addr(active.startBank, active.startOffset)
                 THEN Zero ELSE position - 1)
    THEN position ELSE Garbled

\* From di to dec ixl and dec ixh (dec c and dec b): both samples are written
\* and c is left at the second.
Decode ==
    LET first  == Decoded(buffer[Plus(c, RingSize - 1)], 2 * code)
        second == Decoded(first, 2 * code + 1)
    IN  /\ pc = "Decode" /\ handler = 0
        /\ buffer' = [buffer EXCEPT ![c] = first, ![Succ(c)] = second]
        /\ c' = Succ(c)
        /\ length' = length - 1
        /\ pc' = IF length' = 0 THEN "Exhausted" ELSE "Play"
        /\ UNCHANGED <<handler, sinceVBlank, active, currentBank, window, de, code,
                       pitchInput, iyl, accumulator, l, a, dac>>

\* Playback_Run_DI2; ei
Play ==
    /\ pc = "Play" /\ handler = 0
    /\ SendByte
    /\ a' = l
    /\ CountIteration
    /\ pc' = "Chk"
    /\ UNCHANGED <<handler, pitchInput, source, iyl, c, buffer>>

ChkReadahead ==
    /\ pc = "Chk" /\ handler = 0
    /\ pc' = IF ReadaheadOk(a, c) THEN "Fetch" ELSE "Play"
    /\ UNCHANGED <<handler, sinceVBlank, pitchInput, ring, source>>

\* (mutant) c is corrected for good before the drain, which corrects it again.
LastBankExhaustedCorrecting ==
    /\ pc = "Exhausted" /\ handler = 0
    /\ currentBank = active.endBank
    /\ pc' = "Drain"
    /\ c' = Succ(c)
    /\ UNCHANGED <<handler, sinceVBlank, pitchInput, source, iyl, accumulator, l, a, buffer, dac>>

LastBankExhausted ==
    /\ pc = "Exhausted" /\ handler = 0
    /\ currentBank = active.endBank
    /\ pc' = "Drain"
    /\ UNCHANGED <<handler, sinceVBlank, pitchInput, ring, source>>

\* DPCMLoop_NormalPhase_LoadNextBank, up to SetBank2's serial writes.
LoadNextBank ==
    /\ pc = "Exhausted" /\ handler = 0
    /\ currentBank # active.endBank
    /\ currentBank' = (currentBank + 1) % 256
    /\ window' = Partial
    /\ de' = 0
    /\ length' = IF currentBank' = active.endBank THEN active.endLength ELSE BankSize
    /\ pc' = "Switch"
    /\ UNCHANGED <<handler, sinceVBlank, active, pitchInput, ring, code>>

NextBankLoaded ==
    /\ pc = "Switch" /\ handler = 0
    /\ window' = currentBank
    /\ pc' = "Play"
    /\ UNCHANGED <<handler, sinceVBlank, active, pitchInput, ring, currentBank, de, length, code>>

\* inc c, a play, dec c.
Drain ==
    /\ pc = "Drain" /\ handler = 0
    /\ Succ(c) # l
    /\ SendByte
    /\ CountIteration
    /\ UNCHANGED <<pc, handler, pitchInput, source, iyl, c, a, buffer>>

\* inc c, nothing left to play, ei: c is not put back.
DrainDone ==
    /\ pc = "Drain" /\ handler = 0
    /\ Succ(c) = l
    /\ c' = Succ(c)
    /\ pc' = "Drained"
    /\ UNCHANGED <<handler, sinceVBlank, pitchInput, source, iyl, accumulator, l, a, buffer, dac>>

-----------------------------------------------------------------------------
(* The VBlank handlers.                                                    *)

\* Three coincidences break the stream, and happen only in the runs that ask for
\* them: a VBlank in the few cycles between inc c and di while the buffer has fewer
\* samples than the handler plays ("Decode"); one between the end of the drain and
\* the next di ("Drained"); a command that cuts a bank switch short ("Switch").
VBlank ==
    /\ pc \in IrqPoints /\ handler = 0
    /\ sinceVBlank = FrameGap
    /\ pc = "Decode" /\ Ahead < VBlankPlays + 2 => "Decode" \in Coincidences
    /\ pc \in {"Drained", "Reswitch"} => "Drained" \in Coincidences
    /\ handler' = VBlankPlays + 3
    /\ UNCHANGED <<pc, sinceVBlank, pitchInput, ring, source>>

VBlankPhase ==
    /\ handler > 3
    /\ SendByteIfAny
    /\ handler' = handler - 1
    /\ UNCHANGED <<pc, sinceVBlank, pitchInput, source, iyl, c, a, buffer>>

\* The play before the commands, and Playback_LoadPitch.
LastIteration ==
    /\ handler = 3
    /\ SendByteIfAny
    /\ iyl' = IF active.turbo THEN iyl ELSE pitchInput
    /\ handler' = 2
    /\ UNCHANGED <<pc, sinceVBlank, pitchInput, source, c, a, buffer>>

\* It returns, or it stops the sample, or it starts one.
ProcessCommandInput ==
    /\ handler = 2
    /\ \/ handler' = 1 /\ UNCHANGED <<pc, sinceVBlank, pitchInput, active>>
       \/ /\ pc \in {"Switch", "Reswitch"} => "Switch" \in Coincidences
          /\ \/ handler' = 0 /\ pc' = "Idle" /\ UNCHANGED <<sinceVBlank, pitchInput, active>>
             \/ \E s \in Samples : Request(s)
    /\ UNCHANGED <<ring, currentBank, window, de, length, code>>

\* The last play, which the turbo loop does not make.
VBlankReturn ==
    /\ handler = 1
    /\ IF active.turbo THEN UNCHANGED <<dac, accumulator, l>> ELSE SendByteIfAny
    /\ handler' = 0
    /\ sinceVBlank' = 0
    /\ UNCHANGED <<pc, pitchInput, source, iyl, c, a, buffer>>

\* The 68K writes ActiveSamplePitch.
SetPitch ==
    /\ pitchInput' \in Pitches
    /\ UNCHANGED <<pc, handler, sinceVBlank, ring, source>>

-----------------------------------------------------------------------------
MainLoop ==
    \/ Start \/ Reload \/ Reswitched \/ Return
    \/ Fetch \/ Decode \/ Play \/ ChkReadahead
    \/ LastBankExhausted \/ LoadNextBank \/ NextBankLoaded
    \/ Drain \/ DrainDone

Handler == VBlankPhase \/ LastIteration \/ ProcessCommandInput \/ VBlankReturn

Next == IdleVBlank \/ MainLoop \/ VBlank \/ Handler \/ SetPitch

Spec == Init /\ [][Next]_vars

FairSpec == Spec /\ WF_vars(MainLoop \/ Handler)

-----------------------------------------------------------------------------
(* What the driver's users and its timing have to provide for the stream   *)
(* to be exact, besides that no coincidence happens.  The code checks none *)
(* of it.                                                                  *)

\* Between two VBlanks the main loop has time to buffer as many samples as the
\* handler plays, and the buffer has room for them.
RefillInTime ==
    /\ FrameGap >= VBlankPlays + 2
    /\ RingSize - Margin > VBlankPlays + 2

\* A looping sample starts over at any time between two VBlanks, so its first
\* part, of two samples a byte, has to refill the buffer before the first bank
\* switch.
LongLoops ==
    \A s \in Samples :
        s.loop /\ EndBank(s) # s.startBank => StartLength(s) >= VBlankPlays + 3

\* CurrentBank is 255 before a bank is selected, so that no sample may start there.
NoSampleInBank255 == \A s \in Samples : s.startBank # 255

-----------------------------------------------------------------------------
(* Properties.                                                             *)

TypeOK ==
    /\ pc \in Labels
    /\ handler \in 0 .. VBlankPlays + 3
    /\ sinceVBlank \in 0 .. FrameGap
    /\ active \in {NoSample} \cup {LoadDpcm(s) : s \in Samples}
    /\ pitchInput \in Pitches \cup {0} /\ iyl \in Pitches \cup {0}
    /\ accumulator \in 0 .. PitchBase - 1
    /\ currentBank \in BankIds /\ window \in BankIds \cup {Partial}
    /\ de \in 0 .. BankSize /\ length \in 0 .. BankSize /\ code \in Int
    /\ c \in Slots /\ l \in Slots /\ a \in Slots
    /\ buffer \in [Slots -> Int] /\ dac \in Int

\* The decoder never overwrites a sample that has not been played, nor the one it
\* decodes from, whenever interrupts come: the margin accounts for c being one
\* place behind.
NoOverrun ==
    [][pc = "Decode" =>
         \A n \in 0 .. Ahead - 1 : buffer'[Plus(l, n)] = buffer[Plus(l, n)]]_vars

ClipOf(act) ==
    [first |-> 2 * Addr(act.startBank, act.startOffset),
     end |-> 2 * Addr(act.endBank, act.endLength),
     loop |-> act.loop]

Silent == pc = "Idle" \/ (pc = "Drained" /\ ~active.loop)

PlayingAt ==
    CASE pc \in {"Start", "Drained", "Reswitch"} -> 2 * Addr(active.startBank, active.startOffset)
      [] pc = "Decode" -> 2 * Addr(currentBank, de - 1) - Ahead
      [] OTHER -> 2 * Addr(currentBank, de) - Ahead

\* The samples, by their records.
Clips == {[first |-> 2 * First(s), end |-> 2 * End(s), loop |-> s.loop] : s \in Samples}

Stream == INSTANCE SampleStream WITH
    NoClip <- ClipOf(NoSample),
    clip <- IF Silent THEN ClipOf(NoSample) ELSE ClipOf(active),
    next <- IF Silent THEN 0 ELSE PlayingAt

\* The DAC is sent the decoded samples in order, none missing, none stale, none
\* made from another sample than the one before it: "we only allow interrupts
\* before buffering samples" (loop-dpcm.asm:130).
StreamInOrder == Stream!Spec

\* A sample that does not loop ends, or is stopped, or gives way to another.
Finishes ==
    pc = "Fetch" /\ ~active.loop ~> pc \in {"Idle", "Start"}
=============================================================================
