--------------------------- MODULE DpcmLoopProofs ---------------------------
(***************************************************************************)
(* What holds of DpcmLoop for every value of its constants: its            *)
(* invariants and, if no coincidence happens and under the three conditions*)
(* the code relies on and does not check (RefillInTime, LongLoops,         *)
(* NoSampleInBank255), that it implements SampleStream.                    *)
(***************************************************************************)
EXTENDS DpcmLoop, SampleBufferProofs, TLAPS

-----------------------------------------------------------------------------
(* The record of an active sample.                                         *)

\* What the loops rely on.
Sound(act) ==
    /\ act.startBank \in Int /\ 0 <= act.startBank
    /\ act.endBank \in Int /\ act.startBank <= act.endBank /\ act.endBank <= 255
    /\ act.startOffset \in Int /\ 0 <= act.startOffset /\ act.startOffset < BankSize
    /\ act.startLength \in Int /\ 0 < act.startLength /\ act.startLength <= BankSize
    /\ act.endLength \in Int /\ 0 < act.endLength /\ act.endLength <= BankSize
    /\ act.startOffset + act.startLength =
         IF act.startBank = act.endBank THEN act.endLength ELSE BankSize

\* Bank and length of the end are split so that they mean the same byte.
LEMMA LoadKeepsEnds ==
    ASSUME NEW s \in DpcmInputs, NotEmpty(s)
    PROVE  /\ Addr(LoadDpcm(s).startBank, LoadDpcm(s).startOffset) = First(s)
           /\ Addr(LoadDpcm(s).endBank, LoadDpcm(s).endLength) = End(s)
<1>1. /\ LoadDpcm(s).startBank = s.startBank /\ LoadDpcm(s).startOffset = s.startOffset
      /\ LoadDpcm(s).endBank = EndBank(s) /\ LoadDpcm(s).endLength = EndLength(s)
  BY DEF LoadDpcm
<1>2. /\ s.startBank \in Int /\ s.endBank \in Int /\ 0 <= s.startBank
      /\ s.endBank <= 255 /\ s.endOffset \in Int /\ 0 <= s.endOffset
      /\ s.startOffset \in Int /\ 0 <= s.startOffset
  BY BankSizeAssumption DEF DpcmInputs, BankIds
<1>3. Addr(EndBank(s), EndLength(s)) = Addr(s.endBank, s.endOffset)
  <2>1. CASE s.endOffset = 0
    <3>1. s.startBank < s.endBank
      BY <1>2, <2>1 DEF NotEmpty
    <3>2. EndBank(s) = s.endBank - 1 /\ EndLength(s) = BankSize
      BY <1>2, <2>1, <3>1 DEF EndBank, EndLength
    <3>3. (s.endBank - 1) * BankSize + BankSize = s.endBank * BankSize
      BY <1>2, BankSizeAssumption
    <3>4. s.endBank * BankSize \in Int
      BY <1>2, BankSizeAssumption
    <3> QED BY <2>1, <3>2, <3>3, <3>4 DEF Addr
  <2>2. CASE s.endOffset # 0
    BY <2>2 DEF EndBank, EndLength
  <2> QED BY <2>1, <2>2
<1> QED BY <1>1, <1>3 DEF First, End

\* A record that is not empty becomes an active sample whose first part ends where
\* its bank or the sample does, odd addresses included.
LEMMA LoadIsSound ==
    ASSUME NEW s \in DpcmInputs, NotEmpty(s)
    PROVE  Sound(LoadDpcm(s))
<1>1. /\ s.startBank \in Int /\ 0 <= s.startBank /\ s.startBank <= 255
      /\ s.endBank \in Int /\ 0 <= s.endBank /\ s.endBank <= 255
      /\ s.startOffset \in Int /\ 0 <= s.startOffset /\ s.startOffset < BankSize
      /\ s.endOffset \in Int /\ 0 <= s.endOffset /\ s.endOffset < BankSize
  BY BankSizeAssumption DEF DpcmInputs, BankIds
<1>2. /\ EndBank(s) \in Int /\ EndBank(s) <= 255 /\ s.startBank <= EndBank(s)
      /\ EndLength(s) \in Int /\ 0 < EndLength(s) /\ EndLength(s) <= BankSize
  <2>1. CASE s.endOffset = 0
    <3>1. s.startBank < s.endBank
      BY <1>1, <2>1 DEF NotEmpty
    <3>2. EndBank(s) = s.endBank - 1 /\ EndLength(s) = BankSize
      BY <1>1, <2>1, <3>1 DEF EndBank, EndLength
    <3> QED BY <1>1, <3>1, <3>2, BankSizeAssumption
  <2>2. CASE s.endOffset # 0
    <3>1. EndBank(s) = s.endBank /\ EndLength(s) = s.endOffset
      BY <2>2 DEF EndBank, EndLength
    <3>2. s.startBank <= s.endBank
      BY <1>1 DEF NotEmpty
    <3> QED BY <1>1, <2>2, <3>1, <3>2, BankSizeAssumption
  <2> QED BY <2>1, <2>2
<1>3. StartLength(s) \in Int /\ 0 < StartLength(s) /\ StartLength(s) <= BankSize
  <2>1. CASE EndBank(s) = s.startBank
    <3>1. s.startOffset < EndLength(s)
      BY <1>1, <1>2, <2>1 DEF NotEmpty, EndBank, EndLength
    <3> QED BY <1>1, <1>2, <2>1, <3>1, BankSizeAssumption DEF StartLength
  <2>2. CASE EndBank(s) # s.startBank
    BY <1>1, <2>2, BankSizeAssumption DEF StartLength
  <2> QED BY <2>1, <2>2
<1>4. s.startOffset + StartLength(s) =
        IF s.startBank = EndBank(s) THEN EndLength(s) ELSE BankSize
  BY <1>1, <1>2, BankSizeAssumption DEF StartLength
<1> QED BY <1>1, <1>2, <1>3, <1>4 DEF Sound, LoadDpcm

LEMMA SamplesAreSound ==
    ASSUME NEW s \in Samples
    PROVE  Sound(LoadDpcm(s)) /\ s.pitch \in Pitches
  BY DpcmAssumption, LoadIsSound

-----------------------------------------------------------------------------
(* Playing.                                                                *)

LEMMA AheadIsNat ==
    ASSUME TypeOK
    PROVE  Free \in Slots /\ l \in Slots /\ Ahead \in 0 .. RingSize - 1 /\ Ahead \in Int
<1>1. c \in Slots /\ l \in Slots
  BY DEF TypeOK
<1>2. Free \in Slots
  BY <1>1, RingArithmetic DEF Free
<1> QED BY <1>1, <1>2, RingArithmetic, MarginAssumption DEF Ahead

\* Playing moves l' by one place at most; of what is ahead one sample is gone.
LEMMA SendByteEffect ==
    ASSUME TypeOK, SendByte
    PROVE  /\ dac' \in Int
           /\ accumulator' \in 0 .. PitchBase - 1
           /\ l' \in Slots
           /\ l' = l \/ l' = Succ(l)
<1>1. /\ l \in Slots /\ buffer \in [Slots -> Int]
      /\ accumulator \in 0 .. PitchBase - 1 /\ iyl \in Int
  BY DpcmAssumption DEF TypeOK
<1>2. l' = l \/ l' = Succ(l)
  BY DEF SendByte
<1>3. accumulator' \in 0 .. PitchBase - 1
  <2> DEFINE n == accumulator + iyl
  <2>1. n \in Int /\ PitchBase \in Nat \ {0}
    BY <1>1, DpcmAssumption
  <2>2. n % PitchBase \in 0 .. PitchBase - 1
    BY <2>1
  <2> QED BY <1>1, <2>2 DEF SendByte
<1> QED BY <1>1, <1>2, <1>3, RingArithmetic DEF SendByte

LEMMA SendByteIfAnyEffect ==
    ASSUME TypeOK, SendByteIfAny
    PROVE  /\ dac' \in Int
           /\ accumulator' \in 0 .. PitchBase - 1
           /\ l' \in Slots
           /\ l' = l \/ (l' = Succ(l) /\ Succ(c) # l)
<1>1. CASE Succ(c) = l
  BY <1>1 DEF SendByteIfAny, TypeOK
<1>2. CASE Succ(c) # l
  BY <1>2, SendByteEffect DEF SendByteIfAny
<1> QED BY <1>1, <1>2

-----------------------------------------------------------------------------
(* The inductive invariant.                                                *)

\* Between the first fetch and the last play of a sample.
Running == pc \notin {"Idle", "Start", "Drained", "Reswitch"}

LastOffset(bank) == IF bank = active.endBank THEN active.endLength ELSE BankSize

\* de and length stay on the sample: their sum is where the bank's part of it ends
\* (de is one byte further until the byte read is counted), and length is zero
\* exactly when there is nothing left to read from the bank.
SourceInv ==
    /\ pc # "Idle" => Sound(active)
    /\ pc \in {"Idle", "Start", "Play"} => handler = 0
    /\ pc = "Reswitch" => currentBank = active.startBank
    /\ pc = "Drain" => currentBank = active.endBank
    /\ Running =>
         /\ active.startBank <= currentBank /\ currentBank <= active.endBank
         /\ de + length = LastOffset(currentBank) + (IF pc = "Decode" THEN 1 ELSE 0)
         /\ length = 0 <=> pc \in {"Exhausted", "Drain"}

\* What the full check leaves ahead of the player at most: one more than the margin
\* says, for c is one place behind.
Room == RingSize - Margin + 1

\* The plays the handler has yet to make; the turbo loop makes one fewer.
PlaysLeft == IF handler > 1 THEN handler - 1 ELSE handler

\* The check outlives the interrupts that come after it, because they only make
\* room; and because one between inc c and di, which corrects c once too often,
\* finds all the samples it plays.
RingInv ==
    /\ pc = "Chk" /\ ReadaheadOk(a, c) => Ahead <= Room
    /\ pc \in {"Fetch", "Decode"} => Ahead <= Room
    /\ pc = "Decode" /\ handler > 0 => PlaysLeft <= Ahead

IInv == TypeOK /\ SourceInv /\ RingInv

LEMMA InitIInv == Init => IInv
<1> SUFFICES ASSUME Init PROVE IInv
  OBVIOUS
<1>1. TypeOK
  BY MarginAssumption, BankSizeAssumption, DpcmAssumption
     DEF Init, TypeOK, Labels, Slots, BankIds, NoByte, Partial
<1>2. SourceInv
  BY DEF Init, SourceInv, Running
<1>3. RingInv
  BY DEF Init, RingInv
<1> QED BY <1>1, <1>2, <1>3 DEF IInv

-----------------------------------------------------------------------------
(* Every step preserves it.                                                *)

LEMMA RequestStep ==
    ASSUME IInv, NEW s \in Samples, Request(s),
           UNCHANGED <<ring, currentBank, window, de, length, code>>
    PROVE  IInv'
<1>1. Sound(LoadDpcm(s)) /\ s.pitch \in Pitches
  BY SamplesAreSound
<1>2. active' = LoadDpcm(s) /\ pc' = "Start" /\ handler' = 0 /\ sinceVBlank' = 0
      /\ pitchInput' = s.pitch
  BY DEF Request
<1>3. TypeOK'
  BY <1>1, <1>2, DpcmAssumption DEF IInv, TypeOK, Labels, ring
<1>4. SourceInv'
  BY <1>1, <1>2 DEF SourceInv, Running
<1>5. RingInv'
  BY <1>2 DEF RingInv
<1> QED BY <1>3, <1>4, <1>5 DEF IInv

LEMMA RewindStep ==
    ASSUME IInv, Rewind, Sound(active), handler = 0,
           currentBank' = active.startBank,
           window' \in BankIds \cup {Partial}
    PROVE  IInv'
<1>1. TypeOK'
  <2>1. active.startBank \in BankIds
    BY DEF Sound, BankIds
  <2>2. active.startOffset \in 0 .. BankSize /\ active.startLength \in 0 .. BankSize
    BY BankSizeAssumption DEF Sound
  <2>3. RingSize - 1 \in Slots /\ 0 \in Slots
    BY MarginAssumption DEF Slots
  <2>4. buffer' \in [Slots -> Int]
    BY <2>3 DEF IInv, TypeOK, Rewind, Zero
  <2>5. accumulator' \in 0 .. PitchBase - 1 /\ iyl' \in Pitches \cup {0}
    BY DpcmAssumption DEF IInv, TypeOK, Rewind
  <2> QED BY <2>1, <2>2, <2>3, <2>4, <2>5 DEF IInv, TypeOK, Rewind, Labels
<1>2. SourceInv'
  <2>1. /\ pc' = "Fetch" /\ handler' = 0 /\ active' = active
        /\ de' = active.startOffset /\ length' = active.startLength
    BY DEF Rewind
  <2>2. de' + length' = LastOffset(currentBank)'
    BY <2>1, BankSizeAssumption DEF LastOffset, Sound
  <2>3. LastOffset(currentBank)' \in Int
    BY <2>1, BankSizeAssumption DEF LastOffset, Sound
  <2> QED BY <2>1, <2>2, <2>3 DEF SourceInv, Running, Sound
<1>3. RingInv'
  <2>1. Ahead' = 0
    BY MarginAssumption DEF Rewind, Ahead, Free, Corrected, Succ, Diff
  <2> QED BY <2>1, MarginAssumption DEF RingInv, Rewind, Room
<1> QED BY <1>1, <1>2, <1>3 DEF IInv

LEMMA StartStep == ASSUME IInv, Start PROVE IInv'
<1>1. active.startBank \in BankIds /\ Sound(active)
  BY DEF Start, IInv, SourceInv, Sound, BankIds
<1> QED BY <1>1, RewindStep DEF Start, IInv, TypeOK

LEMMA ReloadStep == ASSUME IInv, Reload PROVE IInv'
<1>1. Sound(active)
  BY DEF Reload, IInv, SourceInv
<1>2. CASE currentBank = active.startBank
  BY <1>1, <1>2, RewindStep DEF Reload, IInv, TypeOK
<1>3. CASE currentBank # active.startBank
  <2>1. active.startBank \in BankIds
    BY <1>1 DEF Sound, BankIds
  <2>2. TypeOK'
    BY <1>3, <2>1 DEF Reload, IInv, TypeOK, Labels, ring
  <2>3. SourceInv'
    BY <1>1, <1>3 DEF Reload, SourceInv, Running
  <2>4. RingInv'
    BY <1>3 DEF Reload, RingInv
  <2> QED BY <2>2, <2>3, <2>4 DEF IInv
<1> QED BY <1>2, <1>3

LEMMA ReswitchedStep == ASSUME IInv, Reswitched PROVE IInv'
<1>1. Sound(active) /\ currentBank = active.startBank /\ currentBank \in BankIds
  BY DEF Reswitched, IInv, TypeOK, SourceInv
<1> QED BY <1>1, RewindStep DEF Reswitched

LEMMA ReturnStep == ASSUME IInv, Return PROVE IInv'
<1>1. TypeOK'
  BY DEF Return, IInv, TypeOK, Labels, source, ring
<1>2. SourceInv'
  BY DEF Return, SourceInv, Running
<1>3. RingInv'
  BY DEF Return, RingInv
<1> QED BY <1>1, <1>2, <1>3 DEF IInv

LEMMA FetchStep == ASSUME IInv, Fetch PROVE IInv'
<1>1. /\ Running /\ Sound(active)
      /\ de \in Int /\ length \in Int /\ 0 <= de /\ 0 < length
      /\ de + length = LastOffset(currentBank)
      /\ LastOffset(currentBank) \in Int /\ LastOffset(currentBank) <= BankSize
  BY BankSizeAssumption DEF Fetch, IInv, TypeOK, SourceInv, Running, LastOffset, Sound
<1>2. TypeOK'
  <2>1. c' \in Slots
    BY RingArithmetic DEF Fetch, IInv, TypeOK
  <2>2. code' \in Int
    BY <1>1, BankSizeAssumption DEF Fetch, IInv, TypeOK, Addr, BankIds, Partial
  <2>3. de' \in 0 .. BankSize
    BY <1>1, BankSizeAssumption DEF Fetch
  <2> QED BY <2>1, <2>2, <2>3 DEF Fetch, IInv, TypeOK, Labels
<1>3. SourceInv'
  <2>1. LastOffset(currentBank)' = LastOffset(currentBank)
    BY DEF Fetch, LastOffset
  <2>2. de' + length' = LastOffset(currentBank) + 1
    BY <1>1 DEF Fetch
  <2> QED BY <1>1, <2>1, <2>2 DEF Fetch, IInv, SourceInv, Running
<1>4. RingInv'
  <2>1. Ahead' = Ahead
    BY DEF Fetch, Ahead, Free, Corrected
  <2> QED BY <2>1 DEF Fetch, IInv, RingInv, Room
<1> QED BY <1>2, <1>3, <1>4 DEF IInv

LEMMA DecodeStep == ASSUME IInv, Decode PROVE IInv'
<1>1. /\ Running /\ Sound(active)
      /\ length \in Int /\ 0 < length /\ length <= BankSize
      /\ de + length = LastOffset(currentBank) + 1
      /\ LastOffset(currentBank) \in Int
  BY BankSizeAssumption DEF Decode, IInv, TypeOK, SourceInv, Running, LastOffset, Sound
<1>2. TypeOK'
  <2>1. c \in Slots /\ Succ(c) \in Slots
    BY RingArithmetic DEF IInv, TypeOK
  <2>2. \A x, p : p \in Int => Decoded(x, p) \in Int
    BY DEF Decoded, Garbled
  <2>3. 2 * code \in Int /\ 2 * code + 1 \in Int
    BY DEF IInv, TypeOK
  <2>4. buffer' \in [Slots -> Int]
    BY <2>1, <2>2, <2>3 DEF Decode, IInv, TypeOK
  <2>5. length' \in 0 .. BankSize
    BY <1>1, BankSizeAssumption DEF Decode
  <2> QED BY <2>1, <2>4, <2>5 DEF Decode, IInv, TypeOK, Labels
<1>3. SourceInv'
  <2>1. LastOffset(currentBank)' = LastOffset(currentBank)
    BY DEF Decode, LastOffset
  <2>2. de \in Int /\ de' + length' = LastOffset(currentBank)
    BY <1>1, BankSizeAssumption DEF Decode, IInv, TypeOK
  <2> QED BY <1>1, <2>1, <2>2 DEF Decode, IInv, SourceInv, Running
<1>4. RingInv'
  BY DEF Decode, RingInv
<1> QED BY <1>2, <1>3, <1>4 DEF IInv

\* a is the position before the play: if the check passes, so much is free, and
\* the play has not gone past the first free place.
LEMMA PlayLeavesRoom ==
    ASSUME NEW x \in Slots, NEW y \in Slots, NEW z \in Slots, z = y \/ z = Succ(y),
           Diff(y, x) >= Margin
    PROVE  Diff(Succ(x), z) <= Room
  BY MarginAssumption, DpcmMarginAssumption DEF Slots, Succ, Diff, Room

LEMMA PlayStep == ASSUME IInv, Play PROVE IInv'
<1>1. /\ dac' \in Int /\ accumulator' \in 0 .. PitchBase - 1 /\ l' \in Slots
      /\ l' = l \/ l' = Succ(l)
  BY SendByteEffect DEF Play, IInv
<1>2. TypeOK'
  <2>1. sinceVBlank' \in 0 .. FrameGap
    BY DpcmAssumption DEF Play, CountIteration, IInv, TypeOK
  <2> QED BY <1>1, <2>1 DEF Play, IInv, TypeOK, Labels, source
<1>3. SourceInv'
  BY DEF Play, IInv, SourceInv, Running, source, LastOffset
<1>4. RingInv'
  <2>1. /\ c \in Slots /\ l \in Slots /\ c' = c /\ a' = l /\ pc' = "Chk"
    BY DEF Play, IInv, TypeOK
  <2>2. Ahead' = Diff(Succ(c), l')
    BY <2>1 DEF Ahead, Free, Corrected
  <2>3. Diff(l, c) >= Margin => Diff(Succ(c), l') <= Room
    BY <1>1, <2>1, PlayLeavesRoom
  <2> QED BY <2>1, <2>2, <2>3 DEF RingInv, ReadaheadOk, Room
<1> QED BY <1>2, <1>3, <1>4 DEF IInv

LEMMA ChkReadaheadStep == ASSUME IInv, ChkReadahead PROVE IInv'
<1>1. TypeOK'
  BY DEF ChkReadahead, IInv, TypeOK, Labels, source, ring
<1>2. SourceInv'
  BY DEF ChkReadahead, IInv, SourceInv, Running, source, LastOffset
<1>3. RingInv'
  BY DEF ChkReadahead, IInv, RingInv, ring, Ahead, Free, Corrected, Room
<1> QED BY <1>1, <1>2, <1>3 DEF IInv

LEMMA LastBankExhaustedStep == ASSUME IInv, LastBankExhausted PROVE IInv'
<1>1. TypeOK'
  BY DEF LastBankExhausted, IInv, TypeOK, Labels, source, ring
<1>2. SourceInv'
  BY DEF LastBankExhausted, IInv, SourceInv, Running, source, LastOffset
<1>3. RingInv'
  BY DEF LastBankExhausted, RingInv
<1> QED BY <1>1, <1>2, <1>3 DEF IInv

LEMMA LoadNextBankStep == ASSUME IInv, LoadNextBank PROVE IInv'
<1>1. /\ Sound(active) /\ currentBank \in Int
      /\ active.startBank <= currentBank /\ currentBank < active.endBank
  BY DEF LoadNextBank, IInv, TypeOK, SourceInv, Running, Sound, BankIds
<1>2. /\ currentBank' = currentBank + 1 /\ currentBank' <= active.endBank
      /\ active.startBank < currentBank' /\ currentBank' \in BankIds
  BY <1>1 DEF LoadNextBank, Sound, BankIds
<1>3. length' = LastOffset(currentBank)' /\ length' \in Int /\ 0 < length'
      /\ length' <= BankSize /\ de' = 0
  BY <1>1, BankSizeAssumption DEF LoadNextBank, LastOffset, Sound
<1>4. TypeOK'
  BY <1>2, <1>3, BankSizeAssumption DEF LoadNextBank, IInv, TypeOK, Labels, ring
<1>5. SourceInv'
  <2>1. active' = active /\ pc' = "Switch"
    BY DEF LoadNextBank
  <2>2. /\ active'.startBank <= currentBank' /\ currentBank' <= active'.endBank
        /\ de' + length' = LastOffset(currentBank)'
        /\ length' # 0
    BY <1>1, <1>2, <1>3, <2>1 DEF Sound
  <2>3. Sound(active')
    BY <1>1, <2>1
  <2>4. LastOffset(currentBank)' \in Int
    BY <1>3
  <2> QED BY <2>1, <2>2, <2>3, <2>4 DEF SourceInv, Running
<1>6. RingInv'
  BY DEF LoadNextBank, RingInv
<1> QED BY <1>4, <1>5, <1>6 DEF IInv

LEMMA NextBankLoadedStep == ASSUME IInv, NextBankLoaded PROVE IInv'
<1>1. TypeOK'
  BY DEF NextBankLoaded, IInv, TypeOK, Labels, ring
<1>2. SourceInv'
  BY DEF NextBankLoaded, IInv, SourceInv, Running, LastOffset
<1>3. RingInv'
  BY DEF NextBankLoaded, RingInv
<1> QED BY <1>1, <1>2, <1>3 DEF IInv

LEMMA DrainStep == ASSUME IInv, Drain PROVE IInv'
<1>1. /\ dac' \in Int /\ accumulator' \in 0 .. PitchBase - 1 /\ l' \in Slots
  BY SendByteEffect DEF Drain, IInv
<1>2. TypeOK'
  <2>1. sinceVBlank' \in 0 .. FrameGap
    BY DpcmAssumption DEF Drain, CountIteration, IInv, TypeOK
  <2> QED BY <1>1, <2>1 DEF Drain, IInv, TypeOK, Labels, source
<1>3. SourceInv'
  BY DEF Drain, IInv, SourceInv, Running, source, LastOffset
<1>4. RingInv'
  BY DEF Drain, RingInv
<1> QED BY <1>2, <1>3, <1>4 DEF IInv

LEMMA DrainDoneStep == ASSUME IInv, DrainDone PROVE IInv'
<1>1. TypeOK'
  BY RingArithmetic DEF DrainDone, IInv, TypeOK, Labels, source
<1>2. SourceInv'
  BY DEF DrainDone, IInv, SourceInv, Running, source
<1>3. RingInv'
  BY DEF DrainDone, RingInv
<1> QED BY <1>1, <1>2, <1>3 DEF IInv

\* What the steps of the handler that play have in common.
LEMMA HandlerPlayStep ==
    ASSUME IInv, handler > 0, SendByteIfAny, handler' \in 0 .. VBlankPlays + 3,
           handler' > 0 => PlaysLeft' <= PlaysLeft - 1,
           sinceVBlank' \in 0 .. FrameGap, iyl' \in Pitches \cup {0},
           UNCHANGED <<pc, pitchInput, source, c, a, buffer>>
    PROVE  IInv'
<1>1. /\ dac' \in Int /\ accumulator' \in 0 .. PitchBase - 1 /\ l' \in Slots
      /\ l' = l \/ (l' = Succ(l) /\ Succ(c) # l)
  BY SendByteIfAnyEffect DEF IInv
<1>2. TypeOK'
  BY <1>1 DEF IInv, TypeOK, source
<1>3. SourceInv'
  BY DEF IInv, TypeOK, SourceInv, Running, source, LastOffset
<1>4. RingInv'
  <2>1. /\ pc' = pc /\ c' = c /\ a' = a /\ Free' = Free /\ handler \in Int
        /\ Free \in Slots /\ l \in Slots /\ Ahead \in Int /\ Ahead' = Diff(Free, l')
    BY AheadIsNat DEF IInv, TypeOK, Free, Corrected, Ahead
  <2>2. ASSUME Free # l
        PROVE  Ahead' = Ahead \/ Ahead' = Ahead - 1
    BY <1>1, <2>1, <2>2, RingArithmetic DEF Ahead
  <2>3. CASE pc = "Decode"
    <3>1. 1 <= PlaysLeft \/ handler = 1
      BY <2>1 DEF PlaysLeft
    <3>2. 1 <= PlaysLeft /\ PlaysLeft \in Int
      BY <2>1 DEF PlaysLeft
    <3>3. PlaysLeft <= Ahead
      BY <2>3 DEF IInv, RingInv
    <3>4. Free # l
      BY <2>1, <3>2, <3>3, RingArithmetic DEF Ahead
    <3>5. PlaysLeft' \in Int
      BY <2>1, DpcmAssumption DEF PlaysLeft
    <3> QED BY <2>1, <2>2, <2>3, <3>2, <3>3, <3>4, <3>5, MarginAssumption DEF IInv, RingInv, Room
  <2>4. CASE pc \in {"Fetch", "Chk"}
    <3>1. Free = Succ(c)
      BY <2>4 DEF Free, Corrected
    <3>2. Ahead' = Ahead \/ Ahead' = Ahead - 1
      BY <1>1, <2>1, <2>2, <3>1 DEF Ahead
    <3> QED BY <2>1, <2>4, <3>2, MarginAssumption DEF IInv, RingInv, Room, ReadaheadOk
  <2> QED BY <2>1, <2>3, <2>4 DEF RingInv
<1> QED BY <1>2, <1>3, <1>4 DEF IInv

\* An interrupt in the middle of a fetch does not find fewer samples than it plays.
EnoughWhenFetching == "Decode" \notin Coincidences

LEMMA NextIInv ==
    ASSUME EnoughWhenFetching, IInv, [Next]_vars
    PROVE  IInv'
<1>1. CASE IdleVBlank
  BY <1>1, RequestStep DEF IdleVBlank
<1>2. CASE MainLoop
  BY <1>2, StartStep, ReloadStep, ReswitchedStep, ReturnStep, FetchStep, DecodeStep,
     PlayStep, ChkReadaheadStep, LastBankExhaustedStep, LoadNextBankStep,
     NextBankLoadedStep, DrainStep, DrainDoneStep
     DEF MainLoop
<1>3. CASE VBlank
  <2>1. TypeOK'
    BY <1>3, DpcmAssumption DEF VBlank, IInv, TypeOK, ring, source
  <2>2. SourceInv'
    BY <1>3 DEF VBlank, IInv, SourceInv, Running, source, LastOffset, IrqPoints
  <2>3. RingInv'
    <3>1. Ahead' = Ahead /\ Ahead \in Int /\ handler' = VBlankPlays + 3
      BY <1>3, AheadIsNat DEF VBlank, IInv, ring, Ahead, Free, Corrected
    <3>2. pc = "Decode" => VBlankPlays + 2 <= Ahead
      BY <1>3, <3>1, DpcmAssumption DEF VBlank, EnoughWhenFetching
    <3>3. PlaysLeft' = VBlankPlays + 2
      BY <3>1, DpcmAssumption DEF PlaysLeft
    <3> QED BY <1>3, <3>1, <3>2, <3>3 DEF VBlank, IInv, RingInv, ring, Room
  <2> QED BY <2>1, <2>2, <2>3 DEF IInv
<1>4. CASE VBlankPhase
  <2>1. /\ handler' \in 0 .. VBlankPlays + 3 /\ handler > 0
        /\ PlaysLeft' <= PlaysLeft - 1
    BY <1>4, DpcmAssumption DEF VBlankPhase, IInv, TypeOK, PlaysLeft
  <2>2. sinceVBlank' \in 0 .. FrameGap /\ iyl' \in Pitches \cup {0}
    BY <1>4 DEF VBlankPhase, IInv, TypeOK
  <2> QED BY <1>4, <2>1, <2>2, HandlerPlayStep DEF VBlankPhase
<1>5. CASE LastIteration
  <2>1. /\ handler' \in 0 .. VBlankPlays + 3 /\ handler > 0
        /\ PlaysLeft' <= PlaysLeft - 1
    BY <1>5, DpcmAssumption DEF LastIteration, PlaysLeft
  <2>2. sinceVBlank' \in 0 .. FrameGap /\ iyl' \in Pitches \cup {0}
    BY <1>5 DEF LastIteration, IInv, TypeOK
  <2> QED BY <1>5, <2>1, <2>2, HandlerPlayStep DEF LastIteration
<1>6. CASE ProcessCommandInput
  <2>1. CASE handler' = 1 /\ UNCHANGED <<pc, sinceVBlank, pitchInput, active>>
    <3>1. TypeOK'
      BY <1>6, <2>1, DpcmAssumption DEF ProcessCommandInput, IInv, TypeOK, ring
    <3>2. SourceInv'
      BY <1>6, <2>1 DEF ProcessCommandInput, IInv, SourceInv, Running, LastOffset
    <3>3. RingInv'
      BY <1>6, <2>1 DEF ProcessCommandInput, IInv, RingInv, ring, Ahead, Free, Corrected,
         Room, PlaysLeft
    <3> QED BY <3>1, <3>2, <3>3 DEF IInv
  <2>2. CASE handler' = 0 /\ pc' = "Idle" /\ UNCHANGED <<sinceVBlank, pitchInput, active>>
    <3>1. TypeOK'
      BY <1>6, <2>2, DpcmAssumption DEF ProcessCommandInput, IInv, TypeOK, ring, Labels
    <3>2. SourceInv'
      BY <1>6, <2>2 DEF ProcessCommandInput, SourceInv, Running
    <3>3. RingInv'
      BY <1>6, <2>2 DEF ProcessCommandInput, RingInv
    <3> QED BY <3>1, <3>2, <3>3 DEF IInv
  <2>3. CASE \E s \in Samples : Request(s)
    BY <1>6, <2>3, RequestStep DEF ProcessCommandInput
  <2> QED BY <1>6, <2>1, <2>2, <2>3 DEF ProcessCommandInput
<1>7. CASE VBlankReturn
  <2>1. /\ handler = 1 /\ handler' = 0 /\ handler' \in 0 .. VBlankPlays + 3
        /\ sinceVBlank' \in 0 .. FrameGap /\ iyl' \in Pitches \cup {0}
    BY <1>7, DpcmAssumption DEF VBlankReturn, IInv, TypeOK
  <2>2. CASE ~active.turbo
    BY <1>7, <2>1, <2>2, HandlerPlayStep DEF VBlankReturn
  <2>3. CASE active.turbo
    <3>1. TypeOK'
      BY <1>7, <2>1, <2>3 DEF VBlankReturn, IInv, TypeOK, source
    <3>2. SourceInv'
      BY <1>7, <2>1 DEF VBlankReturn, IInv, SourceInv, Running, source, LastOffset
    <3>3. RingInv'
      BY <1>7, <2>1, <2>3 DEF VBlankReturn, IInv, RingInv, Ahead, Free, Corrected, Room
    <3> QED BY <3>1, <3>2, <3>3 DEF IInv
  <2> QED BY <2>2, <2>3
<1>8. CASE SetPitch
  <2>1. TypeOK'
    BY <1>8 DEF SetPitch, IInv, TypeOK, ring, source
  <2>2. SourceInv'
    BY <1>8 DEF SetPitch, IInv, SourceInv, Running, source, LastOffset
  <2>3. RingInv'
    BY <1>8 DEF SetPitch, IInv, RingInv, ring, Ahead, Free, Corrected, Room, PlaysLeft
  <2> QED BY <2>1, <2>2, <2>3 DEF IInv
<1>9. CASE UNCHANGED vars
  <2>1. TypeOK'
    BY <1>9 DEF vars, IInv, TypeOK, ring, source
  <2>2. SourceInv'
    BY <1>9 DEF vars, IInv, SourceInv, Running, source, LastOffset
  <2>3. RingInv'
    BY <1>9 DEF vars, IInv, RingInv, ring, Ahead, Free, Corrected, Room, PlaysLeft
  <2> QED BY <2>1, <2>2, <2>3 DEF IInv
<1> QED BY <1>1, <1>2, <1>3, <1>4, <1>5, <1>6, <1>7, <1>8, <1>9 DEF Next, Handler

THEOREM Invariance ==
    ASSUME EnoughWhenFetching
    PROVE  Spec => []IInv
<1>1. Init => IInv
  BY InitIInv
<1>2. IInv /\ [Next]_vars => IInv'
  BY NextIInv
<1> QED BY <1>1, <1>2, PTL DEF Spec

-----------------------------------------------------------------------------
(* What follows from it.                                                   *)

\* Every variable stays in its range: pointers on the ring, the source in the window.
THEOREM TypeCorrect ==
    ASSUME EnoughWhenFetching
    PROVE  Spec => []TypeOK
<1>1. IInv => TypeOK
  BY DEF IInv
<1> QED BY <1>1, Invariance, PTL

\* For any ring and any margin of at least four (megapcm.asm:150) the decoder overwrites nothing that has not been played,
\* whatever VBlanks at the end of a sample and cut bank switches do.
THEOREM NeverOverruns ==
    ASSUME EnoughWhenFetching
    PROVE  Spec => NoOverrun
<1>1. IInv /\ [Next]_vars =>
        [pc = "Decode" =>
           \A n \in 0 .. Ahead - 1 : buffer'[Plus(l, n)] = buffer[Plus(l, n)]]_vars
  <2> SUFFICES ASSUME IInv, Next, pc = "Decode", NEW n \in 0 .. Ahead - 1
               PROVE  buffer'[Plus(l, n)] = buffer[Plus(l, n)]
    OBVIOUS
  <2>1. CASE Decode
    <3>1. /\ c \in Slots /\ l \in Slots /\ Ahead <= Room
          /\ buffer \in [Slots -> Int] /\ Ahead = Diff(c, l)
      BY DEF IInv, TypeOK, RingInv, Ahead, Free, Corrected
    <3>2. /\ Plus(l, n) \in Slots
          /\ Plus(l, n) # c /\ Plus(l, n) # Succ(c)
      BY <3>1, MarginAssumption, DpcmMarginAssumption DEF Plus, Diff, Succ, Slots, Room
    <3> QED BY <2>1, <3>1, <3>2 DEF Decode
  <2>2. CASE ~Decode
    <3>1. UNCHANGED buffer
      BY <2>2 DEF Next, MainLoop, Handler, IdleVBlank, Start, Reload, Reswitched,
         Return, Fetch, Play, ChkReadahead, LastBankExhausted, LoadNextBank,
         NextBankLoaded, Drain, DrainDone, VBlank, VBlankPhase, LastIteration,
         ProcessCommandInput, VBlankReturn, SetPitch, ring
    <3> QED BY <3>1
  <2> QED BY <2>1, <2>2
<1> QED BY <1>1, Invariance, PTL DEF Spec, NoOverrun

-----------------------------------------------------------------------------
(* The stream: what has come out is a prefix of the sample.                *)

\* Plays of one VBlank, at most.
Plays == VBlankPlays + 2

\* The byte whose samples come next, and the position of the first of them.
Offset  == IF pc = "Decode" THEN de - 1 ELSE de
Here    == 2 * Addr(currentBank, Offset)
Opening == 2 * Addr(active.startBank, active.startOffset)

\* What the decoder adds to when it makes the sample at a position.
Before(position) == IF position = Opening THEN Zero ELSE position - 1

MinOf(x, y) == IF x <= y THEN x ELSE y

InFirstPart == active.loop /\ currentBank = active.startBank

\* The decoder is n samples ahead or, in a looping sample that has just started
\* over, at least half of what it has decoded.
Level(n, iterations) ==
    \/ n >= MinOf(iterations, Plays)
    \/ InFirstPart /\ n >= Offset - active.startOffset

\* At a bank switch: the last byte has put two samples more than that into the
\* buffer.  A loop inside one bank has no switches.
Filled(n) ==
    \/ Ahead >= n + 2
    \/ active.loop /\ active.startBank = active.endBank

\* The window shows CurrentBank but for the time of a switch.
WindowInv ==
    /\ pc \notin {"Idle", "Start", "Switch", "Reswitch"} => window = currentBank
    /\ pc \in {"Idle", "Start"} =>
         window = currentBank \/ \A s \in Samples : s.startBank # currentBank
    /\ pc \in {"Drained", "Reswitch"} => handler = 0
    /\ pc = "Reswitch" => active.loop
    /\ pc = "Switch" => active.startBank < currentBank

\* How full the buffer is, label by label.
FillInv ==
    /\ pc \in {"Fetch", "Decode", "Chk"} /\ handler = 0 => Level(Ahead, sinceVBlank)
    /\ pc = "Play" =>
         /\ Ahead >= 2
         /\ Level(Ahead - 1, sinceVBlank + 1)
    /\ pc \in {"Exhausted", "Switch"} /\ handler = 0 =>
         Filled(MinOf(sinceVBlank, Plays))
    /\ pc \in {"Exhausted", "Switch"} /\ handler > 0 =>
         Filled(PlaysLeft)

\* A check that found the buffer full, with a position an interrupt has made
\* stale since: what the handler played is missing, but no more.
StaleInv ==
    pc = "Chk" /\ ~ReadaheadOk(a, c) =>
        Ahead >= RingSize - Margin + 1 -
                 (IF handler > 0 THEN Plays - PlaysLeft
                  ELSE IF sinceVBlank = 0 THEN Plays ELSE 0)

\* In a handler the count of iterations stands at its limit; a sample starts
\* with a new count.
CountInv ==
    /\ handler > 0 => sinceVBlank = FrameGap
    /\ pc = "Start" => sinceVBlank = 0

\* The samples that wait to be played are those that precede the next to decode.
ContentInv ==
    Running =>
        \A n \in 0 .. Ahead - 1 : buffer[Plus(l, n)] = Here - Ahead + n

\* The sample the decoder will add to is still there, played or not, one place
\* before the first free one; and what it adds is the byte due.
DecoderInv ==
    Running =>
      /\ 0 <= Offset
      /\ currentBank = active.startBank => active.startOffset <= Offset
      /\ buffer[Plus(Free, RingSize - 1)] = Before(Here)
      /\ pc = "Decode" => code = Addr(currentBank, Offset)

Flow == WindowInv /\ FillInv /\ StaleInv /\ CountInv /\ ContentInv /\ DecoderInv

StreamInv == IInv /\ Flow

-----------------------------------------------------------------------------
(* What the proofs below need of the type invariant and of the samples.    *)

LEMMA Numbers ==
    ASSUME IInv
    PROVE  /\ c \in Slots /\ l \in Slots /\ a \in Slots /\ Free \in Slots
           /\ Ahead \in Int /\ 0 <= Ahead /\ Ahead <= RingSize - 1
           /\ Ahead = 0 <=> Free = l
           /\ de \in Int /\ 0 <= de /\ length \in Int /\ 0 <= length
           /\ Offset \in Int
           /\ currentBank \in Int /\ window \in Int
           /\ sinceVBlank \in Int /\ 0 <= sinceVBlank /\ sinceVBlank <= FrameGap
           /\ handler \in Int /\ 0 <= handler /\ handler <= VBlankPlays + 3
           /\ VBlankPlays \in Int /\ 0 <= VBlankPlays /\ FrameGap \in Int
           /\ RingSize \in Int /\ Margin \in Int /\ 4 <= Margin
<1>1. c \in Slots /\ l \in Slots /\ a \in Slots /\ Free \in Slots
  BY RingArithmetic DEF IInv, TypeOK, Free
<1>2. Ahead \in 0 .. RingSize - 1 /\ (Ahead = 0 <=> Free = l)
  BY <1>1, RingArithmetic DEF Ahead
<1>3. RingSize \in Int /\ Margin \in Int /\ 4 <= Margin
  BY MarginAssumption, DpcmMarginAssumption
<1>4. /\ de \in Int /\ 0 <= de /\ length \in Int /\ 0 <= length
      /\ currentBank \in Int /\ window \in Int
  BY BankSizeAssumption DEF IInv, TypeOK, BankIds, Partial
<1>5. VBlankPlays \in Int /\ 0 <= VBlankPlays /\ FrameGap \in Int
  BY DpcmAssumption
<1>6. /\ sinceVBlank \in Int /\ 0 <= sinceVBlank /\ sinceVBlank <= FrameGap
      /\ handler \in Int /\ 0 <= handler /\ handler <= VBlankPlays + 3
  BY <1>5 DEF IInv, TypeOK
<1>7. Offset \in Int
  BY <1>4 DEF Offset
<1> QED BY <1>1, <1>2, <1>3, <1>4, <1>5, <1>6, <1>7

LEMMA AddrIsInt ==
    ASSUME NEW bank \in Int, NEW off \in Int
    PROVE  /\ Addr(bank, off) \in Int
           /\ Addr(bank, off + 1) = Addr(bank, off) + 1
<1> DEFINE base == bank * BankSize
<1>1. base \in Int
  BY BankSizeAssumption
<1>2. Addr(bank, off) = base + off /\ Addr(bank, off + 1) = base + (off + 1)
  BY DEF Addr
<1> HIDE DEF base
<1> QED BY <1>1, <1>2

LEMMA HereIsInt == ASSUME IInv PROVE Here \in Int
<1>1. Addr(currentBank, Offset) \in Int
  BY Numbers, AddrIsInt
<1> QED BY <1>1 DEF Here

LEMMA ActiveIsASample ==
    ASSUME IInv, pc # "Idle"
    PROVE  \E s \in Samples : active = LoadDpcm(s)
<1>1. active # NoSample
  BY DEF IInv, SourceInv, Sound, NoSample
<1> QED BY <1>1 DEF IInv, TypeOK

\* The first part of a looping sample refills the buffer by half.
LEMMA FirstPartIsLong ==
    ASSUME IInv, LongLoops, pc # "Idle",
           active.loop, active.startBank # active.endBank
    PROVE  active.startLength >= VBlankPlays + 3
<1>1. PICK s \in Samples : active = LoadDpcm(s)
  BY ActiveIsASample
<1> QED BY <1>1 DEF LongLoops, LoadDpcm

\* What comes next is the first sample, or comes after it.
LEMMA NotBeforeOpening ==
    ASSUME IInv, DecoderInv, Running
    PROVE  Opening \in Int /\ Opening <= Here
<1>1. /\ active.startBank \in Int /\ active.startOffset \in Int
      /\ active.startBank <= currentBank /\ active.startOffset < BankSize
      /\ currentBank \in Int /\ Offset \in Int
  BY Numbers DEF IInv, SourceInv, Sound, Running
<1>2. /\ Addr(active.startBank, active.startOffset) \in Int
      /\ Addr(currentBank, Offset) \in Int
  BY <1>1, AddrIsInt
<1>3. Addr(active.startBank, active.startOffset) <= Addr(currentBank, Offset)
  <2>1. CASE active.startBank = currentBank
    <3>1. active.startOffset <= Offset
      BY <2>1 DEF DecoderInv
    <3>2. currentBank * BankSize \in Int
      BY <1>1, BankSizeAssumption
    <3> QED BY <1>1, <2>1, <3>1, <3>2 DEF Addr
  <2>2. CASE active.startBank # currentBank
    <3>1. Offset \in Nat
      BY <1>1 DEF DecoderInv
    <3> QED BY <1>1, <2>2, <3>1, AddrOrder, BankSizeAssumption
  <2> QED BY <2>1, <2>2
<1> QED BY <1>2, <1>3 DEF Opening, Here

\* The margin that was tested leaves room for the two samples of a byte.
LEMMA DecodeAdvances ==
    ASSUME IInv, Decode
    PROVE  Ahead' = Ahead + 2
<1>1. /\ Ahead <= Room /\ Ahead = Diff(c, l)
      /\ Ahead' = Diff(Succ(Succ(c)), l)
  BY DEF Decode, IInv, RingInv, Ahead, Free, Corrected
<1>2. c \in Slots /\ l \in Slots /\ Succ(c) \in Slots
  BY Numbers, RingArithmetic
<1>3. Diff(Succ(c), l) = Ahead + 1
  BY <1>1, <1>2, Numbers, RingArithmetic DEF Room
<1>4. Diff(Succ(Succ(c)), l) = Diff(Succ(c), l) + 1
  BY <1>1, <1>2, <1>3, Numbers, RingArithmetic DEF Room
<1> QED BY <1>1, <1>3, <1>4, Numbers

\* The end of a bank and the start of the next are the same place.
LEMMA BankBoundary ==
    ASSUME IInv, LoadNextBank
    PROVE  /\ active.startBank < currentBank'
           /\ Here' = Here
<1>1. /\ active.startBank \in Int /\ active.endBank \in Int /\ active.endBank <= 255
      /\ active.startBank <= currentBank /\ currentBank < active.endBank
      /\ 0 <= active.startBank
      /\ de = BankSize /\ BankSize \in Int
  <2>1. /\ active.startBank \in Int /\ active.endBank \in Int /\ active.endBank <= 255
        /\ active.startBank <= currentBank /\ currentBank <= active.endBank
        /\ 0 <= active.startBank
        /\ de + length = BankSize /\ length = 0
    BY Numbers, BankSizeAssumption
       DEF LoadNextBank, IInv, SourceInv, Sound, LastOffset, Running
  <2> QED BY <2>1, Numbers, BankSizeAssumption DEF LoadNextBank
<1>2. currentBank' = currentBank + 1 /\ de' = 0 /\ pc = "Exhausted" /\ pc' = "Switch"
  BY <1>1, Numbers DEF LoadNextBank
<1>3. (currentBank + 1) * BankSize + 0 = currentBank * BankSize + BankSize
  BY <1>1, Numbers
<1>4. Addr(currentBank', de') = Addr(currentBank, de)
  BY <1>1, <1>2, <1>3 DEF Addr
<1>5. Here' = Here
  BY <1>2, <1>4 DEF Here, Offset
<1> QED BY <1>1, <1>2, <1>5, Numbers

\* A play from a buffer that is not empty sends the sample that is due, and then
\* the samples after it are due.
LEMMA PlayOne ==
    ASSUME IInv, ContentInv, Running, Free # l, SendByte,
           UNCHANGED <<Free, buffer, Here>>
    PROVE  /\ dac' = Here - Ahead
           /\ l' \in Slots
           /\ Ahead' \in {Ahead, Ahead - 1}
           /\ \A n \in 0 .. Ahead' - 1 :
                buffer'[Plus(l', n)] = Here' - Ahead' + n
<1>1. /\ Free \in Slots /\ l \in Slots /\ Ahead \in Int /\ 1 <= Ahead
      /\ Ahead <= RingSize - 1 /\ RingSize \in Int
      /\ Ahead = Diff(Free, l) /\ Ahead' = Diff(Free, l')
  BY Numbers DEF Ahead
<1>2. Here \in Int /\ Here' = Here
  BY HereIsInt
<1>3. buffer[Plus(l, 0)] = Here - Ahead
  <2>1. 0 \in 0 .. Ahead - 1
    BY <1>1
  <2>2. buffer[Plus(l, 0)] = Here - Ahead + 0
    BY <2>1 DEF ContentInv
  <2> QED BY <2>2, <1>1, <1>2
<1>4. Plus(l, 0) = l
  BY <1>1 DEF Plus, Slots
<1>5. dac' = Here - Ahead
  BY <1>3, <1>4 DEF SendByte
<1>6. CASE l' = l
  <2>1. Ahead' = Ahead
    BY <1>1, <1>6
  <2> QED BY <1>1, <1>2, <1>5, <1>6, <2>1 DEF ContentInv
<1>7. CASE l' = Succ(l)
  <2>1. Ahead' = Ahead - 1 /\ l' \in Slots
    BY <1>1, <1>7, RingArithmetic
  <2>2. ASSUME NEW n \in 0 .. Ahead' - 1
        PROVE  buffer'[Plus(l', n)] = Here' - Ahead' + n
    <3>1. n \in Int /\ n + 1 \in 0 .. Ahead - 1
      BY <1>1, <2>1
    <3>2. Plus(l', n) = Plus(l, n + 1)
      BY <1>1, <1>7, <3>1 DEF Plus, Succ, Slots
    <3>3. buffer[Plus(l, n + 1)] = Here - Ahead + (n + 1)
      BY <3>1 DEF ContentInv
    <3> QED BY <1>1, <1>2, <2>1, <3>1, <3>2, <3>3
  <2> QED BY <1>2, <1>5, <2>1, <2>2
<1>8. l' = l \/ l' = Succ(l)
  BY DEF SendByte
<1> QED BY <1>6, <1>7, <1>8

-----------------------------------------------------------------------------
(* The steps of the main loop.                                             *)

\* Nothing else has happened to the decoder, or to the samples that wait.
LEMMA DecoderKept ==
    ASSUME DecoderInv, Running, UNCHANGED <<active, currentBank, Offset, Free, buffer>>,
           pc' = "Decode" => pc = "Decode" /\ UNCHANGED code
    PROVE  DecoderInv'
<1>1. Here' = Here /\ Opening' = Opening
  BY DEF Here, Opening
<1>2. Before(Here)' = Before(Here)
  BY <1>1 DEF Before
<1> QED BY <1>2 DEF DecoderInv

LEMMA ContentKept ==
    ASSUME ContentInv, Running, UNCHANGED <<Here, Free, l, buffer>>
    PROVE  ContentInv'
<1>1. Ahead' = Ahead
  BY DEF Ahead
<1> QED BY <1>1 DEF ContentInv

LEMMA InitFlow ==
    ASSUME NoSampleInBank255, Init
    PROVE  Flow
<1>1. WindowInv
  <2>1. pc = "Idle" /\ window = -1 /\ currentBank = 255
    BY DEF Init, Partial
  <2>2. \A s \in Samples : s.startBank # currentBank
    BY <2>1 DEF NoSampleInBank255
  <2> QED BY <2>1, <2>2 DEF WindowInv
<1>2. FillInv /\ StaleInv /\ CountInv /\ ContentInv /\ DecoderInv
  BY DEF Init, FillInv, StaleInv, CountInv, ContentInv, DecoderInv, Running
<1> QED BY <1>1, <1>2 DEF Flow

LEMMA RequestFlow ==
    ASSUME NEW s \in Samples, Request(s), UNCHANGED <<currentBank, window>>,
           window = currentBank \/ \A t \in Samples : t.startBank # currentBank
    PROVE  Flow'
<1>1. pc' = "Start" /\ handler' = 0 /\ sinceVBlank' = 0
  BY DEF Request
<1>2. WindowInv'
  BY <1>1 DEF WindowInv
<1>3. FillInv' /\ StaleInv' /\ CountInv' /\ ContentInv' /\ DecoderInv'
  BY <1>1 DEF FillInv, StaleInv, CountInv, ContentInv, DecoderInv, Running
<1> QED BY <1>2, <1>3 DEF Flow

\* A sample starts over with an empty buffer, which is as full as it should be
\* at the start of a frame, or at the start of a looping sample; the decoder
\* finds 80h where it looks for the sample before the first.
LEMMA RewindFlow ==
    ASSUME IInv, IInv', Rewind, handler = 0, pc # "Idle",
           currentBank' = active.startBank, window' = currentBank',
           active.loop \/ sinceVBlank = 0
    PROVE  Flow'
<1>1. /\ pc' = "Fetch" /\ handler' = 0 /\ sinceVBlank' = sinceVBlank
      /\ active' = active /\ c' = RingSize - 1 /\ l' = 0 /\ de' = active.startOffset
      /\ buffer' = [buffer EXCEPT ![RingSize - 1] = Zero]
  BY DEF Rewind
<1>2. Free' = 0 /\ Ahead' = 0
  BY <1>1, Numbers DEF Free, Corrected, Succ, Ahead, Diff
<1>3. active.startOffset \in Int /\ 0 <= active.startOffset /\ Offset' = active.startOffset
  BY <1>1 DEF IInv, SourceInv, Sound, Offset
<1>4. WindowInv'
  BY <1>1 DEF WindowInv
<1>5. FillInv'
  <2>1. Level(Ahead, sinceVBlank)'
    <3>1. CASE active.loop
      <4>1. InFirstPart'
        BY <1>1, <3>1 DEF InFirstPart
      <4>2. (Ahead >= Offset - active.startOffset)'
        BY <1>1, <1>2, <1>3
      <4> QED BY <4>1, <4>2 DEF Level
    <3>2. CASE sinceVBlank = 0
      <4>1. MinOf(sinceVBlank, Plays)' = 0
        BY <1>1, <3>2, Numbers DEF MinOf, Plays
      <4> QED BY <1>2, <4>1 DEF Level
    <3> QED BY <3>1, <3>2
  <2> QED BY <1>1, <2>1 DEF FillInv
<1>6. StaleInv' /\ CountInv'
  BY <1>1 DEF StaleInv, CountInv
<1>7. ContentInv'
  BY <1>2 DEF ContentInv
<1>8. DecoderInv'
  <2>1. Plus(Free, RingSize - 1)' = RingSize - 1 /\ RingSize - 1 \in Slots
    BY <1>2, Numbers, MarginAssumption DEF Plus, Slots
  <2>2. buffer'[RingSize - 1] = Zero
    BY <1>1, <2>1 DEF IInv, TypeOK
  <2>3. Here' = Opening'
    BY <1>1, <1>3 DEF Here, Opening
  <2>4. Before(Here)' = Zero
    BY <2>3 DEF Before
  <2> QED BY <1>1, <1>3, <2>1, <2>2, <2>4 DEF DecoderInv
<1> QED BY <1>4, <1>5, <1>6, <1>7, <1>8 DEF Flow

LEMMA StartFlow ==
    ASSUME IInv, IInv', Flow, Start
    PROVE  Flow'
<1>1. pc = "Start" /\ handler = 0
  BY DEF Start
<1>2. PICK s \in Samples : active = LoadDpcm(s)
  BY <1>1, ActiveIsASample
<1>3. active.startBank = s.startBank
  BY <1>2 DEF LoadDpcm
<1>4. window' = currentBank' /\ currentBank' = active.startBank
  BY <1>1, <1>3 DEF Flow, WindowInv, Start
<1>5. sinceVBlank = 0
  BY <1>1 DEF Flow, CountInv
<1> QED BY <1>1, <1>4, <1>5, RewindFlow DEF Start

LEMMA ReloadFlow ==
    ASSUME IInv, IInv', Flow, Reload
    PROVE  Flow'
<1>1. pc = "Drained" /\ handler = 0 /\ window = currentBank /\ active.loop
  BY DEF Reload, Flow, WindowInv
<1>2. CASE currentBank = active.startBank
  BY <1>1, <1>2, RewindFlow DEF Reload
<1>3. CASE currentBank # active.startBank
  <2>1. pc' = "Reswitch" /\ handler' = 0 /\ UNCHANGED <<active, sinceVBlank>>
    BY <1>1, <1>3 DEF Reload
  <2>2. WindowInv'
    BY <1>1, <2>1 DEF WindowInv
  <2>3. FillInv' /\ StaleInv' /\ CountInv' /\ ContentInv' /\ DecoderInv'
    BY <2>1 DEF FillInv, StaleInv, CountInv, ContentInv, DecoderInv, Running
  <2> QED BY <2>2, <2>3 DEF Flow
<1> QED BY <1>2, <1>3

LEMMA ReswitchedFlow ==
    ASSUME IInv, IInv', Flow, Reswitched
    PROVE  Flow'
<1>1. /\ pc = "Reswitch" /\ handler = 0 /\ active.loop /\ Rewind
      /\ window' = currentBank' /\ currentBank' = active.startBank
  BY DEF Reswitched, Flow, WindowInv, IInv, SourceInv
<1> QED BY <1>1, RewindFlow

LEMMA ReturnFlow ==
    ASSUME Flow, Return
    PROVE  Flow'
<1>1. /\ pc = "Drained" /\ pc' = "Idle" /\ handler' = 0
      /\ UNCHANGED <<currentBank, window>>
  BY DEF Return, source
<1>2. WindowInv'
  BY <1>1 DEF Flow, WindowInv
<1>3. FillInv' /\ StaleInv' /\ CountInv' /\ ContentInv' /\ DecoderInv'
  BY <1>1 DEF FillInv, StaleInv, CountInv, ContentInv, DecoderInv, Running
<1> QED BY <1>2, <1>3 DEF Flow

\* The byte is read before the pointer moves: nothing else has changed.
LEMMA FetchFlow ==
    ASSUME IInv, IInv', Flow, Fetch
    PROVE  Flow'
<1>1. /\ pc = "Fetch" /\ handler = 0 /\ Running /\ pc' = "Decode" /\ handler' = 0
      /\ code' = Addr(window, de) /\ de' = de + 1 /\ c' = Succ(c)
      /\ UNCHANGED <<active, currentBank, window, sinceVBlank, l, buffer>>
  BY DEF Fetch, Running
<1>2. Free' = Free /\ Offset' = Offset /\ Offset = de
  BY <1>1, Numbers DEF Free, Corrected, Offset
<1>3. Here' = Here /\ Ahead' = Ahead
  BY <1>1, <1>2 DEF Here, Ahead
<1>4. WindowInv'
  BY <1>1 DEF Flow, WindowInv
<1>5. FillInv'
  <2>1. Level(Ahead, sinceVBlank)
    BY <1>1 DEF Flow, FillInv
  <2>2. Level(Ahead, sinceVBlank)'
    BY <1>1, <1>2, <1>3, <2>1 DEF Level, InFirstPart, MinOf, Plays
  <2> QED BY <1>1, <2>2 DEF FillInv
<1>6. StaleInv' /\ CountInv'
  BY <1>1 DEF StaleInv, CountInv
<1>7. ContentInv'
  BY <1>1, <1>2, <1>3, ContentKept DEF Flow
<1>8. DecoderInv'
  <2>1. Before(Here)' = Before(Here) /\ window = currentBank
    BY <1>1, <1>3 DEF Flow, WindowInv, Before, Opening
  <2> QED BY <1>1, <1>2, <2>1 DEF Flow, DecoderInv
<1> QED BY <1>4, <1>5, <1>6, <1>7, <1>8 DEF Flow

\* Both deltas are added to the sample before: the decoder makes the two samples
\* that are due, in the first two free places.
LEMMA DecodeWrites ==
    ASSUME IInv, DecoderInv, Decode
    PROVE  /\ Offset' = Offset + 1 /\ Here' = Here + 2
           /\ c \in Slots /\ Succ(c) \in Slots /\ Succ(c) # c
           /\ buffer' = [buffer EXCEPT ![c] = Here, ![Succ(c)] = Here + 1]
           /\ buffer'[Plus(Free, RingSize - 1)'] = Before(Here)'
<1>1. /\ pc = "Decode" /\ pc' # "Decode" /\ Running /\ Running' /\ de' = de
      /\ c' = Succ(c) /\ Free = c /\ Free' = Succ(Succ(c))
      /\ UNCHANGED <<active, currentBank>>
  BY DEF Decode, Running, Free, Corrected
<1>2. Offset \in Int /\ Offset = de - 1 /\ Offset' = Offset + 1 /\ currentBank \in Int
  BY <1>1, Numbers DEF Offset
<1>3. /\ Here \in Int /\ Here = 2 * code /\ Here' = Here + 2
  <2>1. code = Addr(currentBank, Offset) /\ Here = 2 * Addr(currentBank, Offset)
    BY <1>1 DEF DecoderInv, Here
  <2>2. /\ Addr(currentBank, Offset) \in Int
        /\ Addr(currentBank, Offset + 1) = Addr(currentBank, Offset) + 1
    BY <1>2, AddrIsInt
  <2>3. Here' = 2 * Addr(currentBank, Offset + 1)
    BY <1>1, <1>2 DEF Here
  <2> QED BY <2>1, <2>2, <2>3
<1>4. Opening \in Int /\ Opening <= Here /\ Opening' = Opening
  BY <1>1, NotBeforeOpening DEF Opening
<1>5. c \in Slots /\ Succ(c) \in Slots /\ Succ(c) # c
  <2>1. c \in Slots /\ Succ(c) \in Slots
    BY Numbers, RingArithmetic
  <2> QED BY <2>1, MarginAssumption DEF Slots, Succ
<1>6. Decoded(buffer[Plus(c, RingSize - 1)], 2 * code) = Here
  <2>1. buffer[Plus(c, RingSize - 1)] = Before(Here)
    BY <1>1 DEF DecoderInv
  <2> QED BY <1>3, <2>1 DEF Decoded, Before, Opening
<1>7. Decoded(Here, 2 * code + 1) = Here + 1
  BY <1>3, <1>4 DEF Decoded, Opening
<1>8. buffer' = [buffer EXCEPT ![c] = Here, ![Succ(c)] = Here + 1]
  BY <1>6, <1>7 DEF Decode
<1>9. buffer'[Plus(Free, RingSize - 1)'] = Before(Here)'
  <2>1. Plus(Free, RingSize - 1)' = Succ(c)
    <3>1. Plus(Succ(Succ(c)), RingSize - 1) = Succ(c)
      BY <1>5, MarginAssumption DEF Plus, Succ, Slots
    <3> QED BY <1>1, <3>1 DEF Plus
  <2>2. Before(Here)' = Here + 1
    BY <1>3, <1>4 DEF Before
  <2>3. buffer'[Succ(c)] = Here + 1
    BY <1>5, <1>8 DEF IInv, TypeOK
  <2> QED BY <2>1, <2>2, <2>3
<1> QED BY <1>2, <1>3, <1>5, <1>8, <1>9

LEMMA DecodeContent ==
    ASSUME IInv, ContentInv, DecoderInv, Decode
    PROVE  ContentInv'
<1>1. /\ Ahead' = Ahead + 2 /\ Ahead <= Room /\ Ahead = Diff(c, l)
      /\ l' = l /\ Running
  BY DecodeAdvances DEF Decode, IInv, RingInv, Ahead, Free, Corrected, Running
<1>2. /\ Here' = Here + 2 /\ c \in Slots /\ Succ(c) \in Slots /\ Succ(c) # c
      /\ buffer' = [buffer EXCEPT ![c] = Here, ![Succ(c)] = Here + 1]
  BY DecodeWrites
<1> SUFFICES ASSUME NEW n \in 0 .. Ahead' - 1
             PROVE  buffer'[Plus(l', n)] = Here' - Ahead' + n
  BY DEF ContentInv
<1>3. /\ n \in Int /\ 0 <= n /\ n <= Ahead + 1
      /\ l \in Slots /\ buffer \in [Slots -> Int]
  BY <1>1, Numbers DEF IInv, TypeOK
<1>4. CASE n < Ahead
  <2>1. Plus(l, n) \in Slots /\ Plus(l, n) # c /\ Plus(l, n) # Succ(c)
    BY <1>1, <1>2, <1>3, <1>4, MarginAssumption, DpcmMarginAssumption
       DEF Plus, Diff, Succ, Slots, Room
  <2>2. buffer'[Plus(l, n)] = buffer[Plus(l, n)]
    BY <1>2, <1>3, <2>1
  <2>3. n \in 0 .. Ahead - 1
    BY <1>3, <1>4, Numbers
  <2>4. buffer[Plus(l, n)] = Here - Ahead + n
    BY <1>1, <2>3 DEF ContentInv
  <2> QED BY <1>1, <1>2, <1>3, <2>2, <2>4, Numbers, HereIsInt
<1>5. CASE n = Ahead
  <2>1. Plus(l, n) = c
    BY <1>1, <1>2, <1>3, <1>5, MarginAssumption DEF Plus, Diff, Slots
  <2>2. buffer'[c] = Here
    BY <1>2, <1>3
  <2> QED BY <1>1, <1>2, <1>5, <2>1, <2>2, Numbers, HereIsInt
<1>6. CASE n = Ahead + 1
  <2>1. Plus(l, n) = Succ(c)
    BY <1>1, <1>2, <1>3, <1>6, MarginAssumption, DpcmMarginAssumption
       DEF Plus, Diff, Succ, Slots, Room
  <2>2. buffer'[Succ(c)] = Here + 1
    BY <1>2, <1>3
  <2> QED BY <1>1, <1>2, <1>6, <2>1, <2>2, Numbers, HereIsInt
<1> QED BY <1>3, <1>4, <1>5, <1>6, Numbers

\* Two samples more; at the end of a looping first part they are half of it,
\* which is a full refill.
LEMMA DecodeFlow ==
    ASSUME LongLoops, IInv, IInv', Flow, Decode
    PROVE  Flow'
<1>1. /\ pc = "Decode" /\ handler = 0 /\ Running
      /\ handler' = 0 /\ length' = length - 1
      /\ pc' = IF length' = 0 THEN "Exhausted" ELSE "Play"
      /\ UNCHANGED <<active, currentBank, window, sinceVBlank>>
  BY DEF Decode, Running
<1>2. /\ Ahead' = Ahead + 2 /\ Offset' = Offset + 1
      /\ buffer'[Plus(Free, RingSize - 1)'] = Before(Here)'
  BY DecodeAdvances, DecodeWrites DEF Flow
<1>3. Level(Ahead, sinceVBlank)
  BY <1>1 DEF Flow, FillInv
<1>4. active.startOffset \in Int /\ active.startLength \in Int
  BY <1>1 DEF IInv, SourceInv, Sound
<1>5. WindowInv'
  BY <1>1 DEF Flow, WindowInv
<1>6. FillInv'
  <2>1. CASE length' # 0
    <3>1. Ahead' >= 2
      BY <1>2, Numbers
    <3>2. Level(Ahead - 1, sinceVBlank + 1)'
      <4>1. CASE Ahead >= MinOf(sinceVBlank, Plays)
        <5>1. Ahead' - 1 >= MinOf(sinceVBlank + 1, Plays)'
          BY <1>1, <1>2, <4>1, Numbers DEF MinOf, Plays
        <5> QED BY <5>1 DEF Level
      <4>2. CASE InFirstPart /\ Ahead >= Offset - active.startOffset
        <5>1. InFirstPart' /\ Ahead' - 1 >= Offset' - active'.startOffset
          BY <1>1, <1>2, <1>4, <4>2, Numbers DEF InFirstPart
        <5> QED BY <5>1 DEF Level
      <4> QED BY <1>3, <4>1, <4>2 DEF Level
    <3> QED BY <1>1, <2>1, <3>1, <3>2 DEF FillInv
  <2>2. CASE length' = 0
    <3>1. Filled(MinOf(sinceVBlank, Plays))'
      <4>1. CASE Ahead >= MinOf(sinceVBlank, Plays)
        BY <1>1, <1>2, <4>1, Numbers DEF Filled, MinOf, Plays
      <4>2. CASE InFirstPart /\ Ahead >= Offset - active.startOffset
        <5>1. CASE active.startBank = active.endBank
          BY <1>1, <4>2, <5>1 DEF Filled, InFirstPart
        <5>2. CASE active.startBank # active.endBank
          <6>1. /\ active.startOffset + active.startLength = BankSize
                /\ de + length = BankSize + 1 /\ Offset = de - 1 /\ length = 1
            BY <1>1, <2>2, <4>2, <5>2, Numbers
               DEF IInv, SourceInv, Sound, InFirstPart, LastOffset, Offset
          <6>2. Offset - active.startOffset = active.startLength - 1
            BY <1>4, <6>1, Numbers, BankSizeAssumption
          <6>3. active.startLength >= VBlankPlays + 3
            BY <1>1, <4>2, <5>2, FirstPartIsLong DEF InFirstPart
          <6>4. Ahead >= VBlankPlays + 2
            BY <1>4, <4>2, <6>2, <6>3, Numbers
          <6> QED BY <1>1, <1>2, <6>4, Numbers DEF Filled, MinOf, Plays
        <5> QED BY <5>1, <5>2
      <4> QED BY <1>3, <4>1, <4>2 DEF Level
    <3>2. pc' = "Exhausted" /\ handler' = 0
      BY <1>1, <2>2
    <3> QED BY <3>1, <3>2 DEF FillInv
  <2> QED BY <2>1, <2>2
<1>7. StaleInv' /\ CountInv'
  BY <1>1 DEF StaleInv, CountInv
<1>8. ContentInv'
  BY DecodeContent DEF Flow
<1>9. DecoderInv'
  <2>1. 0 <= Offset' /\ pc' # "Decode"
    BY <1>1, <1>2, Numbers DEF Flow, DecoderInv
  <2>2. currentBank' = active'.startBank => active'.startOffset <= Offset'
    BY <1>1, <1>2, <1>4, Numbers DEF Flow, DecoderInv
  <2> QED BY <1>2, <2>1, <2>2 DEF DecoderInv
<1> QED BY <1>5, <1>6, <1>7, <1>8, <1>9 DEF Flow

\* A play of the main loop takes one sample and counts one iteration.
LEMMA PlayFlow ==
    ASSUME RefillInTime, IInv, IInv', Flow, Play
    PROVE  Flow'
<1>1. /\ pc = "Play" /\ handler = 0 /\ Running
      /\ pc' = "Chk" /\ handler' = 0 /\ a' = l /\ SendByte
      /\ UNCHANGED <<active, currentBank, window, de, c, buffer>>
      /\ sinceVBlank' = IF sinceVBlank < FrameGap THEN sinceVBlank + 1 ELSE FrameGap
  BY DEF Play, Running, CountIteration, source
<1>2. Ahead >= 2 /\ Level(Ahead - 1, sinceVBlank + 1)
  BY <1>1 DEF Flow, FillInv
<1>3. /\ Free # l /\ Free = Succ(c) /\ Ahead = Diff(Succ(c), l)
      /\ Free' = Free /\ Offset' = Offset /\ Here' = Here
  BY <1>1, <1>2, Numbers DEF Free, Corrected, Offset, Here, Ahead
<1>4. /\ l' \in Slots /\ Ahead' \in {Ahead, Ahead - 1}
      /\ \A n \in 0 .. Ahead' - 1 :
           buffer'[Plus(l', n)] = Here' - Ahead' + n
  BY <1>1, <1>3, PlayOne DEF Flow
<1>5. WindowInv'
  BY <1>1 DEF Flow, WindowInv
<1>6. FillInv'
  <2>1. Level(Ahead, sinceVBlank)'
    <3>1. CASE Ahead - 1 >= MinOf(sinceVBlank + 1, Plays)
      <4>1. Ahead' >= MinOf(sinceVBlank, Plays)'
        BY <1>1, <1>4, <3>1, Numbers DEF MinOf, Plays, RefillInTime
      <4> QED BY <4>1 DEF Level
    <3>2. CASE InFirstPart /\ Ahead - 1 >= Offset - active.startOffset
      <4>1. active.startOffset \in Int
        BY <1>1 DEF IInv, SourceInv, Sound
      <4>2. InFirstPart' /\ Ahead' >= Offset' - active'.startOffset
        BY <1>1, <1>3, <1>4, <3>2, <4>1, Numbers DEF InFirstPart
      <4> QED BY <4>2 DEF Level
    <3> QED BY <1>2, <3>1, <3>2 DEF Level
  <2> QED BY <1>1, <2>1 DEF FillInv
<1>7. StaleInv'
  <2>1. sinceVBlank' # 0
    BY <1>1, Numbers DEF RefillInTime
  <2>2. Diff(l, c) < Margin => Ahead >= RingSize - Margin + 2
    <3>1. c \in Slots /\ l \in Slots /\ Diff(Succ(c), l) >= 2
      BY <1>2, <1>3, Numbers
    <3> QED BY <1>3, <3>1, MarginAssumption DEF Diff, Succ, Slots
  <2>3. ReadaheadOk(a, c)' <=> Diff(l, c) >= Margin
    BY <1>1 DEF ReadaheadOk
  <2>4. Diff(l, c) \in Int
    BY Numbers DEF Diff, Slots
  <2> QED BY <1>1, <1>4, <2>1, <2>2, <2>3, <2>4, Numbers DEF StaleInv
<1>8. CountInv'
  BY <1>1 DEF CountInv
<1>9. ContentInv'
  BY <1>4 DEF ContentInv
<1>10. DecoderInv'
  BY <1>1, <1>3, DecoderKept DEF Flow
<1> QED BY <1>5, <1>6, <1>7, <1>8, <1>9, <1>10 DEF Flow

LEMMA ChkReadaheadFlow ==
    ASSUME RefillInTime, IInv, IInv', Flow, ChkReadahead
    PROVE  Flow'
<1>1. /\ pc = "Chk" /\ handler = 0 /\ Running /\ Level(Ahead, sinceVBlank)
      /\ pc' = IF ReadaheadOk(a, c) THEN "Fetch" ELSE "Play"
      /\ UNCHANGED <<handler, sinceVBlank, active, currentBank, window, de, c, l, a, buffer>>
  BY DEF ChkReadahead, Running, ring, source, Flow, FillInv
<1>2. Free' = Free /\ Offset' = Offset /\ Ahead' = Ahead /\ Here' = Here
  BY <1>1 DEF Free, Corrected, Offset, Ahead, Here
<1>3. Level(Ahead, sinceVBlank)' <=> Level(Ahead, sinceVBlank)
  BY <1>1, <1>2 DEF Level, InFirstPart, MinOf, Plays
<1>4. WindowInv'
  BY <1>1 DEF Flow, WindowInv
<1>5. FillInv'
  <2>1. CASE ReadaheadOk(a, c)
    <3>1. pc' = "Fetch" /\ handler' = 0
      BY <1>1, <2>1
    <3> QED BY <1>1, <1>3, <3>1 DEF FillInv
  <2>2. CASE ~ReadaheadOk(a, c)
    <3>1. pc' = "Play" /\ handler' = 0
      BY <1>1, <2>2
    <3>2. Ahead >= RingSize - Margin + 1 - (IF sinceVBlank = 0 THEN Plays ELSE 0)
      BY <1>1, <2>2, Numbers DEF Flow, StaleInv
    <3>3. Ahead >= 2 /\ Ahead - 1 >= MinOf(sinceVBlank + 1, Plays)
      BY <3>2, Numbers DEF MinOf, Plays, RefillInTime
    <3>4. Ahead' >= 2 /\ Level(Ahead - 1, sinceVBlank + 1)'
      <4>1. Ahead' - 1 >= MinOf(sinceVBlank + 1, Plays)'
        BY <1>1, <1>2, <3>3 DEF MinOf, Plays
      <4> QED BY <1>2, <3>3, <4>1 DEF Level
    <3> QED BY <3>1, <3>4 DEF FillInv
  <2> QED BY <2>1, <2>2
<1>6. StaleInv' /\ CountInv'
  BY <1>1 DEF StaleInv, CountInv
<1>7. ContentInv' /\ DecoderInv'
  BY <1>1, <1>2, ContentKept, DecoderKept DEF Flow
<1> QED BY <1>4, <1>5, <1>6, <1>7 DEF Flow

LEMMA LastBankExhaustedFlow ==
    ASSUME Flow, LastBankExhausted
    PROVE  Flow'
<1>1. /\ pc = "Exhausted" /\ handler = 0 /\ Running /\ pc' = "Drain"
      /\ UNCHANGED <<handler, sinceVBlank, active, currentBank, window, de, c, l, buffer>>
  BY DEF LastBankExhausted, Running, ring, source
<1>2. Free' = Free /\ Offset' = Offset /\ Here' = Here
  BY <1>1 DEF Free, Corrected, Offset, Here
<1>3. WindowInv'
  BY <1>1 DEF Flow, WindowInv
<1>4. FillInv' /\ StaleInv' /\ CountInv'
  BY <1>1 DEF FillInv, StaleInv, CountInv
<1>5. ContentInv' /\ DecoderInv'
  BY <1>1, <1>2, ContentKept, DecoderKept DEF Flow
<1> QED BY <1>3, <1>4, <1>5 DEF Flow

LEMMA LoadNextBankFlow ==
    ASSUME IInv, IInv', Flow, LoadNextBank
    PROVE  Flow'
<1>1. /\ pc = "Exhausted" /\ handler = 0 /\ Running /\ pc' = "Switch" /\ de' = 0
      /\ UNCHANGED <<handler, sinceVBlank, active, c, l, buffer>>
  BY DEF LoadNextBank, Running, ring
<1>2. Free' = Free /\ Ahead' = Ahead /\ Here' = Here /\ active.startBank < currentBank'
  BY <1>1, BankBoundary DEF Free, Corrected, Ahead
<1>3. WindowInv'
  BY <1>1, <1>2 DEF WindowInv
<1>4. FillInv'
  <2>1. Filled(MinOf(sinceVBlank, Plays))'
    BY <1>1, <1>2 DEF Flow, FillInv, Filled, MinOf, Plays
  <2> QED BY <1>1, <2>1 DEF FillInv
<1>5. StaleInv' /\ CountInv'
  BY <1>1 DEF Flow, StaleInv, CountInv
<1>6. ContentInv'
  BY <1>1, <1>2, ContentKept DEF Flow
<1>7. DecoderInv'
  <2>1. Before(Here)' = Before(Here)
    BY <1>1, <1>2 DEF Before, Opening
  <2>2. Offset' = 0 /\ currentBank' # active'.startBank
    <3>1. active.startBank \in Int
      BY <1>1 DEF IInv, SourceInv, Sound
    <3> QED BY <1>1, <1>2, <3>1 DEF Offset
  <2> QED BY <1>1, <1>2, <2>1, <2>2 DEF Flow, DecoderInv
<1> QED BY <1>3, <1>4, <1>5, <1>6, <1>7 DEF Flow

\* The play after a switch finds its sample.
LEMMA NextBankLoadedFlow ==
    ASSUME IInv, IInv', Flow, NextBankLoaded
    PROVE  Flow'
<1>1. /\ pc = "Switch" /\ handler = 0 /\ Running /\ pc' = "Play"
      /\ window' = currentBank
      /\ UNCHANGED <<handler, sinceVBlank, active, currentBank, de, c, l, buffer>>
  BY DEF NextBankLoaded, Running, ring
<1>2. Free' = Free /\ Offset' = Offset /\ Ahead' = Ahead /\ Here' = Here
  BY <1>1 DEF Free, Corrected, Offset, Ahead, Here
<1>3. WindowInv'
  BY <1>1 DEF WindowInv
<1>4. FillInv'
  <2>1. Filled(MinOf(sinceVBlank, Plays)) /\ active.startBank < currentBank
    BY <1>1 DEF Flow, FillInv, WindowInv
  <2>2. active.startBank # active.endBank
    <3>1. /\ active.startBank \in Int /\ active.endBank \in Int
          /\ currentBank <= active.endBank
      BY <1>1 DEF IInv, SourceInv, Sound
    <3> QED BY <2>1, <3>1, Numbers
  <2>3. Ahead >= MinOf(sinceVBlank, Plays) + 2
    BY <2>1, <2>2 DEF Filled
  <2>4. Ahead' >= 2 /\ Ahead' - 1 >= MinOf(sinceVBlank + 1, Plays)'
    BY <1>1, <1>2, <2>3, Numbers DEF MinOf, Plays
  <2>5. Level(Ahead - 1, sinceVBlank + 1)'
    BY <2>4 DEF Level
  <2> QED BY <1>1, <2>4, <2>5 DEF FillInv
<1>5. StaleInv' /\ CountInv'
  BY <1>1 DEF StaleInv, CountInv
<1>6. ContentInv' /\ DecoderInv'
  BY <1>1, <1>2, ContentKept, DecoderKept DEF Flow
<1> QED BY <1>3, <1>4, <1>5, <1>6 DEF Flow

LEMMA DrainFlow ==
    ASSUME IInv, Flow, Drain
    PROVE  Flow'
<1>1. /\ pc = "Drain" /\ handler = 0 /\ Running /\ Succ(c) # l /\ SendByte
      /\ pc' = "Drain"
      /\ UNCHANGED <<handler, active, currentBank, window, de, c, buffer>>
  BY DEF Drain, Running, source
<1>2. Free = Succ(c) /\ Free' = Free /\ Offset' = Offset /\ Here' = Here
  BY <1>1 DEF Free, Corrected, Offset, Here
<1>3. \A n \in 0 .. Ahead' - 1 : buffer'[Plus(l', n)] = Here' - Ahead' + n
  BY <1>1, <1>2, PlayOne DEF Flow
<1>4. WindowInv'
  BY <1>1 DEF Flow, WindowInv
<1>5. FillInv' /\ StaleInv' /\ CountInv'
  BY <1>1 DEF FillInv, StaleInv, CountInv
<1>6. ContentInv'
  BY <1>3 DEF ContentInv
<1>7. DecoderInv'
  BY <1>1, <1>2, DecoderKept DEF Flow
<1> QED BY <1>4, <1>5, <1>6, <1>7 DEF Flow

LEMMA DrainDoneFlow ==
    ASSUME Flow, DrainDone
    PROVE  Flow'
<1>1. /\ pc = "Drain" /\ handler = 0 /\ pc' = "Drained" /\ handler' = 0
      /\ UNCHANGED <<currentBank, window>>
  BY DEF DrainDone, source
<1>2. WindowInv'
  BY <1>1 DEF Flow, WindowInv
<1>3. FillInv' /\ StaleInv' /\ CountInv' /\ ContentInv' /\ DecoderInv'
  BY <1>1 DEF FillInv, StaleInv, CountInv, ContentInv, DecoderInv, Running
<1> QED BY <1>2, <1>3 DEF Flow

-----------------------------------------------------------------------------
(* The steps of the handler.                                               *)

\* No command or VBlank falls where it breaks the stream.
NoCoincidence == Coincidences = {}

LEMMA HandlerPoints ==
    ASSUME IInv, Flow, handler > 0
    PROVE  /\ pc \in {"Fetch", "Decode", "Chk", "Exhausted", "Switch", "Drain"}
           /\ Running
<1>1. handler # 0
  BY Numbers
<1> QED BY <1>1 DEF IInv, TypeOK, SourceInv, Labels, Flow, WindowInv, Running

\* A handler that finds the buffer empty leaves it, wherever it interrupted.
LEMMA HandlerPlays ==
    ASSUME IInv, Flow, handler > 0, SendByteIfAny
    PROVE  \/ Free = l /\ UNCHANGED <<dac, accumulator, l>>
           \/ Free # l /\ SendByte
<1>1. /\ pc \in {"Fetch", "Decode", "Chk", "Exhausted", "Switch", "Drain"}
      /\ handler \in Int /\ c \in Slots /\ l \in Slots
  BY HandlerPoints, Numbers
<1>2. CASE pc = "Decode"
  <2>1. PlaysLeft <= Ahead /\ Ahead <= Room
    BY <1>2 DEF IInv, RingInv
  <2>2. Free = c /\ Free # l
    BY <1>1, <1>2, <2>1, Numbers DEF PlaysLeft, Free, Corrected
  <2>3. Succ(c) # l
    <3>1. Diff(c, l) <= Room
      BY <2>1, <2>2 DEF Ahead
    <3> QED BY <1>1, <3>1, MarginAssumption, DpcmMarginAssumption DEF Diff, Succ, Slots, Room
  <2> QED BY <2>2, <2>3 DEF SendByteIfAny
<1>3. CASE pc # "Decode"
  <2>1. Free = Succ(c)
    BY <1>1, <1>3 DEF Free, Corrected
  <2> QED BY <2>1 DEF SendByteIfAny
<1> QED BY <1>2, <1>3

LEMMA VBlankFlow ==
    ASSUME RefillInTime, NoCoincidence, IInv, IInv', Flow, VBlank
    PROVE  Flow'
<1>1. /\ handler = 0 /\ sinceVBlank = FrameGap
      /\ handler' = VBlankPlays + 3
      /\ pc \notin {"Idle", "Start", "Play", "Drained", "Reswitch"}
      /\ UNCHANGED <<pc, sinceVBlank, active, currentBank, window, de, code, c, l, a, buffer>>
  BY DEF VBlank, IrqPoints, NoCoincidence, ring, source
<1>2. /\ Free' = Free /\ Offset' = Offset /\ Ahead' = Ahead /\ Here' = Here
      /\ handler' > 0 /\ PlaysLeft' = Plays
      /\ MinOf(sinceVBlank, Plays) = Plays
  BY <1>1, Numbers DEF Free, Corrected, Offset, Ahead, Here, PlaysLeft, Plays, MinOf,
     RefillInTime
<1>3. WindowInv'
  BY <1>1 DEF Flow, WindowInv
<1>4. FillInv'
  <2>1. CASE pc \in {"Exhausted", "Switch"}
    <3>1. Filled(Plays)
      BY <1>1, <1>2, <2>1 DEF Flow, FillInv
    <3>2. Filled(PlaysLeft)'
      BY <1>1, <1>2, <3>1 DEF Filled
    <3>3. pc' \in {"Exhausted", "Switch"} /\ handler' # 0
      BY <1>1, <1>2, <2>1
    <3> QED BY <3>2, <3>3 DEF FillInv
  <2>2. CASE pc \notin {"Exhausted", "Switch"}
    BY <1>1, <1>2, <2>2 DEF FillInv
  <2> QED BY <2>1, <2>2
<1>5. StaleInv'
  <2>1. sinceVBlank # 0
    BY <1>1, Numbers DEF RefillInTime
  <2>2. /\ Plays' - PlaysLeft' = 0
        /\ ReadaheadOk(a, c)' <=> ReadaheadOk(a, c)
    BY <1>1, <1>2, Numbers DEF Plays, ReadaheadOk
  <2>3. pc = "Chk" /\ ~ReadaheadOk(a, c) => Ahead >= RingSize - Margin + 1 - 0
    BY <1>1, <2>1 DEF Flow, StaleInv
  <2> QED BY <1>1, <1>2, <2>2, <2>3, Numbers DEF StaleInv
<1>6. CountInv'
  BY <1>1 DEF CountInv
<1>7. ContentInv' /\ DecoderInv'
  BY <1>1, <1>2, ContentKept, DecoderKept DEF Flow, Running
<1> QED BY <1>3, <1>4, <1>5, <1>6, <1>7 DEF Flow

\* A step of the handler uses up one sample at most, and one play.
LEMMA HandlerPlayFlow ==
    ASSUME IInv, IInv', Flow, handler > 0, handler # 2,
           SendByteIfAny \/ UNCHANGED <<dac, accumulator, l>>,
           handler' = handler - 1,
           sinceVBlank' = IF handler = 1 THEN 0 ELSE sinceVBlank,
           UNCHANGED <<pc, active, currentBank, window, de, code, c, a, buffer>>
    PROVE  Flow'
<1>1. /\ pc \in {"Fetch", "Decode", "Chk", "Exhausted", "Switch", "Drain"}
      /\ Running
  BY HandlerPoints
<1>2. /\ Free' = Free /\ Offset' = Offset /\ Here' = Here
      /\ Ahead = Diff(Free, l) /\ Ahead' = Diff(Free, l')
  BY DEF Free, Corrected, Offset, Here, Ahead
<1>3. /\ Ahead' \in Int /\ Ahead' >= Ahead - 1 /\ Ahead' >= 0
      /\ ContentInv'
  <2>1. CASE UNCHANGED <<dac, accumulator, l>>
    BY <1>1, <1>2, <2>1, ContentKept, Numbers DEF Flow
  <2>2. CASE Free # l /\ SendByte
    <3>1. /\ Ahead' \in {Ahead, Ahead - 1}
          /\ \A n \in 0 .. Ahead' - 1 : buffer'[Plus(l', n)] = Here' - Ahead' + n
      BY <1>1, <1>2, <2>2, PlayOne DEF Flow
    <3>2. Ahead >= 1
      BY <2>2, Numbers
    <3> QED BY <3>1, <3>2, Numbers DEF ContentInv
  <2> QED BY <2>1, <2>2, HandlerPlays
<1>4. PlaysLeft \in Int /\ PlaysLeft >= 1 /\ PlaysLeft' = PlaysLeft - 1
  BY Numbers DEF PlaysLeft
<1>5. handler' > 0 \/ (handler' = 0 /\ sinceVBlank' = 0 /\ PlaysLeft' = 0)
  BY Numbers DEF PlaysLeft
<1>6. WindowInv'
  BY <1>1 DEF Flow, WindowInv
<1>7. FillInv'
  <2>1. CASE pc \in {"Exhausted", "Switch"}
    <3>1. Filled(PlaysLeft)
      BY <2>1 DEF Flow, FillInv
    <3>2. Filled(PlaysLeft)'
      BY <1>3, <1>4, <3>1, Numbers DEF Filled
    <3>3. handler' = 0 => Filled(MinOf(sinceVBlank, Plays))'
      <4>1. SUFFICES ASSUME handler' = 0 PROVE Filled(MinOf(sinceVBlank, Plays))'
        OBVIOUS
      <4>2. MinOf(sinceVBlank, Plays)' = 0 /\ PlaysLeft' = 0
        BY <1>5, <4>1, Numbers DEF MinOf, Plays
      <4> QED BY <3>2, <4>2 DEF Filled
    <3> QED BY <2>1, <3>2, <3>3 DEF FillInv
  <2>2. CASE pc \in {"Fetch", "Decode", "Chk"}
    <3>1. handler' = 0 => Level(Ahead, sinceVBlank)'
      <4>1. SUFFICES ASSUME handler' = 0 PROVE Level(Ahead, sinceVBlank)'
        OBVIOUS
      <4>2. MinOf(sinceVBlank, Plays)' = 0
        BY <1>5, <4>1, Numbers DEF MinOf, Plays
      <4> QED BY <1>3, <4>2 DEF Level
    <3> QED BY <2>2, <3>1 DEF FillInv
  <2>3. CASE pc = "Drain"
    BY <2>3 DEF FillInv
  <2> QED BY <1>1, <2>1, <2>2, <2>3
<1>8. StaleInv'
  <2>1. SUFFICES ASSUME pc = "Chk", ~ReadaheadOk(a, c)
                 PROVE  Ahead' >= RingSize - Margin + 1 -
                          (IF handler' > 0 THEN Plays - PlaysLeft'
                           ELSE IF sinceVBlank' = 0 THEN Plays ELSE 0)
    BY DEF StaleInv, ReadaheadOk, Plays
  <2>2. Ahead >= RingSize - Margin + 1 - (Plays - PlaysLeft)
    BY <2>1 DEF Flow, StaleInv
  <2> QED BY <1>3, <1>4, <1>5, <2>2, Numbers DEF Plays
<1>9. CountInv'
  BY <1>1, Numbers DEF Flow, CountInv
<1>10. DecoderInv'
  BY <1>1, <1>2, DecoderKept DEF Flow
<1> QED BY <1>3, <1>6, <1>7, <1>8, <1>9, <1>10 DEF Flow

\* No step that moves something else than the buffer and its source.
LEMMA SameFlow ==
    ASSUME Flow,
           UNCHANGED <<pc, handler, sinceVBlank, active, currentBank, window,
                       de, code, c, l, a, buffer>>
    PROVE  Flow'
<1>1. /\ Free' = Free /\ Offset' = Offset /\ Ahead' = Ahead /\ Here' = Here
      /\ PlaysLeft' = PlaysLeft /\ Plays' = Plays
      /\ MinOf(sinceVBlank, Plays)' = MinOf(sinceVBlank, Plays)
      /\ ReadaheadOk(a, c)' <=> ReadaheadOk(a, c)
  BY DEF Free, Corrected, Offset, Ahead, Here, PlaysLeft, Plays, MinOf, ReadaheadOk
<1>2. /\ Level(Ahead, sinceVBlank)' <=> Level(Ahead, sinceVBlank)
      /\ Level(Ahead - 1, sinceVBlank + 1)' <=> Level(Ahead - 1, sinceVBlank + 1)
      /\ Filled(PlaysLeft)' <=> Filled(PlaysLeft)
      /\ Filled(MinOf(sinceVBlank, Plays))' <=> Filled(MinOf(sinceVBlank, Plays))
  BY <1>1 DEF Level, InFirstPart, Filled, MinOf, Plays
<1>3. WindowInv'
  BY DEF Flow, WindowInv
<1>4. FillInv'
  BY <1>1, <1>2 DEF Flow, FillInv
<1>5. StaleInv'
  BY <1>1 DEF Flow, StaleInv
<1>6. CountInv'
  BY DEF Flow, CountInv
<1>7. ContentInv'
  BY <1>1 DEF Flow, ContentInv, Running
<1>8. DecoderInv'
  <2>1. Before(Here)' = Before(Here)
    BY <1>1 DEF Before, Opening
  <2> QED BY <1>1, <2>1 DEF Flow, DecoderInv, Running
<1> QED BY <1>3, <1>4, <1>5, <1>6, <1>7, <1>8 DEF Flow

\* A command does not cut a bank switch, so it finds the window in order.
LEMMA ProcessCommandInputFlow ==
    ASSUME NoCoincidence, IInv, IInv', Flow, ProcessCommandInput
    PROVE  Flow'
<1>1. /\ handler = 2 /\ pc \in {"Fetch", "Decode", "Chk", "Exhausted", "Switch", "Drain"}
      /\ Running
      /\ UNCHANGED <<currentBank, window, de, code, c, l, a, buffer>>
  BY HandlerPoints DEF ProcessCommandInput, ring
<1>2. pc # "Switch" => window = currentBank
  BY <1>1 DEF Flow, WindowInv
<1>3. CASE handler' = 1 /\ UNCHANGED <<pc, sinceVBlank, pitchInput, active>>
  <2>1. /\ Free' = Free /\ Offset' = Offset /\ Ahead' = Ahead /\ Here' = Here
        /\ PlaysLeft = 1 /\ PlaysLeft' = 1
    BY <1>1, <1>3 DEF Free, Corrected, Offset, Ahead, Here, PlaysLeft
  <2>2. WindowInv'
    BY <1>1, <1>3 DEF Flow, WindowInv
  <2>3. FillInv'
    <3>1. Filled(PlaysLeft)' <=> Filled(PlaysLeft)
      BY <1>1, <1>3, <2>1 DEF Filled
    <3> QED BY <1>1, <1>3, <2>1, <3>1 DEF Flow, FillInv
  <2>4. StaleInv'
    <3>1. ReadaheadOk(a, c)' <=> ReadaheadOk(a, c)
      BY <1>1 DEF ReadaheadOk
    <3> QED BY <1>1, <1>3, <2>1, <3>1 DEF Flow, StaleInv, Plays
  <2>5. CountInv'
    BY <1>1, <1>3 DEF Flow, CountInv
  <2>6. ContentInv' /\ DecoderInv'
    BY <1>1, <1>3, <2>1, ContentKept, DecoderKept DEF Flow
  <2> QED BY <2>2, <2>3, <2>4, <2>5, <2>6 DEF Flow
<1>4. CASE pc # "Switch" /\ handler' = 0 /\ pc' = "Idle"
  <2>1. WindowInv'
    BY <1>1, <1>2, <1>4 DEF WindowInv
  <2>2. FillInv' /\ StaleInv' /\ CountInv' /\ ContentInv' /\ DecoderInv'
    BY <1>4 DEF FillInv, StaleInv, CountInv, ContentInv, DecoderInv, Running
  <2> QED BY <2>1, <2>2 DEF Flow
<1>5. CASE pc # "Switch" /\ \E s \in Samples : Request(s)
  BY <1>1, <1>2, <1>5, RequestFlow
<1> QED BY <1>3, <1>4, <1>5 DEF ProcessCommandInput, NoCoincidence

-----------------------------------------------------------------------------
(* The invariant.                                                          *)

LEMMA NextFlow ==
    ASSUME RefillInTime, LongLoops, NoCoincidence, IInv, IInv', Flow, [Next]_vars
    PROVE  Flow'
<1>1. CASE IdleVBlank
  <2>1. pc = "Idle" /\ UNCHANGED <<currentBank, window>>
    BY <1>1 DEF IdleVBlank
  <2>2. window = currentBank \/ \A t \in Samples : t.startBank # currentBank
    BY <2>1 DEF Flow, WindowInv
  <2> QED BY <1>1, <2>1, <2>2, RequestFlow DEF IdleVBlank
<1>2. CASE MainLoop
  BY <1>2, StartFlow, ReloadFlow, ReswitchedFlow, ReturnFlow, FetchFlow, DecodeFlow,
     PlayFlow, ChkReadaheadFlow, LastBankExhaustedFlow, LoadNextBankFlow,
     NextBankLoadedFlow, DrainFlow, DrainDoneFlow
     DEF MainLoop
<1>3. CASE VBlank
  BY <1>3, VBlankFlow
<1>4. CASE VBlankPhase
  <2>1. handler > 0 /\ handler # 2 /\ handler # 1
    BY <1>4, Numbers DEF VBlankPhase
  <2> QED BY <1>4, <2>1, HandlerPlayFlow DEF VBlankPhase, source
<1>5. CASE LastIteration
  <2>1. handler = 3 /\ handler' = handler - 1 /\ handler > 0 /\ handler # 2 /\ handler # 1
    BY <1>5 DEF LastIteration
  <2> QED BY <1>5, <2>1, HandlerPlayFlow DEF LastIteration, source
<1>6. CASE ProcessCommandInput
  BY <1>6, ProcessCommandInputFlow
<1>7. CASE VBlankReturn
  <2>1. handler = 1 /\ handler' = handler - 1 /\ handler > 0 /\ handler # 2
    BY <1>7 DEF VBlankReturn
  <2>2. SendByteIfAny \/ UNCHANGED <<dac, accumulator, l>>
    BY <1>7 DEF VBlankReturn
  <2> QED BY <1>7, <2>1, <2>2, HandlerPlayFlow DEF VBlankReturn, source
<1>8. CASE SetPitch
  BY <1>8, SameFlow DEF SetPitch, ring, source
<1>9. CASE UNCHANGED vars
  BY <1>9, SameFlow DEF vars, ring, source
<1> QED BY <1>1, <1>2, <1>3, <1>4, <1>5, <1>6, <1>7, <1>8, <1>9 DEF Next, Handler

\* The inductive invariant about the window, what the buffer holds, what the decoder
\* goes by and what a VBlank finds (loop-dpcm.asm:66-329): under the conditions, at
\* every place of the loop and of its handler.
THEOREM StreamInvariance ==
    ASSUME RefillInTime, LongLoops, NoSampleInBank255, NoCoincidence
    PROVE  Spec => []StreamInv
<1>1. EnoughWhenFetching
  BY DEF NoCoincidence, EnoughWhenFetching
<1>2. Init => StreamInv
  BY InitIInv, InitFlow DEF StreamInv
<1>3. StreamInv /\ [Next]_vars => StreamInv'
  BY <1>1, NextIInv, NextFlow DEF StreamInv
<1> QED BY <1>2, <1>3, PTL DEF Spec

-----------------------------------------------------------------------------
(* The refinement.                                                         *)

Clip == IF Silent THEN ClipOf(NoSample) ELSE ClipOf(active)
NextSample == IF Silent THEN 0 ELSE PlayingAt

LEMMA PlayingIsHere ==
    ASSUME Running
    PROVE  ~Silent /\ PlayingAt = Here - Ahead
  BY DEF Running, Silent, PlayingAt, Here, Offset

\* A sample is not empty; the next sample to decode is inside it or at its end,
\* and at its end when the buffer is drained.
LEMMA ClipBounds ==
    ASSUME IInv, Flow, pc # "Idle"
    PROVE  /\ ClipOf(active).end \in Int
           /\ ClipOf(active) # ClipOf(NoSample)
           /\ Running => Here <= ClipOf(active).end
<1>1. /\ active.startBank \in Int /\ active.endBank \in Int
      /\ active.startBank <= active.endBank
      /\ active.startOffset \in Int /\ 0 <= active.startOffset
      /\ active.startOffset < BankSize
      /\ active.startLength \in Int /\ 0 < active.startLength
      /\ active.endLength \in Int /\ 0 < active.endLength /\ active.endLength <= BankSize
      /\ active.startOffset + active.startLength =
           IF active.startBank = active.endBank THEN active.endLength ELSE BankSize
      /\ BankSize \in Int
  BY BankSizeAssumption DEF IInv, SourceInv, Sound
<1> DEFINE first == Addr(active.startBank, active.startOffset)
           end   == Addr(active.endBank, active.endLength)
<1>2. ClipOf(active).first = 2 * first /\ ClipOf(active).end = 2 * end
  BY DEF ClipOf
<1>3. first \in Int /\ end \in Int
  BY <1>1, AddrIsInt
<1>4. first < end
  <2>1. CASE active.startBank = active.endBank
    <3>1. active.startBank * BankSize \in Int
      BY <1>1
    <3> QED BY <1>1, <2>1, <3>1 DEF Addr
  <2>2. CASE active.startBank # active.endBank
    <3>1. active.startOffset + 1 \in Int /\ active.startOffset + 1 <= BankSize
          /\ active.startBank < active.endBank /\ active.endLength \in Nat
      BY <1>1, <2>2
    <3>2. Addr(active.startBank, active.startOffset + 1) <= end
      BY <1>1, <3>1, AddrOrder
    <3>3. Addr(active.startBank, active.startOffset + 1) = first + 1
      BY <1>1, AddrIsInt
    <3> QED BY <1>3, <3>2, <3>3
  <2> QED BY <2>1, <2>2
<1>5. ClipOf(active) # ClipOf(NoSample)
  <2>1. ClipOf(NoSample).first = 0 /\ ClipOf(NoSample).end = 0
    BY <1>1 DEF ClipOf, NoSample, Addr
  <2> HIDE DEF first, end
  <2>2. ClipOf(active).first # ClipOf(active).end
    BY <1>2, <1>3, <1>4
  <2> QED BY <2>1, <2>2
<1>6. Running => Here <= ClipOf(active).end
  <2>1. SUFFICES ASSUME Running PROVE Here <= ClipOf(active).end
    OBVIOUS
  <2>2. /\ currentBank \in Int /\ currentBank <= active.endBank
        /\ Offset \in Int /\ Offset <= LastOffset(currentBank)
    BY <1>1, <2>1, Numbers DEF IInv, SourceInv, Offset, LastOffset
  <2>3. Addr(currentBank, Offset) <= end
    <3>1. CASE currentBank = active.endBank
      <4>1. Offset <= active.endLength
        BY <2>2, <3>1 DEF LastOffset
      <4>2. currentBank * BankSize \in Int
        BY <1>1, <2>2
      <4> QED BY <1>1, <2>2, <3>1, <4>1, <4>2 DEF Addr
    <3>2. CASE currentBank # active.endBank
      <4>1. Offset <= BankSize /\ currentBank < active.endBank /\ active.endLength \in Nat
        BY <1>1, <2>2, <3>2 DEF LastOffset
      <4> QED BY <1>1, <2>2, <4>1, AddrOrder
    <3> QED BY <3>1, <3>2
  <2>4. Addr(currentBank, Offset) \in Int
    BY <2>2, AddrIsInt
  <2> HIDE DEF first, end
  <2> QED BY <1>2, <1>3, <2>3, <2>4 DEF Here
<1>7. ClipOf(active).end \in Int
  <2> HIDE DEF first, end
  <2> QED BY <1>2, <1>3
<1> QED BY <1>5, <1>6, <1>7

LEMMA DrainedIsAtEnd ==
    ASSUME IInv, pc = "Drain"
    PROVE  Here = ClipOf(active).end
<1>1. /\ currentBank = active.endBank /\ de + length = active.endLength /\ length = 0
  <2>1. currentBank = active.endBank /\ active.endLength \in Int
    BY DEF IInv, SourceInv, Sound
  <2> QED BY <2>1 DEF IInv, SourceInv, LastOffset, Running
<1>2. de = active.endLength
  BY <1>1, Numbers
<1> QED BY <1>1, <1>2 DEF Here, Offset, ClipOf

\* A play while there is something to play is a step of the stream.
LEMMA SendRefines ==
    ASSUME IInv, Flow, Running, Running', Free # l, SendByte,
           UNCHANGED <<active, Free, Here, buffer>>
    PROVE  Stream!Send
<1>1. /\ dac' = Here - Ahead /\ Ahead' \in {Ahead, Ahead - 1} /\ Here' = Here
  BY PlayOne DEF Flow
<1>2. /\ Here \in Int /\ Ahead \in Int /\ 1 <= Ahead
  BY Numbers, HereIsInt
<1>3. /\ ClipOf(active).end \in Int /\ ClipOf(active) # ClipOf(NoSample)
      /\ Here <= ClipOf(active).end
  BY ClipBounds DEF Running
<1>4. /\ Clip = ClipOf(active) /\ Clip' = Clip
      /\ NextSample = Here - Ahead /\ NextSample' = Here - Ahead'
  <2>1. ~Silent /\ PlayingAt = Here - Ahead /\ ~Silent' /\ PlayingAt' = Here' - Ahead'
    <3>1. ~Silent /\ PlayingAt = Here - Ahead
      BY PlayingIsHere
    <3>2. ~Silent' /\ PlayingAt' = Here' - Ahead'
      BY DEF Running, Silent, PlayingAt, Here, Offset
    <3> QED BY <3>1, <3>2
  <2> QED BY <1>1, <2>1 DEF Clip, NextSample, ClipOf
<1>5. /\ Clip # ClipOf(NoSample) /\ NextSample < Clip.end
      /\ NextSample' \in {NextSample, NextSample + 1}
  <2>1. Clip # ClipOf(NoSample) /\ Clip.end = ClipOf(active).end
    BY <1>3, <1>4
  <2>2. NextSample < ClipOf(active).end
    BY <1>2, <1>3, <1>4
  <2>3. Ahead' = Ahead \/ Ahead' = Ahead - 1
    BY <1>1
  <2>4. NextSample' = NextSample \/ NextSample' = NextSample + 1
    BY <1>2, <1>4, <2>3
  <2> QED BY <2>1, <2>2, <2>4
<1> QED BY <1>1, <1>4, <1>5 DEF Stream!Send, Clip, NextSample

LEMMA RequestRefines ==
    ASSUME NEW s \in Samples, Request(s), UNCHANGED dac
    PROVE  Stream!Begin
<1>1. active' = LoadDpcm(s) /\ pc' = "Start"
  BY DEF Request
<1>2. /\ Clip' = ClipOf(LoadDpcm(s))
      /\ NextSample' = Clip'.first
  BY <1>1 DEF Clip, NextSample, Silent, PlayingAt, ClipOf
<1>3. Clip' = [first |-> 2 * First(s), end |-> 2 * End(s), loop |-> s.loop]
  BY <1>2, LoadKeepsEnds, DpcmAssumption DEF ClipOf, LoadDpcm
<1> QED BY <1>2, <1>3 DEF Stream!Begin, Clip, NextSample, Clips

\* The positions are put back to the first byte of the sample.
LEMMA RewindRefines ==
    ASSUME IInv, IInv', Rewind, pc \in {"Start", "Drained", "Reswitch"}, ~Silent,
           currentBank' = active.startBank
    PROVE  UNCHANGED Stream!svars
<1>1. /\ pc' = "Fetch" /\ UNCHANGED <<active, dac>>
      /\ de' = active.startOffset /\ c' = RingSize - 1 /\ l' = 0
  BY DEF Rewind
<1>2. PlayingAt = Opening
  BY DEF PlayingAt, Opening
<1>3. ~Silent' /\ PlayingAt' = Opening - 0
  <2>1. Ahead' = 0
    BY <1>1, Numbers DEF Free, Corrected, Succ, Ahead, Diff
  <2> QED BY <1>1, <2>1 DEF PlayingAt, Silent, Opening
<1>4. Opening \in Int
  <2>1. active.startBank \in Int /\ active.startOffset \in Int
    BY DEF IInv, SourceInv, Sound
  <2>2. Addr(active.startBank, active.startOffset) \in Int
    BY <2>1, AddrIsInt
  <2> QED BY <2>2 DEF Opening
<1>5. Clip' = Clip /\ NextSample' = NextSample
  BY <1>1, <1>2, <1>3, <1>4 DEF Clip, NextSample, ClipOf
<1> QED BY <1>1, <1>5 DEF Stream!svars, Clip, NextSample

\* Anything else that moves neither position along the sample.
LEMMA StutterRefines ==
    ASSUME ~Silent, ~Silent', PlayingAt' = PlayingAt, UNCHANGED <<active, dac>>
    PROVE  UNCHANGED Stream!svars
<1>1. Clip' = Clip /\ NextSample' = NextSample
  BY DEF Clip, NextSample, ClipOf
<1> QED BY <1>1 DEF Stream!svars, Clip, NextSample

LEMMA RunningStutterRefines ==
    ASSUME Running, Running', Here' - Ahead' = Here - Ahead, UNCHANGED <<active, dac>>
    PROVE  UNCHANGED Stream!svars
<1>1. ~Silent /\ PlayingAt = Here - Ahead
  BY PlayingIsHere
<1>2. ~Silent' /\ PlayingAt' = Here' - Ahead'
  BY DEF Running, Silent, PlayingAt, Here, Offset
<1> QED BY <1>1, <1>2, StutterRefines

LEMMA HandlerPlayRefines ==
    ASSUME IInv, Flow, handler > 0, SendByteIfAny \/ UNCHANGED <<dac, accumulator, l>>,
           UNCHANGED <<pc, active, de, currentBank, c, buffer>>
    PROVE  [Stream!Next]_(Stream!svars)
<1>1. Running /\ Running' /\ Free' = Free /\ Here' = Here
  BY HandlerPoints DEF Running, Free, Corrected, Here, Offset
<1>2. CASE UNCHANGED <<l, dac>>
  <2>1. Ahead' = Ahead
    BY <1>1, <1>2 DEF Ahead
  <2> QED BY <1>1, <1>2, <2>1, RunningStutterRefines
<1>3. CASE Free # l /\ SendByte
  BY <1>1, <1>3, SendRefines DEF Stream!Next
<1> QED BY <1>2, <1>3, HandlerPlays

\* The last sample has been sent: the clip ends there, or starts over.
LEMMA DrainDoneRefines ==
    ASSUME IInv, Flow, DrainDone
    PROVE  Stream!Repeat \/ Stream!Finish
<1>1. /\ pc = "Drain" /\ Running /\ Succ(c) = l /\ pc' = "Drained"
      /\ UNCHANGED <<active, dac>>
  BY DEF DrainDone, Running, source
<1>2. Here = ClipOf(active).end /\ ClipOf(active) # ClipOf(NoSample)
  BY <1>1, ClipBounds, DrainedIsAtEnd
<1>3. Clip = ClipOf(active) /\ NextSample = Clip.end /\ Clip.loop = active.loop
  <2>1. Ahead = 0
    BY <1>1, Numbers DEF Free, Corrected
  <2>2. ~Silent /\ PlayingAt = Here - 0
    BY <1>1, <2>1, PlayingIsHere
  <2> QED BY <1>2, <2>2, HereIsInt DEF Clip, NextSample, ClipOf
<1>4. CASE active.loop
  <2>1. Clip' = Clip /\ NextSample' = Clip.first
    BY <1>1, <1>3, <1>4 DEF Clip, NextSample, Silent, PlayingAt, ClipOf
  <2> QED BY <1>1, <1>2, <1>3, <1>4, <2>1 DEF Stream!Repeat, Clip, NextSample
<1>5. CASE ~active.loop
  <2>1. Clip' = ClipOf(NoSample) /\ NextSample' = 0
    BY <1>1, <1>5 DEF Clip, NextSample, Silent, ClipOf, NoSample
  <2> QED BY <1>1, <1>2, <1>3, <1>5, <2>1 DEF Stream!Finish, Clip, NextSample
<1> QED BY <1>4, <1>5

LEMMA MainLoopRefines ==
    ASSUME IInv, IInv', Flow, MainLoop
    PROVE  [Stream!Next]_(Stream!svars)
<1>1. CASE Start
  <2>1. pc = "Start" /\ ~Silent /\ Rewind /\ currentBank' = active.startBank
    BY <1>1 DEF Start, Silent
  <2> QED BY <2>1, RewindRefines
<1>2. CASE Reload
  <2>1. pc = "Drained" /\ ~Silent
    BY <1>2 DEF Reload, Silent
  <2>2. CASE currentBank = active.startBank
    BY <1>2, <2>1, <2>2, RewindRefines DEF Reload
  <2>3. CASE currentBank # active.startBank
    <3>1. pc' = "Reswitch" /\ ~Silent' /\ UNCHANGED <<active, dac>>
      BY <1>2, <2>3 DEF Reload, ring, Silent
    <3>2. PlayingAt' = PlayingAt
      BY <2>1, <3>1 DEF PlayingAt, Addr
    <3> QED BY <2>1, <3>1, <3>2, StutterRefines
  <2> QED BY <2>2, <2>3
<1>3. CASE Reswitched
  <2>1. pc = "Reswitch" /\ ~Silent /\ Rewind /\ currentBank' = active.startBank
    BY <1>3 DEF Reswitched, Silent, IInv, SourceInv
  <2> QED BY <2>1, RewindRefines
<1>4. CASE Return
  <2>1. Silent /\ Silent' /\ UNCHANGED dac
    BY <1>4 DEF Return, Silent, ring
  <2>2. Clip' = Clip /\ NextSample' = NextSample
    BY <2>1 DEF Clip, NextSample, ClipOf, NoSample
  <2> QED BY <2>1, <2>2 DEF Stream!svars, Clip, NextSample
<1>5. CASE Fetch
  <2>1. /\ Running /\ Running' /\ Here' = Here /\ Ahead' = Ahead /\ UNCHANGED <<active, dac>>
    BY <1>5, Numbers DEF Fetch, Running, Here, Offset, Ahead, Free, Corrected
  <2> QED BY <2>1, RunningStutterRefines
<1>6. CASE Decode
  <2>1. Running /\ Running' /\ UNCHANGED <<active, dac>>
    BY <1>6 DEF Decode, Running
  <2>2. Here' = Here + 2 /\ Ahead' = Ahead + 2
    BY <1>6, DecodeWrites, DecodeAdvances DEF Flow
  <2>3. Here' - Ahead' = Here - Ahead
    BY <2>2, HereIsInt, Numbers
  <2> QED BY <2>1, <2>3, RunningStutterRefines
<1>7. CASE Play
  <2>1. Running /\ Running' /\ Free' = Free /\ Here' = Here
    BY <1>7 DEF Play, Running, Free, Corrected, Here, Offset, source
  <2>2. Free # l
    BY <1>7, Numbers DEF Play, Flow, FillInv
  <2> QED BY <1>7, <2>1, <2>2, SendRefines DEF Play, source, Stream!Next
<1>8. CASE ChkReadahead
  <2>1. /\ Running /\ Running' /\ Here' = Here /\ Ahead' = Ahead /\ UNCHANGED <<active, dac>>
    BY <1>8 DEF ChkReadahead, Running, Here, Offset, Ahead, Free, Corrected, ring, source
  <2> QED BY <2>1, RunningStutterRefines
<1>9. CASE LastBankExhausted
  <2>1. /\ Running /\ Running' /\ Here' = Here /\ Ahead' = Ahead /\ UNCHANGED <<active, dac>>
    BY <1>9 DEF LastBankExhausted, Running, Here, Offset, Ahead, Free, Corrected, ring, source
  <2> QED BY <2>1, RunningStutterRefines
<1>10. CASE LoadNextBank
  <2>1. /\ Running /\ Running' /\ Ahead' = Ahead /\ UNCHANGED <<active, dac>>
    BY <1>10 DEF LoadNextBank, Running, Ahead, Free, Corrected, ring
  <2>2. Here' = Here
    BY <1>10, BankBoundary
  <2> QED BY <2>1, <2>2, RunningStutterRefines
<1>11. CASE NextBankLoaded
  <2>1. /\ Running /\ Running' /\ Here' = Here /\ Ahead' = Ahead /\ UNCHANGED <<active, dac>>
    BY <1>11 DEF NextBankLoaded, Running, Here, Offset, Ahead, Free, Corrected, ring
  <2> QED BY <2>1, RunningStutterRefines
<1>12. CASE Drain
  <2>1. /\ Running /\ Running' /\ Free' = Free /\ Here' = Here /\ Free # l
    BY <1>12 DEF Drain, Running, Free, Corrected, Here, Offset, source
  <2> QED BY <1>12, <2>1, SendRefines DEF Drain, source, Stream!Next
<1>13. CASE DrainDone
  BY <1>13, DrainDoneRefines DEF Stream!Next
<1> QED BY <1>1, <1>2, <1>3, <1>4, <1>5, <1>6, <1>7, <1>8, <1>9, <1>10, <1>11, <1>12,
           <1>13
       DEF MainLoop

LEMMA NextRefines ==
    ASSUME IInv, IInv', Flow, [Next]_vars
    PROVE  [Stream!Next]_(Stream!svars)
<1>1. CASE IdleVBlank
  BY <1>1, RequestRefines DEF IdleVBlank, ring, Stream!Next
<1>2. CASE MainLoop
  BY <1>2, MainLoopRefines
<1>3. CASE VBlank \/ SetPitch \/ UNCHANGED vars
  <2>1. UNCHANGED <<pc, active, currentBank, de, c, l, dac>>
    BY <1>3 DEF VBlank, SetPitch, vars, ring, source
  <2>2. Clip' = Clip /\ NextSample' = NextSample
    BY <2>1 DEF Clip, NextSample, Silent, PlayingAt, Ahead, Free, Corrected, Addr, ClipOf
  <2> QED BY <2>1, <2>2 DEF Stream!svars, Clip, NextSample
<1>4. CASE VBlankPhase
  <2>1. handler > 0
    BY <1>4, Numbers DEF VBlankPhase
  <2> QED BY <1>4, <2>1, HandlerPlayRefines DEF VBlankPhase, source
<1>5. CASE LastIteration
  <2>1. handler > 0
    BY <1>5 DEF LastIteration
  <2> QED BY <1>5, <2>1, HandlerPlayRefines DEF LastIteration, source
<1>6. CASE ProcessCommandInput
  <2>1. handler > 0 /\ UNCHANGED <<currentBank, de, c, l, dac>>
    BY <1>6 DEF ProcessCommandInput, ring
  <2>2. Running /\ pc # "Idle" /\ ~Silent
    BY <2>1, HandlerPoints, PlayingIsHere
  <2>3. CASE UNCHANGED <<pc, active>>
    <3>1. Running' /\ Here' - Ahead' = Here - Ahead
      BY <2>1, <2>2, <2>3 DEF Running, Here, Offset, Ahead, Free, Corrected
    <3> QED BY <2>1, <2>2, <2>3, <3>1, RunningStutterRefines
  <2>4. CASE pc' = "Idle"
    <3>1. Clip = ClipOf(active) /\ Clip # ClipOf(NoSample)
      BY <2>2, ClipBounds DEF Clip
    <3>2. Clip' = ClipOf(NoSample) /\ NextSample' = 0
      BY <2>4 DEF Clip, NextSample, Silent, ClipOf, NoSample
    <3>3. Stream!Cut
      BY <2>1, <3>1, <3>2 DEF Stream!Cut, Clip, NextSample
    <3> QED BY <3>3 DEF Stream!Next
  <2>5. CASE \E s \in Samples : Request(s)
    BY <2>1, <2>5, RequestRefines DEF Stream!Next
  <2> QED BY <1>6, <2>3, <2>4, <2>5 DEF ProcessCommandInput
<1>7. CASE VBlankReturn
  <2>1. handler > 0 /\ (SendByteIfAny \/ UNCHANGED <<dac, accumulator, l>>)
    BY <1>7 DEF VBlankReturn
  <2> QED BY <1>7, <2>1, HandlerPlayRefines DEF VBlankReturn, source
<1> QED BY <1>1, <1>2, <1>3, <1>4, <1>5, <1>6, <1>7 DEF Next, Handler

\* For any ring, margin, frame and sample table that meet the conditions, both
\* loops send the DAC the decoded samples in order, none missing, none stale and
\* none made from another sample than the one before it.
THEOREM PlaysInOrder ==
    ASSUME RefillInTime, LongLoops, NoSampleInBank255, NoCoincidence
    PROVE  Spec => StreamInOrder
<1>1. Init => Stream!Init
  BY DEF Init, Stream!Init, Silent, NoByte
<1>2. IInv /\ IInv' /\ Flow /\ [Next]_vars => [Stream!Next]_(Stream!svars)
  BY NextRefines
<1>3. StreamInv => IInv /\ Flow
  BY DEF StreamInv
<1> QED BY <1>1, <1>2, <1>3, StreamInvariance, PTL DEF Spec, StreamInOrder, Stream!Spec
=============================================================================
