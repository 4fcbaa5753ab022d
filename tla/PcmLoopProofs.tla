--------------------------- MODULE PcmLoopProofs ---------------------------
(***************************************************************************)
(* What holds of PcmLoop for every value of its constants: its two         *)
(* invariants and, under the three conditions the code relies on and does not*)
(* check (RefillInTime, LongLoops, SwitchesApart), that it implements      *)
(* SampleStream.                                                           *)
(***************************************************************************)
EXTENDS PcmLoop, SampleBufferProofs, TLAPS

-----------------------------------------------------------------------------
(* The arithmetic of LoadActiveSampleData_DI.                              *)

Even(n) == n % 2 = 0

\* What the loop relies on in an active sample.
Sound(act) ==
    /\ act.startBank \in Int /\ 0 <= act.startBank
    /\ act.endBank \in Int /\ act.startBank <= act.endBank /\ act.endBank <= 255
    /\ act.startOffset \in Int /\ 0 <= act.startOffset /\ act.startOffset < BankSize
    /\ act.startLength \in Int /\ 0 < act.startLength /\ act.startLength <= BankSize
    /\ act.endLength \in Int /\ 0 < act.endLength /\ act.endLength <= BankSize
    /\ Even(act.startOffset) /\ Even(act.startLength) /\ Even(act.endLength)
    /\ act.startOffset + act.startLength =
         IF act.startBank = act.endBank THEN act.endLength ELSE BankSize
    /\ act.loop \in BOOLEAN

\* Bank and length of the end are split so that they mean the same byte.
LEMMA LoadKeepsEnds ==
    ASSUME NEW s \in SampleInputs, WellFormed(s)
    PROVE  /\ Addr(Load(s).startBank, Load(s).startOffset) = First(s)
           /\ Addr(Load(s).endBank, Load(s).endLength) = End(s)
<1>1. /\ Load(s).startBank = s.startBank /\ Load(s).startOffset = s.startOffset
      /\ Load(s).endBank = EndBank(s) /\ Load(s).endLength = EndLength(s)
  BY DEF Load
<1>2. /\ s.startBank \in Int /\ s.endBank \in Int /\ 0 <= s.startBank
      /\ s.endBank <= 255 /\ s.endOffset \in Int /\ 0 <= s.endOffset
      /\ s.startOffset \in Int /\ 0 <= s.startOffset
  BY BankSizeAssumption DEF SampleInputs, BankIds
<1>3. Addr(EndBank(s), EndLength(s)) = Addr(s.endBank, s.endOffset)
  <2>1. CASE s.endOffset = 0
    <3>1. s.startBank < s.endBank
      BY <1>2, <2>1 DEF WellFormed
    <3>2. EndBank(s) = s.endBank - 1 /\ EndLength(s) = BankSize
      BY <1>2, <2>1, <3>1 DEF EndBank, EndLength
    <3>3. (s.endBank - 1) * BankSize + BankSize = s.endBank * BankSize
      BY <1>2, BankSizeAssumption
    <3>4. s.endBank * BankSize \in Int
      BY <1>2, BankSizeAssumption
    <3> QED BY <2>1, <3>2, <3>3, <3>4 DEF Addr
  <2>2. CASE s.endOffset # 0
    BY <2>2 DEF EndBank, EndLength
  <2> QED BY <2>1, <2>2
<1> QED BY <1>1, <1>3 DEF First, End

\* A well-formed table record becomes an active sample that is not empty and
\* whose first part ends where its bank or the sample does.
LEMMA LoadIsSound ==
    ASSUME NEW s \in SampleInputs, WellFormed(s)
    PROVE  Sound(Load(s))
<1>1. /\ s.startBank \in Int /\ 0 <= s.startBank /\ s.startBank <= 255
      /\ s.endBank \in Int /\ 0 <= s.endBank /\ s.endBank <= 255
      /\ s.startOffset \in Int /\ 0 <= s.startOffset /\ s.startOffset < BankSize
      /\ s.endOffset \in Int /\ 0 <= s.endOffset /\ s.endOffset < BankSize
      /\ s.loop \in BOOLEAN
  BY BankSizeAssumption DEF SampleInputs, BankIds
<1>2. /\ EndBank(s) \in Int /\ EndBank(s) <= 255 /\ s.startBank <= EndBank(s)
      /\ EndLength(s) \in Int /\ 0 < EndLength(s) /\ EndLength(s) <= BankSize
      /\ Even(EndLength(s))
  <2>1. CASE s.endOffset = 0
    <3>1. s.startBank < s.endBank
      BY <1>1, <2>1 DEF WellFormed
    <3>2. EndBank(s) = s.endBank - 1
      BY <1>1, <2>1, <3>1 DEF EndBank
    <3>3. EndLength(s) = BankSize
      BY <2>1 DEF EndLength
    <3> QED BY <1>1, <3>1, <3>2, <3>3, BankSizeAssumption DEF Even
  <2>2. CASE s.endOffset # 0
    <3>1. EndBank(s) = s.endBank /\ EndLength(s) = s.endOffset
      BY <2>2 DEF EndBank, EndLength
    <3>2. s.startBank <= s.endBank /\ Even(s.endOffset)
      BY <1>1 DEF WellFormed, Even
    <3> QED BY <1>1, <2>2, <3>1, <3>2, BankSizeAssumption
  <2> QED BY <2>1, <2>2
<1>3. /\ StartLength(s) \in Int /\ 0 < StartLength(s) /\ StartLength(s) <= BankSize
      /\ Even(StartLength(s))
  <2>1. CASE EndBank(s) = s.startBank
    <3>1. StartLength(s) = EndLength(s) - s.startOffset
      BY <2>1 DEF StartLength
    <3>2. s.startOffset < EndLength(s)
      BY <1>1, <1>2, <2>1 DEF WellFormed, EndBank, EndLength
    <3>3. Even(s.startOffset)
      BY DEF WellFormed, Even
    <3> QED BY <1>1, <1>2, <3>1, <3>2, <3>3, BankSizeAssumption DEF Even
  <2>2. CASE EndBank(s) # s.startBank
    <3>1. StartLength(s) = BankSize - s.startOffset
      BY <2>2 DEF StartLength
    <3>2. Even(s.startOffset)
      BY DEF WellFormed, Even
    <3> QED BY <1>1, <3>1, <3>2, BankSizeAssumption DEF Even
  <2> QED BY <2>1, <2>2
<1>4. s.startOffset + StartLength(s) =
        IF s.startBank = EndBank(s) THEN EndLength(s) ELSE BankSize
  BY <1>1, <1>2, BankSizeAssumption DEF StartLength
<1>5. Even(s.startOffset)
  BY DEF WellFormed, Even
<1> QED
  BY <1>1, <1>2, <1>3, <1>4, <1>5 DEF Sound, Load

LEMMA SamplesAreSound ==
    ASSUME NEW s \in Samples
    PROVE  Sound(Load(s)) /\ s.pitch \in Pitches
  BY LoopAssumption, LoadIsSound

-----------------------------------------------------------------------------
(* Playing.                                                                *)

\* Playing moves l' by at most one place, and never past e if it started
\* behind it.
LEMMA SendByteEffect ==
    ASSUME TypeOK, SendByte
    PROVE  /\ dac' \in Int
           /\ accumulator' \in 0 .. PitchBase - 1
           /\ l' \in Slots
           /\ e # l => Diff(e, l') <= Diff(e, l)
<1>1. /\ e \in Slots /\ l \in Slots /\ buffer \in [Slots -> Int]
      /\ accumulator \in Int /\ iyl \in Int
  BY LoopAssumption DEF TypeOK
<1>2. l' = l \/ l' = Succ(l)
  BY DEF SendByte
<1>3. accumulator' \in 0 .. PitchBase - 1
  <2> DEFINE n == accumulator + iyl
  <2>1. n \in Int /\ PitchBase \in Nat \ {0}
    BY <1>1, LoopAssumption
  <2>2. n % PitchBase \in 0 .. PitchBase - 1
    BY <2>1
  <2> QED BY <2>2 DEF SendByte
<1>4. Diff(e, l) \in Int
  <2>1. Diff(e, l) \in 0 .. RingSize - 1
    BY <1>1, RingArithmetic
  <2> QED BY <2>1, MarginAssumption
<1> QED BY <1>1, <1>2, <1>3, <1>4, RingArithmetic DEF SendByte

LEMMA SendByteIfAnyEffect ==
    ASSUME TypeOK, SendByteIfAny
    PROVE  /\ dac' \in Int
           /\ accumulator' \in 0 .. PitchBase - 1
           /\ l' \in Slots
           /\ Diff(e, l') <= Diff(e, l)
<1>1. CASE e = l
  <2>1. UNCHANGED <<dac, accumulator, l>>
    BY <1>1 DEF SendByteIfAny
  <2>2. e \in Slots /\ l \in Slots
    BY DEF TypeOK
  <2>3. Diff(e, l) \in 0 .. RingSize - 1
    BY <2>2, RingArithmetic
  <2>4. Diff(e, l) \in Int
    BY <2>3, MarginAssumption
  <2> QED BY <2>1, <2>4 DEF TypeOK
<1>2. CASE e # l
  BY <1>2, SendByteEffect DEF SendByteIfAny
<1> QED BY <1>1, <1>2

-----------------------------------------------------------------------------
(* The inductive invariant.                                                *)

\* Between the first fetch and the last play of a sample.
Running == pc \notin {"Idle", "Start", "Reload", "Reswitch"}

LastOffset(bank) == IF bank = active.endBank THEN active.endLength ELSE BankSize

\* hl and bc stay on the sample: their sum is where the bank's part of it ends,
\* and bc is zero exactly when there is nothing left to fetch from the bank.
SourceInv ==
    /\ pc # "Idle" => Sound(active)
    /\ pc \in {"Idle", "Start", "Play"} => handler = 0
    /\ pc = "Reswitch" => currentBank = active.startBank
    /\ Running =>
         /\ active.startBank <= currentBank /\ currentBank <= active.endBank
         /\ currentBank = active.startBank => active.startOffset <= hl
         /\ hl + bc = LastOffset(currentBank)
         /\ Even(bc)
         /\ bc = 0 <=> pc \in {"Exhausted", "Drain"}
         /\ pc = "Drain" => currentBank = active.endBank

\* The check of the margin outlives the interrupts that come after it: they
\* only make room.
RingInv ==
    /\ pc = "Fetch" => Ahead <= RingSize - Margin
    /\ pc = "Chk" /\ ReadaheadOk(a, e) => Ahead <= RingSize - Margin

IInv == TypeOK /\ SourceInv /\ RingInv

LEMMA InitIInv == Init => IInv
<1> SUFFICES ASSUME Init PROVE IInv
  OBVIOUS
<1>1. TypeOK
  BY MarginAssumption, BankSizeAssumption, LoopAssumption
     DEF Init, TypeOK, Labels, Slots, BankIds, NoByte, Partial
<1>2. SourceInv
  BY DEF Init, SourceInv, Running
<1>3. RingInv
  BY DEF Init, RingInv
<1> QED BY <1>1, <1>2, <1>3 DEF IInv

-----------------------------------------------------------------------------
(* Every step preserves it.                                                *)

LEMMA RequestStep ==
    ASSUME IInv, NEW s \in Samples, Request(s),
           UNCHANGED <<ring, currentBank, window, hl, bc>>
    PROVE  IInv'
<1>1. Sound(Load(s)) /\ s.pitch \in Pitches
  BY SamplesAreSound
<1>2. active' = Load(s) /\ pc' = "Start" /\ handler' = 0 /\ sinceVBlank' = 0
      /\ pitchInput' = s.pitch
  BY DEF Request
<1>3. TypeOK'
  BY <1>1, <1>2, LoopAssumption DEF IInv, TypeOK, Labels, ring
<1>4. SourceInv'
  BY <1>1, <1>2 DEF SourceInv, Running
<1>5. RingInv'
  BY <1>2 DEF RingInv
<1> QED BY <1>3, <1>4, <1>5 DEF IInv

LEMMA RewindStep ==
    ASSUME IInv, Rewind, Sound(active), handler = 0,
           currentBank' = active.startBank,
           window' \in BankIds \cup {Partial}
    PROVE  IInv'
<1>1. TypeOK'
  <2>1. active.startBank \in BankIds
    BY DEF Sound, BankIds
  <2>2. active.startOffset \in 0 .. BankSize /\ active.startLength \in 0 .. BankSize
    BY BankSizeAssumption DEF Sound
  <2> QED BY <2>1, <2>2, MarginAssumption, LoopAssumption
          DEF IInv, TypeOK, Rewind, Labels, Slots
<1>2. SourceInv'
  BY BankSizeAssumption DEF SourceInv, Rewind, Running, Sound, LastOffset
<1>3. RingInv'
  BY MarginAssumption DEF RingInv, Rewind, Ahead, Diff
<1> QED BY <1>1, <1>2, <1>3 DEF IInv

LEMMA StartStep == ASSUME IInv, Start PROVE IInv'
<1>1. active.startBank \in BankIds /\ Sound(active)
  BY DEF Start, IInv, SourceInv, Sound, BankIds
<1> QED BY <1>1, RewindStep DEF Start, IInv, TypeOK

LEMMA ReloadStep == ASSUME IInv, Reload PROVE IInv'
<1>1. Sound(active)
  BY DEF Reload, IInv, SourceInv
<1>2. CASE currentBank = active.startBank
  BY <1>1, <1>2, RewindStep DEF Reload, IInv, TypeOK
<1>3. CASE currentBank # active.startBank
  <2>1. active.startBank \in BankIds
    BY <1>1 DEF Sound, BankIds
  <2>2. TypeOK'
    BY <1>3, <2>1 DEF Reload, IInv, TypeOK, Labels, ring
  <2>3. SourceInv'
    BY <1>1, <1>3 DEF Reload, SourceInv, Running
  <2>4. RingInv'
    BY <1>3 DEF Reload, RingInv
  <2> QED BY <2>2, <2>3, <2>4 DEF IInv
<1> QED BY <1>2, <1>3

LEMMA FetchStep == ASSUME IInv, Fetch PROVE IInv'
<1>1. /\ Running /\ Sound(active)
      /\ hl \in Int /\ bc \in Int /\ 0 <= hl /\ 0 < bc /\ Even(bc)
      /\ hl + bc = LastOffset(currentBank)
      /\ LastOffset(currentBank) \in Int /\ LastOffset(currentBank) <= BankSize
  BY BankSizeAssumption DEF Fetch, IInv, TypeOK, SourceInv, Running, LastOffset, Sound
<1>2. 2 <= bc
  BY <1>1 DEF Even
<1>3. /\ e' \in Slots
      /\ buffer' \in [Slots -> Int]
  <2>1. e \in Slots /\ Succ(e) \in Slots /\ Succ(Succ(e)) \in Slots
    BY RingArithmetic DEF IInv, TypeOK
  <2>2. Addr(window, hl) \in Int /\ Addr(window, hl + 1) \in Int
    BY <1>1, BankSizeAssumption DEF IInv, TypeOK, Addr, BankIds, Partial
  <2> QED BY <2>1, <2>2 DEF Fetch, IInv, TypeOK
<1>4. TypeOK'
  <2>1. bc' \in 0 .. BankSize /\ hl' \in 0 .. BankSize
    BY <1>1, <1>2, BankSizeAssumption DEF Fetch, IInv, TypeOK
  <2> QED BY <1>3, <2>1 DEF Fetch, IInv, TypeOK, Labels
<1>5. SourceInv'
  <2>1. Even(bc')
    BY <1>1 DEF Even, Fetch
  <2>2. hl' + bc' = hl + bc
    BY <1>1 DEF Fetch
  <2>3. LastOffset(currentBank)' = LastOffset(currentBank)
    BY DEF Fetch, LastOffset
  <2>4. bc' = 0 <=> pc' \in {"Exhausted", "Drain"}
    BY DEF Fetch
  <2>5. currentBank = active.startBank => active.startOffset <= hl'
    BY <1>1 DEF Fetch, IInv, SourceInv, Sound
  <2> QED BY <1>1, <2>1, <2>2, <2>3, <2>4, <2>5 DEF Fetch, IInv, SourceInv, Running
<1>6. RingInv'
  BY DEF Fetch, RingInv
<1> QED BY <1>4, <1>5, <1>6 DEF IInv

LEMMA PlayStep == ASSUME IInv, Play PROVE IInv'
<1>1. /\ dac' \in Int /\ accumulator' \in 0 .. PitchBase - 1 /\ l' \in Slots
  BY SendByteEffect DEF Play, IInv
<1>2. TypeOK'
  <2>1. sinceVBlank' \in 0 .. FrameGap
    BY LoopAssumption DEF Play, CountIteration, IInv, TypeOK
  <2> QED BY <1>1, <2>1 DEF Play, IInv, TypeOK, Labels, source
<1>3. SourceInv'
  BY DEF Play, IInv, SourceInv, Running, source, LastOffset
<1>4. RingInv'
  <2>1. /\ e \in Slots /\ l' \in Slots /\ e' = e /\ a' = l' /\ pc' = "Chk"
    BY <1>1 DEF Play, IInv, TypeOK
  <2>2. Diff(l', e) >= Margin => Diff(e, l') <= RingSize - Margin
    BY <2>1, MarginLeavesRoom
  <2> QED BY <2>1, <2>2 DEF RingInv, ReadaheadOk, Ahead
<1> QED BY <1>2, <1>3, <1>4 DEF IInv

LEMMA ChkReadaheadStep == ASSUME IInv, ChkReadahead PROVE IInv'
<1>1. TypeOK'
  BY DEF ChkReadahead, IInv, TypeOK, Labels, source, ring
<1>2. SourceInv'
  BY DEF ChkReadahead, IInv, SourceInv, Running, source, LastOffset
<1>3. RingInv'
  BY DEF ChkReadahead, IInv, RingInv, ring, Ahead
<1> QED BY <1>1, <1>2, <1>3 DEF IInv

LEMMA LastBankExhaustedStep == ASSUME IInv, LastBankExhausted PROVE IInv'
<1>1. TypeOK'
  BY DEF LastBankExhausted, IInv, TypeOK, Labels, source, ring
<1>2. SourceInv'
  BY DEF LastBankExhausted, IInv, SourceInv, Running, source, LastOffset
<1>3. RingInv'
  BY DEF LastBankExhausted, RingInv
<1> QED BY <1>1, <1>2, <1>3 DEF IInv

LEMMA LoadNextBankStep == ASSUME IInv, LoadNextBank PROVE IInv'
<1>1. /\ Sound(active) /\ currentBank \in Int
      /\ active.startBank <= currentBank /\ currentBank < active.endBank
  BY DEF LoadNextBank, IInv, TypeOK, SourceInv, Running, Sound, BankIds
<1>2. /\ currentBank' = currentBank + 1 /\ currentBank' <= active.endBank
      /\ active.startBank < currentBank' /\ currentBank' \in BankIds
  BY <1>1 DEF LoadNextBank, Sound, BankIds
<1>3. bc' = LastOffset(currentBank)' /\ bc' \in Int /\ 0 < bc' /\ bc' <= BankSize
      /\ Even(bc') /\ hl' = 0
  BY <1>1, BankSizeAssumption DEF LoadNextBank, LastOffset, Sound, Even
<1>4. TypeOK'
  BY <1>2, <1>3, BankSizeAssumption DEF LoadNextBank, IInv, TypeOK, Labels, ring
<1>5. SourceInv'
  <2>1. hl' + bc' = LastOffset(currentBank)'
    BY <1>3
  <2>2. active' = active /\ pc' = "Switch"
    BY DEF LoadNextBank
  <2>3. currentBank' # active'.startBank /\ active'.startBank <= currentBank'
    BY <1>1, <1>2, <2>2 DEF Sound
  <2>4. bc' # 0
    BY <1>3
  <2> QED BY <1>1, <1>2, <1>3, <2>1, <2>2, <2>3, <2>4 DEF SourceInv, Running
<1>6. RingInv'
  BY DEF LoadNextBank, RingInv
<1> QED BY <1>4, <1>5, <1>6 DEF IInv

LEMMA NextBankLoadedStep == ASSUME IInv, NextBankLoaded PROVE IInv'
<1>1. TypeOK'
  BY DEF NextBankLoaded, IInv, TypeOK, Labels, ring
<1>2. SourceInv'
  BY DEF NextBankLoaded, IInv, SourceInv, Running, LastOffset
<1>3. RingInv'
  BY DEF NextBankLoaded, RingInv
<1> QED BY <1>1, <1>2, <1>3 DEF IInv

LEMMA ReswitchedStep == ASSUME IInv, Reswitched PROVE IInv'
<1>1. Sound(active) /\ currentBank = active.startBank /\ currentBank \in BankIds
  BY DEF Reswitched, IInv, TypeOK, SourceInv
<1> QED BY <1>1, RewindStep DEF Reswitched

LEMMA DrainStep == ASSUME IInv, Drain PROVE IInv'
<1>1. /\ dac' \in Int /\ accumulator' \in 0 .. PitchBase - 1 /\ l' \in Slots
  BY SendByteEffect DEF Drain, IInv
<1>2. TypeOK'
  <2>1. sinceVBlank' \in 0 .. FrameGap
    BY LoopAssumption DEF Drain, CountIteration, IInv, TypeOK
  <2> QED BY <1>1, <2>1 DEF Drain, IInv, TypeOK, Labels, source
<1>3. SourceInv'
  BY DEF Drain, IInv, SourceInv, Running, source, LastOffset
<1>4. RingInv'
  BY DEF Drain, RingInv
<1> QED BY <1>2, <1>3, <1>4 DEF IInv

LEMMA DrainedStep == ASSUME IInv, Drained PROVE IInv'
<1>1. TypeOK'
  BY DEF Drained, IInv, TypeOK, Labels, source, ring
<1>2. SourceInv'
  BY DEF Drained, IInv, SourceInv, Running, source
<1>3. RingInv'
  BY DEF Drained, RingInv
<1> QED BY <1>1, <1>2, <1>3 DEF IInv

\* What the steps of the handler that play have in common.
LEMMA HandlerPlayStep ==
    ASSUME IInv, handler > 0, SendByteIfAny, handler' \in 0 .. VBlankPlays + 4,
           sinceVBlank' \in 0 .. FrameGap, iyl' \in Pitches \cup {0},
           UNCHANGED <<pc, pitchInput, source, e, a, buffer>>
    PROVE  IInv'
<1>1. /\ dac' \in Int /\ accumulator' \in 0 .. PitchBase - 1 /\ l' \in Slots
      /\ Diff(e, l') <= Diff(e, l)
  BY SendByteIfAnyEffect DEF IInv
<1>2. TypeOK'
  BY <1>1 DEF IInv, TypeOK, source
<1>3. SourceInv'
  BY DEF IInv, TypeOK, SourceInv, Running, source, LastOffset
<1>4. RingInv'
  <2>1. Ahead' <= Ahead
    BY <1>1 DEF Ahead
  <2>2. Ahead \in Int /\ Ahead' \in Int
    <3>1. e \in Slots /\ l \in Slots /\ e' = e
      BY DEF IInv, TypeOK
    <3>2. Diff(e, l) \in 0 .. RingSize - 1 /\ Diff(e, l') \in 0 .. RingSize - 1
      BY <1>1, <3>1, RingArithmetic
    <3> QED BY <3>1, <3>2, MarginAssumption DEF Ahead
  <2> QED BY <2>1, <2>2, MarginAssumption DEF IInv, RingInv, ReadaheadOk
<1> QED BY <1>2, <1>3, <1>4 DEF IInv

LEMMA NextIInv == IInv /\ [Next]_vars => IInv'
<1> SUFFICES ASSUME IInv, [Next]_vars PROVE IInv'
  OBVIOUS
<1>1. CASE IdleVBlank
  BY <1>1, RequestStep DEF IdleVBlank
<1>2. CASE MainLoop
  BY <1>2, StartStep, ReloadStep, ReswitchedStep, FetchStep, PlayStep,
     ChkReadaheadStep, LastBankExhaustedStep, LoadNextBankStep,
     NextBankLoadedStep, DrainStep, DrainedStep
     DEF MainLoop
<1>3. CASE VBlank
  <2>1. TypeOK'
    BY <1>3, LoopAssumption DEF VBlank, IInv, TypeOK, ring, source
  <2>2. SourceInv'
    BY <1>3 DEF VBlank, IInv, SourceInv, Running, source, LastOffset, IrqPoints
  <2>3. RingInv'
    BY <1>3 DEF VBlank, IInv, RingInv, ring, Ahead
  <2> QED BY <2>1, <2>2, <2>3 DEF IInv
<1>4. CASE VBlankPhase
  <2>1. handler' \in 0 .. VBlankPlays + 4
    BY <1>4, LoopAssumption DEF VBlankPhase, IInv, TypeOK
  <2>2. sinceVBlank' \in 0 .. FrameGap /\ iyl' \in Pitches \cup {0} /\ handler > 0
    BY <1>4, LoopAssumption DEF VBlankPhase, IInv, TypeOK
  <2> QED BY <1>4, <2>1, <2>2, HandlerPlayStep DEF VBlankPhase
<1>5. CASE LastIteration
  <2>1. handler' \in 0 .. VBlankPlays + 4
    BY <1>5, LoopAssumption DEF LastIteration
  <2>2. sinceVBlank' \in 0 .. FrameGap /\ iyl' \in Pitches \cup {0} /\ handler > 0
    BY <1>5, LoopAssumption DEF LastIteration, IInv, TypeOK
  <2> QED BY <1>5, <2>1, <2>2, HandlerPlayStep DEF LastIteration
<1>6. CASE ProcessCommandInput
  <2>1. CASE handler' = 1 /\ UNCHANGED <<pc, sinceVBlank, pitchInput, active>>
    <3>1. TypeOK'
      BY <1>6, <2>1, LoopAssumption DEF ProcessCommandInput, IInv, TypeOK, ring
    <3>2. SourceInv'
      BY <1>6, <2>1 DEF ProcessCommandInput, IInv, SourceInv, Running, LastOffset
    <3>3. RingInv'
      BY <1>6, <2>1 DEF ProcessCommandInput, IInv, RingInv, ring, Ahead
    <3> QED BY <3>1, <3>2, <3>3 DEF IInv
  <2>2. CASE handler' = 0 /\ pc' = "Idle" /\ UNCHANGED <<sinceVBlank, pitchInput, active>>
    <3>1. TypeOK'
      BY <1>6, <2>2, LoopAssumption DEF ProcessCommandInput, IInv, TypeOK, ring, Labels
    <3>2. SourceInv'
      BY <1>6, <2>2 DEF ProcessCommandInput, SourceInv, Running
    <3>3. RingInv'
      BY <1>6, <2>2 DEF ProcessCommandInput, RingInv
    <3> QED BY <3>1, <3>2, <3>3 DEF IInv
  <2>3. CASE \E s \in Samples : Request(s)
    BY <1>6, <2>3, RequestStep DEF ProcessCommandInput
  <2> QED BY <1>6, <2>1, <2>2, <2>3 DEF ProcessCommandInput
<1>7. CASE VBlankReturn
  <2>1. handler' \in 0 .. VBlankPlays + 4
    BY <1>7, LoopAssumption DEF VBlankReturn
  <2>2. sinceVBlank' \in 0 .. FrameGap /\ iyl' \in Pitches \cup {0} /\ handler > 0
    BY <1>7, LoopAssumption DEF VBlankReturn, IInv, TypeOK
  <2> QED BY <1>7, <2>1, <2>2, HandlerPlayStep DEF VBlankReturn
<1>8. CASE SetPitch
  <2>1. TypeOK'
    BY <1>8 DEF SetPitch, IInv, TypeOK, ring, source
  <2>2. SourceInv'
    BY <1>8 DEF SetPitch, IInv, SourceInv, Running, source, LastOffset
  <2>3. RingInv'
    BY <1>8 DEF SetPitch, IInv, RingInv, ring, Ahead
  <2> QED BY <2>1, <2>2, <2>3 DEF IInv
<1>9. CASE UNCHANGED vars
  <2>1. TypeOK'
    BY <1>9 DEF vars, IInv, TypeOK, ring, source
  <2>2. SourceInv'
    BY <1>9 DEF vars, IInv, SourceInv, Running, source, LastOffset
  <2>3. RingInv'
    BY <1>9 DEF vars, IInv, RingInv, ring, Ahead
  <2> QED BY <2>1, <2>2, <2>3 DEF IInv
<1> QED BY <1>1, <1>2, <1>3, <1>4, <1>5, <1>6, <1>7, <1>8, <1>9 DEF Next, Handler

THEOREM Invariance == Spec => []IInv
<1>1. Init => IInv
  BY InitIInv
<1>2. IInv /\ [Next]_vars => IInv'
  BY NextIInv
<1> QED BY <1>1, <1>2, PTL DEF Spec

-----------------------------------------------------------------------------
(* What follows from it.                                                   *)

THEOREM TypeCorrect == Spec => []TypeOK
<1>1. IInv => TypeOK
  BY DEF IInv
<1> QED BY <1>1, Invariance, PTL

\* For any ring and any margin of at least three, a fetch overwrites nothing
\* that has not been played.
THEOREM NeverOverruns == Spec => NoOverrun
<1>1. IInv /\ [Next]_vars =>
        [\A n \in 0 .. Ahead - 1 : buffer'[Plus(l, n)] = buffer[Plus(l, n)]]_vars
  <2> SUFFICES ASSUME IInv, Next, NEW n \in 0 .. Ahead - 1
               PROVE  buffer'[Plus(l, n)] = buffer[Plus(l, n)]
    OBVIOUS
  <2>1. CASE Fetch
    <3>1. /\ e \in Slots /\ l \in Slots /\ Ahead <= RingSize - Margin
          /\ buffer \in [Slots -> Int]
      BY <2>1 DEF Fetch, IInv, TypeOK, RingInv
    <3>2. /\ Plus(l, n) \in Slots
          /\ Plus(l, n) # e /\ Plus(l, n) # Succ(e)
      BY <3>1, MarginAssumption DEF Plus, Ahead, Diff, Succ, Slots
    <3> QED BY <2>1, <3>1, <3>2 DEF Fetch
  <2>2. CASE ~Fetch
    <3>1. UNCHANGED buffer
      BY <2>2 DEF Next, MainLoop, Handler, IdleVBlank, Start, Reload, Reswitched,
         Rewind, Play, ChkReadahead, LastBankExhausted, LoadNextBank,
         NextBankLoaded, Drain, Drained, VBlank, VBlankPhase, LastIteration,
         ProcessCommandInput, VBlankReturn, SetPitch, ring
    <3> QED BY <3>1
  <2> QED BY <2>1, <2>2
<1> QED BY <1>1, Invariance, PTL DEF Spec, NoOverrun

\* For every well-formed sample table, no fetch leaves the sample.
THEOREM NeverReadsOutside == Spec => []ReadsInsideSample
<1>1. IInv => ReadsInsideSample
  <2> SUFFICES ASSUME IInv, pc = "Fetch" PROVE ReadsInsideSample
    BY DEF ReadsInsideSample
  <2>1. /\ Sound(active) /\ currentBank \in Int
        /\ hl \in Int /\ bc \in Int /\ 0 <= hl /\ 0 < bc /\ Even(bc)
        /\ hl + bc = LastOffset(currentBank)
        /\ active.startBank <= currentBank /\ currentBank <= active.endBank
        /\ currentBank = active.startBank => active.startOffset <= hl
    BY DEF IInv, TypeOK, SourceInv, Running, BankIds
  <2>2. 2 <= bc
    BY <2>1 DEF Even
  <2>3. hl + 2 <= LastOffset(currentBank)
    BY <2>1, <2>2, BankSizeAssumption DEF LastOffset, Sound
  <2>4. hl + 2 <= BankSize
    BY <2>1, <2>3, BankSizeAssumption DEF LastOffset, Sound
  <2>5. Addr(active.startBank, active.startOffset) <= Addr(currentBank, hl)
    <3>1. CASE currentBank = active.startBank
      <4>1. currentBank * BankSize \in Int
        BY <2>1, BankSizeAssumption
      <4> QED BY <2>1, <3>1, <4>1 DEF Addr, Sound
    <3>2. CASE currentBank # active.startBank
      BY <2>1, <3>2, AddrOrder, BankSizeAssumption DEF Sound
    <3> QED BY <3>1, <3>2
  <2>6. Addr(currentBank, hl + 2) <= Addr(active.endBank, active.endLength)
    <3>1. CASE currentBank = active.endBank
      <4>1. currentBank * BankSize \in Int
        BY <2>1, BankSizeAssumption
      <4> QED BY <2>1, <2>3, <3>1, <4>1 DEF Addr, Sound, LastOffset
    <3>2. CASE currentBank # active.endBank
      BY <2>1, <2>4, <3>2, AddrOrder, BankSizeAssumption DEF Sound
    <3> QED BY <3>1, <3>2
  <2>7. PICK s \in Samples : active = Load(s)
    <3>1. active # NoSample
      BY <2>1 DEF Sound, NoSample
    <3> QED BY <3>1 DEF IInv, TypeOK
  <2>8. /\ Addr(active.startBank, active.startOffset) = First(s)
        /\ Addr(active.endBank, active.endLength) = End(s)
    BY <2>7, LoadKeepsEnds, LoopAssumption
  <2> QED BY <2>4, <2>5, <2>6, <2>7, <2>8 DEF ReadsInsideSample
<1> QED BY <1>1, Invariance, PTL

-----------------------------------------------------------------------------
(* The stream: what has come out is a prefix of the sample.                *)

\* Plays of one VBlank, and how many of them the handler has yet to make.
Plays == VBlankPlays + 3
PlaysLeft ==
    IF handler > 2 THEN handler - 1 ELSE IF handler > 0 THEN 1 ELSE 0

Here == Addr(currentBank, hl)

MinOf(x, y) == IF x <= y THEN x ELSE y

InFirstPart == active.loop /\ currentBank = active.startBank

\* The reader is n bytes ahead or, in a looping sample that has just started
\* over, at least half of what it has fetched.
Level(n, iterations) ==
    \/ n >= MinOf(iterations, Plays)
    \/ InFirstPart /\ 2 * n >= hl - active.startOffset

\* At a bank switch: the last fetch has put two bytes more than that into the
\* buffer.  A loop inside one bank has no switches.
Filled(n) ==
    \/ Ahead >= n + 2
    \/ active.loop /\ active.startBank = active.endBank

\* The window shows CurrentBank but for the time of a switch, and if a command
\* cut that short no sample starts in the bank it was for.
WindowInv ==
    /\ pc \in {"Fetch", "Play", "Chk", "Exhausted", "Drain", "Reload"} =>
         window = currentBank
    /\ pc \in {"Idle", "Start"} =>
         window = currentBank \/ \A s \in Samples : s.startBank # currentBank
    /\ pc = "Reload" => active.loop /\ currentBank = active.endBank
    /\ pc = "Reswitch" => active.loop /\ active.startBank # active.endBank
    /\ pc = "Switch" => active.startBank < currentBank
    /\ pc \in {"Reload", "Reswitch"} => e = l

\* How full the buffer is, label by label.
FillInv ==
    /\ pc = "Fetch" /\ handler = 0 => Level(Ahead, sinceVBlank)
    /\ pc = "Chk" /\ handler = 0 =>
         /\ Level(Ahead, sinceVBlank)
         /\ sinceVBlank > 0 => Ahead >= 1
    /\ pc = "Play" =>
         /\ Ahead >= 2
         /\ Level(Ahead - 1, sinceVBlank + 1)
    /\ pc \in {"Exhausted", "Switch"} /\ handler = 0 =>
         Filled(MinOf(sinceVBlank, Plays))
    /\ pc \in {"Exhausted", "Switch"} /\ handler > 0 =>
         Filled(PlaysLeft)
    /\ pc \in {"Fetch", "Chk"} /\ handler > 0 /\ ~active.loop =>
         Ahead >= PlaysLeft

\* A check that found the buffer full, with a position an interrupt has made
\* stale since: what the handler played is missing, but no more.
StaleInv ==
    pc = "Chk" /\ ~ReadaheadOk(a, e) =>
        Ahead >= RingSize - Margin + 1 -
                 (IF handler > 0 THEN Plays - PlaysLeft
                  ELSE IF sinceVBlank = 0 THEN Plays ELSE 0)

\* In a handler the count of iterations stands at its limit; a sample starts
\* with a new count.
CountInv ==
    /\ handler > 0 => sinceVBlank = FrameGap
    /\ pc = "Start" => sinceVBlank = 0

\* The bytes between l' and e are the ones that precede the next fetch.
ContentInv ==
    Running =>
        \A n \in 0 .. Ahead - 1 : buffer[Plus(l, n)] = Here - Ahead + n

Flow == WindowInv /\ FillInv /\ StaleInv /\ CountInv /\ ContentInv

StreamInv == IInv /\ Flow

-----------------------------------------------------------------------------
(* What the proofs below need of the type invariant and of the samples.    *)

LEMMA Numbers ==
    ASSUME IInv
    PROVE  /\ e \in Slots /\ l \in Slots /\ a \in Slots
           /\ Ahead \in Int /\ 0 <= Ahead /\ Ahead <= RingSize - 1
           /\ Ahead = 0 <=> e = l
           /\ hl \in Int /\ 0 <= hl /\ bc \in Int /\ 0 <= bc
           /\ currentBank \in Int /\ window \in Int
           /\ sinceVBlank \in Int /\ 0 <= sinceVBlank /\ sinceVBlank <= FrameGap
           /\ handler \in Int /\ 0 <= handler /\ handler <= VBlankPlays + 4
           /\ VBlankPlays \in Int /\ 0 <= VBlankPlays /\ FrameGap \in Int
           /\ RingSize \in Int /\ Margin \in Int /\ 3 <= Margin
<1>1. e \in Slots /\ l \in Slots /\ a \in Slots
  BY DEF IInv, TypeOK
<1>2. Ahead \in 0 .. RingSize - 1 /\ (Ahead = 0 <=> e = l)
  BY <1>1, RingArithmetic DEF Ahead
<1>3. RingSize \in Int /\ Margin \in Int /\ 3 <= Margin
  BY MarginAssumption
<1>4. /\ hl \in Int /\ 0 <= hl /\ bc \in Int /\ 0 <= bc
      /\ currentBank \in Int /\ window \in Int
  BY BankSizeAssumption DEF IInv, TypeOK, BankIds, Partial
<1>5. VBlankPlays \in Int /\ 0 <= VBlankPlays /\ FrameGap \in Int
  BY LoopAssumption
<1>6. /\ sinceVBlank \in Int /\ 0 <= sinceVBlank /\ sinceVBlank <= FrameGap
      /\ handler \in Int /\ 0 <= handler /\ handler <= VBlankPlays + 4
  BY <1>5 DEF IInv, TypeOK
<1> QED BY <1>1, <1>2, <1>3, <1>4, <1>5, <1>6

LEMMA HereIsInt == ASSUME IInv PROVE Here \in Int
  BY Numbers, BankSizeAssumption DEF Here, Addr

LEMMA ActiveIsASample ==
    ASSUME IInv, pc # "Idle"
    PROVE  \E s \in Samples : active = Load(s)
<1>1. active # NoSample
  BY DEF IInv, SourceInv, Sound, NoSample
<1> QED BY <1>1 DEF IInv, TypeOK

\* The first part of a looping sample refills the buffer by half.
LEMMA FirstPartIsLong ==
    ASSUME IInv, LongLoops, pc # "Idle",
           active.loop, active.startBank # active.endBank
    PROVE  active.startLength >= 2 * (VBlankPlays + 4)
<1>1. PICK s \in Samples : active = Load(s)
  BY ActiveIsASample
<1> QED BY <1>1 DEF LongLoops, Load

\* The margin that was tested leaves room for the two bytes of a fetch.
LEMMA FetchAdvances ==
    ASSUME IInv, Fetch
    PROVE  Ahead' = Ahead + 2
<1>1. Ahead <= RingSize - Margin
  BY DEF Fetch, IInv, RingInv
<1>2. e \in Slots /\ l \in Slots /\ Succ(e) \in Slots
  BY Numbers, RingArithmetic
<1>3. Diff(Succ(e), l) = Ahead + 1
  BY <1>1, <1>2, Numbers, RingArithmetic DEF Ahead
<1>4. Diff(Succ(Succ(e)), l) = Diff(Succ(e), l) + 1
  BY <1>1, <1>2, <1>3, Numbers, RingArithmetic
<1> QED BY <1>2, <1>3, <1>4, Numbers DEF Fetch, Ahead

\* The end of a bank and the start of the next are the same place.
LEMMA BankBoundary ==
    ASSUME IInv, LoadNextBank
    PROVE  /\ active.startBank < currentBank'
           /\ Here' = Here
<1>1. /\ active.startBank \in Int /\ active.endBank \in Int /\ active.endBank <= 255
      /\ active.startBank <= currentBank /\ currentBank < active.endBank
      /\ 0 <= active.startBank
      /\ hl = BankSize /\ BankSize \in Int
  <2>1. /\ active.startBank \in Int /\ active.endBank \in Int /\ active.endBank <= 255
        /\ active.startBank <= currentBank /\ currentBank <= active.endBank
        /\ 0 <= active.startBank
        /\ hl + bc = BankSize /\ bc = 0
    BY DEF LoadNextBank, IInv, SourceInv, Sound, LastOffset, Running
  <2> QED BY <2>1, Numbers, BankSizeAssumption DEF LoadNextBank
<1>2. currentBank' = currentBank + 1 /\ hl' = 0
  BY <1>1, Numbers DEF LoadNextBank
<1>3. (currentBank + 1) * BankSize + 0 = currentBank * BankSize + BankSize
  BY <1>1, Numbers
<1>4. Here' = Here
  BY <1>1, <1>2, <1>3 DEF Here, Addr
<1> QED BY <1>1, <1>2, <1>4, Numbers

\* A play from a buffer that is not empty sends the byte that is due, and then
\* the bytes after it are due.
LEMMA PlayOne ==
    ASSUME IInv, ContentInv, Running, e # l, SendByte,
           UNCHANGED <<e, buffer, hl, currentBank>>
    PROVE  /\ dac' = Here - Ahead
           /\ l' \in Slots
           /\ Ahead' \in {Ahead, Ahead - 1}
           /\ Here' = Here
           /\ \A n \in 0 .. Ahead' - 1 :
                buffer'[Plus(l', n)] = Here' - Ahead' + n
<1>1. /\ e \in Slots /\ l \in Slots /\ Ahead \in Int /\ 1 <= Ahead
      /\ Ahead <= RingSize - 1 /\ RingSize \in Int
  BY Numbers
<1>2. Here \in Int /\ Here' = Here
  BY HereIsInt DEF Here
<1>3. buffer[Plus(l, 0)] = Here - Ahead
  <2>1. 0 \in 0 .. Ahead - 1
    BY <1>1
  <2>2. buffer[Plus(l, 0)] = Here - Ahead + 0
    BY <2>1 DEF ContentInv
  <2> QED BY <2>2, <1>1, <1>2
<1>4. Plus(l, 0) = l
  BY <1>1 DEF Plus, Slots
<1>5. dac' = Here - Ahead
  BY <1>3, <1>4 DEF SendByte
<1>6. CASE l' = l
  <2>1. Ahead' = Ahead
    BY <1>6 DEF Ahead
  <2> QED BY <1>1, <1>2, <1>5, <1>6, <2>1 DEF ContentInv
<1>7. CASE l' = Succ(l)
  <2>1. Ahead' = Ahead - 1 /\ l' \in Slots
    BY <1>1, <1>7, RingArithmetic DEF Ahead
  <2>2. ASSUME NEW n \in 0 .. Ahead' - 1
        PROVE  buffer'[Plus(l', n)] = Here' - Ahead' + n
    <3>1. n \in Int /\ n + 1 \in 0 .. Ahead - 1
      BY <1>1, <2>1
    <3>2. Plus(l', n) = Plus(l, n + 1)
      BY <1>1, <1>7, <3>1 DEF Plus, Succ, Slots
    <3>3. buffer[Plus(l, n + 1)] = Here - Ahead + (n + 1)
      BY <3>1 DEF ContentInv
    <3> QED BY <1>1, <1>2, <2>1, <3>1, <3>2, <3>3
  <2> QED BY <1>2, <1>5, <2>1, <2>2
<1>8. l' = l \/ l' = Succ(l)
  BY DEF SendByte
<1> QED BY <1>6, <1>7, <1>8

-----------------------------------------------------------------------------
(* The steps of the main loop.                                             *)

LEMMA InitFlow ==
    ASSUME SwitchesApart, Init
    PROVE  Flow
<1>1. WindowInv
  <2>1. pc = "Idle" /\ window = -1 /\ currentBank = 255
    BY DEF Init, Partial
  <2>2. \A s \in Samples : s.startBank # currentBank
    BY <2>1 DEF SwitchesApart
  <2> QED BY <2>1, <2>2 DEF WindowInv
<1>2. FillInv /\ StaleInv /\ CountInv /\ ContentInv
  BY DEF Init, FillInv, StaleInv, CountInv, ContentInv, Running
<1> QED BY <1>1, <1>2 DEF Flow

LEMMA RequestFlow ==
    ASSUME IInv, NEW s \in Samples, Request(s),
           UNCHANGED <<currentBank, window>>,
           window = currentBank \/ \A t \in Samples : t.startBank # currentBank
    PROVE  Flow'
<1>1. pc' = "Start" /\ handler' = 0 /\ sinceVBlank' = 0
  BY DEF Request
<1>2. WindowInv'
  BY <1>1 DEF WindowInv
<1>3. FillInv' /\ StaleInv' /\ CountInv' /\ ContentInv'
  BY <1>1 DEF FillInv, StaleInv, CountInv, ContentInv, Running
<1> QED BY <1>2, <1>3 DEF Flow

\* A sample starts over with an empty buffer, which is as full as it should be
\* at the start of a frame, or at the start of a looping sample.
LEMMA RewindFlow ==
    ASSUME IInv, IInv', Rewind, handler = 0,
           currentBank' = active.startBank, window' = currentBank',
           active.loop \/ sinceVBlank = 0
    PROVE  Flow'
<1>1. /\ pc' = "Fetch" /\ handler' = 0 /\ sinceVBlank' = sinceVBlank
      /\ active' = active /\ e' = 0 /\ l' = 0 /\ hl' = active.startOffset
  BY DEF Rewind
<1>2. Ahead' = 0
  BY <1>1, Numbers DEF Ahead, Diff
<1>3. WindowInv'
  BY <1>1 DEF WindowInv
<1>4. FillInv'
  <2>1. Level(Ahead, sinceVBlank)'
    <3>1. CASE active.loop
      <4>1. InFirstPart'
        BY <1>1, <3>1 DEF InFirstPart
      <4>2. (2 * Ahead >= hl - active.startOffset)'
        <5>1. active.startOffset \in Int
          BY <1>1 DEF IInv, SourceInv, Sound
        <5>2. hl' - active'.startOffset = 0
          BY <1>1, <5>1
        <5> QED BY <1>2, <5>2
      <4> QED BY <4>1, <4>2 DEF Level
    <3>2. CASE sinceVBlank = 0
      <4>1. MinOf(sinceVBlank, Plays)' = 0
        BY <1>1, <3>2, Numbers DEF MinOf, Plays
      <4> QED BY <1>2, <4>1 DEF Level
    <3> QED BY <3>1, <3>2
  <2> QED BY <1>1, <2>1 DEF FillInv
<1>5. StaleInv' /\ CountInv'
  BY <1>1 DEF StaleInv, CountInv
<1>6. ContentInv'
  BY <1>2 DEF ContentInv
<1> QED BY <1>3, <1>4, <1>5, <1>6 DEF Flow

LEMMA StartFlow ==
    ASSUME IInv, IInv', Flow, Start
    PROVE  Flow'
<1>1. pc = "Start" /\ handler = 0
  BY DEF Start
<1>2. PICK s \in Samples : active = Load(s)
  BY <1>1, ActiveIsASample
<1>3. active.startBank = s.startBank
  BY <1>2 DEF Load
<1>4. window' = currentBank' /\ currentBank' = active.startBank
  BY <1>1, <1>3 DEF Flow, WindowInv, Start
<1>5. sinceVBlank = 0
  BY <1>1 DEF Flow, CountInv
<1> QED BY <1>1, <1>4, <1>5, RewindFlow DEF Start

LEMMA ReloadFlow ==
    ASSUME IInv, IInv', Flow, Reload
    PROVE  Flow'
<1>1. /\ pc = "Reload" /\ handler = 0 /\ window = currentBank
      /\ active.loop /\ currentBank = active.endBank /\ e = l
  BY DEF Reload, Flow, WindowInv
<1>2. CASE currentBank = active.startBank
  BY <1>1, <1>2, RewindFlow DEF Reload
<1>3. CASE currentBank # active.startBank
  <2>1. /\ pc' = "Reswitch" /\ handler' = 0
        /\ UNCHANGED <<active, e, l, sinceVBlank>>
    BY <1>1, <1>3 DEF Reload, ring
  <2>2. WindowInv'
    BY <1>1, <1>3, <2>1 DEF WindowInv
  <2>3. FillInv' /\ StaleInv' /\ CountInv' /\ ContentInv'
    BY <2>1 DEF FillInv, StaleInv, CountInv, ContentInv, Running
  <2> QED BY <2>2, <2>3 DEF Flow
<1> QED BY <1>2, <1>3

LEMMA ReswitchedFlow ==
    ASSUME IInv, IInv', Flow, Reswitched
    PROVE  Flow'
<1>1. /\ handler = 0 /\ active.loop /\ Rewind
      /\ window' = currentBank' /\ currentBank' = active.startBank
  BY DEF Reswitched, Flow, WindowInv, IInv, SourceInv
<1> QED BY <1>1, RewindFlow

\* A fetch puts two bytes more between l' and e; at the end of a looping first
\* part they are half of it, which is a full refill.
LEMMA FetchFlow ==
    ASSUME LongLoops, IInv, IInv', Flow, Fetch
    PROVE  Flow'
<1>1. /\ pc = "Fetch" /\ handler = 0 /\ Running
      /\ handler' = 0 /\ e' = Succ(Succ(e)) /\ hl' = hl + 2 /\ bc' = bc - 2
      /\ pc' = IF bc' = 0 THEN "Exhausted" ELSE "Play"
      /\ UNCHANGED <<active, currentBank, window, sinceVBlank, l, a>>
  BY DEF Fetch, Running
<1>2. Ahead <= RingSize - Margin
  BY <1>1 DEF IInv, RingInv
<1>3. Ahead' = Ahead + 2
  BY FetchAdvances
<1>4. WindowInv'
  BY <1>1 DEF Flow, WindowInv
<1>5. Level(Ahead, sinceVBlank)
  BY <1>1 DEF Flow, FillInv
<1>6. FillInv'
  <2>1. CASE bc' # 0
    <3>1. Ahead' >= 2
      BY <1>3, Numbers
    <3>2. Level(Ahead - 1, sinceVBlank + 1)'
      <4>1. CASE Ahead >= MinOf(sinceVBlank, Plays)
        <5>1. Ahead' - 1 >= MinOf(sinceVBlank + 1, Plays)'
          BY <1>1, <1>3, <4>1, Numbers DEF MinOf, Plays
        <5> QED BY <5>1 DEF Level
      <4>2. CASE InFirstPart /\ 2 * Ahead >= hl - active.startOffset
        <5>1. active.startOffset \in Int
          BY <1>1 DEF IInv, SourceInv, Sound
        <5>2. InFirstPart' /\ 2 * (Ahead' - 1) >= hl' - active'.startOffset
          BY <1>1, <1>3, <4>2, <5>1, Numbers DEF InFirstPart
        <5> QED BY <5>2 DEF Level
      <4> QED BY <1>5, <4>1, <4>2 DEF Level
    <3> QED BY <1>1, <2>1, <3>1, <3>2 DEF FillInv
  <2>2. CASE bc' = 0
    <3>1. Filled(MinOf(sinceVBlank, Plays))'
      <4>1. CASE Ahead >= MinOf(sinceVBlank, Plays)
        BY <1>1, <1>3, <4>1, Numbers DEF Filled, MinOf, Plays
      <4>2. CASE InFirstPart /\ 2 * Ahead >= hl - active.startOffset
        <5>1. CASE active.startBank = active.endBank
          BY <1>1, <4>2, <5>1 DEF Filled, InFirstPart
        <5>2. CASE active.startBank # active.endBank
          <6>1. /\ active.startOffset \in Int /\ active.startLength \in Int
                /\ active.startOffset + active.startLength = BankSize
                /\ hl + bc = BankSize
            BY <1>1, <4>2, <5>2
               DEF IInv, SourceInv, Sound, InFirstPart, LastOffset
          <6>2. hl + 2 - active.startOffset = active.startLength
            BY <1>1, <2>2, <6>1, Numbers
          <6>3. active.startLength >= 2 * (VBlankPlays + 4)
            BY <1>1, <4>2, <5>2, FirstPartIsLong DEF InFirstPart
          <6>4. Ahead >= VBlankPlays + 3
            BY <4>2, <6>1, <6>2, <6>3, Numbers
          <6> QED BY <1>1, <1>3, <6>4, Numbers DEF Filled, MinOf, Plays
        <5> QED BY <5>1, <5>2
      <4> QED BY <1>5, <4>1, <4>2 DEF Level
    <3>2. pc' = "Exhausted" /\ handler' = 0
      BY <1>1, <2>2
    <3> QED BY <3>1, <3>2 DEF FillInv
  <2> QED BY <2>1, <2>2
<1>7. StaleInv' /\ CountInv'
  BY <1>1 DEF StaleInv, CountInv
<1>8. ContentInv'
  <2> SUFFICES ASSUME NEW n \in 0 .. Ahead' - 1
               PROVE  buffer'[Plus(l', n)] = Here' - Ahead' + n
    BY DEF ContentInv
  <2>1. /\ n \in Int /\ 0 <= n /\ n <= Ahead + 1
        /\ e \in Slots /\ l \in Slots /\ buffer \in [Slots -> Int]
        /\ Succ(e) \in Slots
    BY <1>3, Numbers, RingArithmetic DEF IInv, TypeOK
  <2>2. Here' = Here + 2 /\ Addr(window, hl) = Here /\ Addr(window, hl + 1) = Here + 1
    <3>1. window = currentBank /\ window' = currentBank
      BY <1>1 DEF Flow, WindowInv
    <3> DEFINE base == currentBank * BankSize
    <3>2. base \in Int
      BY Numbers, BankSizeAssumption
    <3>3. /\ Here = base + hl /\ Here' = base + hl'
          /\ Addr(window, hl) = base + hl /\ Addr(window, hl + 1) = base + (hl + 1)
      BY <1>1, <3>1 DEF Here, Addr
    <3> HIDE DEF base
    <3> QED BY <1>1, <3>2, <3>3, Numbers
  <2>3. Succ(e) # e
    BY <2>1, MarginAssumption DEF Succ, Slots
  <2>4. CASE n < Ahead
    <3>1. Plus(l, n) \in Slots /\ Plus(l, n) # e /\ Plus(l, n) # Succ(e)
      BY <1>2, <2>1, <2>4, MarginAssumption DEF Plus, Ahead, Diff, Succ, Slots
    <3>2. buffer'[Plus(l, n)] = buffer[Plus(l, n)]
      BY <2>1, <3>1 DEF Fetch
    <3>3. n \in 0 .. Ahead - 1
      BY <2>1, <2>4, Numbers
    <3>4. buffer[Plus(l, n)] = Here - Ahead + n
      BY <1>1, <3>3 DEF Flow, ContentInv
    <3> QED BY <1>1, <1>3, <2>1, <2>2, <3>2, <3>4, Numbers, HereIsInt
  <2>5. CASE n = Ahead
    <3>1. Plus(l, n) = e
      BY <2>1, <2>5, MarginAssumption DEF Plus, Ahead, Diff, Slots
    <3>2. buffer'[e] = Here
      BY <2>1, <2>2, <2>3 DEF Fetch
    <3> QED BY <1>1, <1>3, <2>1, <2>2, <2>5, <3>1, <3>2, Numbers, HereIsInt
  <2>6. CASE n = Ahead + 1
    <3>1. Plus(l, n) = Succ(e)
      BY <1>2, <2>1, <2>6, MarginAssumption DEF Plus, Ahead, Diff, Succ, Slots
    <3>2. buffer'[Succ(e)] = Here + 1
      BY <2>1, <2>2, <2>3 DEF Fetch
    <3> QED BY <1>1, <1>3, <2>1, <2>2, <2>6, <3>1, <3>2, Numbers, HereIsInt
  <2> QED BY <2>1, <2>4, <2>5, <2>6, Numbers
<1> QED BY <1>4, <1>6, <1>7, <1>8 DEF Flow

LEMMA PlayFlow ==
    ASSUME RefillInTime, IInv, IInv', Flow, Play
    PROVE  Flow'
<1>1. /\ pc = "Play" /\ handler = 0 /\ Running
      /\ pc' = "Chk" /\ handler' = 0 /\ a' = l' /\ SendByte
      /\ UNCHANGED <<active, currentBank, window, hl, e, buffer>>
      /\ sinceVBlank' = IF sinceVBlank < FrameGap THEN sinceVBlank + 1 ELSE FrameGap
  BY DEF Play, Running, CountIteration, source
<1>2. Ahead >= 2 /\ Level(Ahead - 1, sinceVBlank + 1)
  BY <1>1 DEF Flow, FillInv
<1>3. e # l
  BY <1>2, Numbers
<1>4. /\ l' \in Slots /\ Ahead' \in {Ahead, Ahead - 1} /\ Here' = Here
      /\ \A n \in 0 .. Ahead' - 1 :
           buffer'[Plus(l', n)] = Here' - Ahead' + n
  BY <1>1, <1>3, PlayOne DEF Flow
<1>5. WindowInv'
  BY <1>1 DEF Flow, WindowInv
<1>6. FillInv'
  <2>1. Level(Ahead, sinceVBlank)'
    <3>1. CASE Ahead - 1 >= MinOf(sinceVBlank + 1, Plays)
      <4>1. Ahead' >= MinOf(sinceVBlank, Plays)'
        BY <1>1, <1>4, <3>1, Numbers DEF MinOf, Plays, RefillInTime
      <4> QED BY <4>1 DEF Level
    <3>2. CASE InFirstPart /\ 2 * (Ahead - 1) >= hl - active.startOffset
      <4>1. active.startOffset \in Int
        BY <1>1 DEF IInv, SourceInv, Sound
      <4>2. InFirstPart' /\ 2 * Ahead' >= hl' - active'.startOffset
        BY <1>1, <1>4, <3>2, <4>1, Numbers DEF InFirstPart
      <4> QED BY <4>2 DEF Level
    <3> QED BY <1>2, <3>1, <3>2 DEF Level
  <2>2. Ahead' >= 1
    BY <1>2, <1>4, Numbers
  <2> QED BY <1>1, <2>1, <2>2 DEF FillInv
<1>7. StaleInv'
  <2>1. sinceVBlank' # 0
    BY <1>1, Numbers, LoopAssumption
  <2>2. Diff(l', e) < Margin => Ahead' >= RingSize - Margin + 1
    <3>1. e \in Slots /\ l' \in Slots /\ e # l' /\ Ahead' = Diff(e, l')
      <4>1. Ahead' = Diff(e, l')
        BY <1>1 DEF Ahead
      <4>2. Ahead' # 0
        BY <1>2, <1>4, Numbers
      <4> QED BY <1>4, <4>1, <4>2, Numbers, RingArithmetic
    <3>2. Diff(e, l') + Diff(l', e) = RingSize
      BY <3>1, RingArithmetic
    <3>3. Diff(e, l') \in 0 .. RingSize - 1 /\ Diff(l', e) \in 0 .. RingSize - 1
      BY <3>1, RingArithmetic
    <3> QED BY <3>1, <3>2, <3>3, MarginAssumption
  <2>3. ~ReadaheadOk(a, e)' => Diff(l', e) < Margin
    <3>1. Diff(l', e) \in 0 .. RingSize - 1
      BY <1>4, Numbers, RingArithmetic
    <3> QED BY <1>1, <3>1, MarginAssumption DEF ReadaheadOk
  <2> QED BY <1>1, <2>1, <2>2, <2>3, Numbers DEF StaleInv
<1>8. CountInv'
  BY <1>1 DEF CountInv
<1>9. ContentInv'
  BY <1>4 DEF ContentInv
<1> QED BY <1>5, <1>6, <1>7, <1>8, <1>9 DEF Flow

LEMMA ChkReadaheadFlow ==
    ASSUME RefillInTime, IInv, IInv', Flow, ChkReadahead
    PROVE  Flow'
<1>1. /\ pc = "Chk" /\ handler = 0 /\ Running /\ Level(Ahead, sinceVBlank)
      /\ pc' = IF ReadaheadOk(a, e) THEN "Fetch" ELSE "Play"
      /\ UNCHANGED <<handler, sinceVBlank, active, currentBank, window, hl, e, l, a, buffer>>
  BY DEF ChkReadahead, Running, ring, source, Flow, FillInv
<1>2. /\ Ahead' = Ahead /\ Here' = Here
      /\ Level(Ahead, sinceVBlank)' <=> Level(Ahead, sinceVBlank)
  BY <1>1 DEF Ahead, Here, Level, InFirstPart, MinOf, Plays
<1>3. WindowInv'
  BY <1>1 DEF Flow, WindowInv
<1>4. FillInv'
  <2>1. CASE ReadaheadOk(a, e)
    <3>1. pc' = "Fetch" /\ handler' = 0
      BY <1>1, <2>1
    <3> QED BY <1>1, <1>2, <3>1 DEF FillInv
  <2>2. CASE ~ReadaheadOk(a, e)
    <3>1. pc' = "Play" /\ handler' = 0
      BY <1>1, <2>2
    <3>2. Ahead >= RingSize - Margin + 1 - (IF sinceVBlank = 0 THEN Plays ELSE 0)
      BY <1>1, <2>2, Numbers DEF Flow, StaleInv
    <3>3. Ahead >= 2 /\ Ahead - 1 >= MinOf(sinceVBlank + 1, Plays)
      BY <3>2, Numbers DEF MinOf, Plays, RefillInTime
    <3>4. Ahead' >= 2 /\ Level(Ahead - 1, sinceVBlank + 1)'
      <4>1. Ahead' - 1 >= MinOf(sinceVBlank + 1, Plays)'
        BY <1>1, <1>2, <3>3 DEF MinOf, Plays
      <4> QED BY <1>2, <3>3, <4>1 DEF Level
    <3> QED BY <3>1, <3>4 DEF FillInv
  <2> QED BY <2>1, <2>2
<1>5. StaleInv'
  BY <1>1 DEF StaleInv
<1>6. CountInv'
  BY <1>1 DEF CountInv
<1>7. ContentInv'
  BY <1>1, <1>2 DEF Flow, ContentInv
<1> QED BY <1>3, <1>4, <1>5, <1>6, <1>7 DEF Flow

LEMMA LastBankExhaustedFlow ==
    ASSUME IInv, IInv', Flow, LastBankExhausted
    PROVE  Flow'
<1>1. /\ pc = "Exhausted" /\ handler = 0 /\ Running /\ pc' = "Drain"
      /\ UNCHANGED <<handler, sinceVBlank, active, currentBank, window, hl, e, l, a, buffer>>
  BY DEF LastBankExhausted, Running, ring, source
<1>2. WindowInv'
  BY <1>1 DEF Flow, WindowInv
<1>3. FillInv' /\ StaleInv' /\ CountInv'
  BY <1>1 DEF FillInv, StaleInv, CountInv
<1>4. ContentInv'
  <2>1. Ahead' = Ahead /\ Here' = Here
    BY <1>1 DEF Ahead, Here
  <2> QED BY <1>1, <2>1 DEF Flow, ContentInv
<1> QED BY <1>2, <1>3, <1>4 DEF Flow

LEMMA LoadNextBankFlow ==
    ASSUME IInv, IInv', Flow, LoadNextBank
    PROVE  Flow'
<1>1. /\ pc = "Exhausted" /\ handler = 0 /\ Running /\ pc' = "Switch"
      /\ currentBank # active.endBank
      /\ currentBank' = (currentBank + 1) % 256 /\ hl' = 0
      /\ UNCHANGED <<handler, sinceVBlank, active, e, l, a, buffer>>
  BY DEF LoadNextBank, Running, ring
<1>2. WindowInv'
  BY <1>1, BankBoundary DEF WindowInv
<1>3. FillInv'
  <2>1. Filled(MinOf(sinceVBlank, Plays))
    BY <1>1 DEF Flow, FillInv
  <2>2. Filled(MinOf(sinceVBlank, Plays))'
    BY <1>1, <2>1 DEF Filled, Ahead, MinOf, Plays
  <2> QED BY <1>1, <2>2 DEF FillInv
<1>4. StaleInv' /\ CountInv'
  BY <1>1 DEF Flow, StaleInv, CountInv
<1>5. ContentInv'
  <2>1. Ahead' = Ahead
    BY <1>1 DEF Ahead
  <2>2. Here' = Here
    BY BankBoundary
  <2> QED BY <1>1, <2>1, <2>2 DEF Flow, ContentInv
<1> QED BY <1>2, <1>3, <1>4, <1>5 DEF Flow

\* The play after a switch finds its byte.
LEMMA NextBankLoadedFlow ==
    ASSUME IInv, IInv', Flow, NextBankLoaded
    PROVE  Flow'
<1>1. /\ pc = "Switch" /\ handler = 0 /\ Running /\ pc' = "Play"
      /\ window' = currentBank
      /\ UNCHANGED <<handler, sinceVBlank, active, currentBank, hl, e, l, a, buffer>>
  BY DEF NextBankLoaded, Running, ring
<1>2. WindowInv'
  BY <1>1 DEF WindowInv
<1>3. FillInv'
  <2>1. Filled(MinOf(sinceVBlank, Plays)) /\ active.startBank < currentBank
    BY <1>1 DEF Flow, FillInv, WindowInv
  <2>2. active.startBank # active.endBank
    <3>1. /\ active.startBank \in Int /\ active.endBank \in Int
          /\ currentBank <= active.endBank
      BY <1>1 DEF IInv, SourceInv, Sound
    <3> QED BY <2>1, <3>1, Numbers
  <2>3. Ahead >= MinOf(sinceVBlank, Plays) + 2
    BY <2>1, <2>2 DEF Filled
  <2>4. Ahead' >= 2 /\ Ahead' - 1 >= MinOf(sinceVBlank + 1, Plays)'
    <3>1. Ahead' = Ahead
      BY <1>1 DEF Ahead
    <3> QED BY <1>1, <2>3, <3>1, Numbers DEF MinOf, Plays
  <2>5. Level(Ahead - 1, sinceVBlank + 1)'
    BY <2>4 DEF Level
  <2> QED BY <1>1, <2>4, <2>5 DEF FillInv
<1>4. StaleInv' /\ CountInv'
  BY <1>1 DEF StaleInv, CountInv
<1>5. ContentInv'
  <2>1. Ahead' = Ahead /\ Here' = Here
    BY <1>1 DEF Ahead, Here
  <2> QED BY <1>1, <2>1 DEF Flow, ContentInv
<1> QED BY <1>2, <1>3, <1>4, <1>5 DEF Flow

LEMMA DrainFlow ==
    ASSUME IInv, IInv', Flow, Drain
    PROVE  Flow'
<1>1. /\ pc = "Drain" /\ handler = 0 /\ Running /\ e # l /\ SendByte
      /\ pc' = "Drain"
      /\ UNCHANGED <<handler, active, currentBank, window, hl, e, buffer>>
  BY DEF Drain, Running, source
<1>2. \A n \in 0 .. Ahead' - 1 : buffer'[Plus(l', n)] = Here' - Ahead' + n
  BY <1>1, PlayOne DEF Flow
<1>3. WindowInv'
  BY <1>1 DEF Flow, WindowInv
<1>4. FillInv' /\ StaleInv' /\ CountInv'
  BY <1>1 DEF FillInv, StaleInv, CountInv
<1>5. ContentInv'
  BY <1>2 DEF ContentInv
<1> QED BY <1>3, <1>4, <1>5 DEF Flow

LEMMA DrainedFlow ==
    ASSUME IInv, IInv', Flow, Drained
    PROVE  Flow'
<1>1. /\ pc = "Drain" /\ handler = 0 /\ Running /\ e = l
      /\ pc' = IF active.loop THEN "Reload" ELSE "Idle"
      /\ UNCHANGED <<handler, sinceVBlank, active, currentBank, window, e, l>>
  BY DEF Drained, Running, ring, source
<1>2. currentBank = active.endBank
  BY <1>1 DEF IInv, SourceInv
<1>3. WindowInv'
  BY <1>1, <1>2 DEF Flow, WindowInv
<1>4. FillInv' /\ StaleInv' /\ CountInv' /\ ContentInv'
  BY <1>1 DEF FillInv, StaleInv, CountInv, ContentInv, Running
<1> QED BY <1>3, <1>4 DEF Flow

-----------------------------------------------------------------------------
(* The steps of the handler.                                               *)

LEMMA HandlerPoints ==
    ASSUME IInv, handler > 0
    PROVE  pc \in {"Fetch", "Chk", "Exhausted", "Switch", "Drain", "Reload", "Reswitch"}
  BY DEF IInv, TypeOK, SourceInv, Labels

LEMMA VBlankFlow ==
    ASSUME RefillInTime, IInv, IInv', Flow, VBlank
    PROVE  Flow'
<1>1. /\ handler = 0 /\ sinceVBlank = FrameGap
      /\ handler' = VBlankPlays + 4
      /\ pc # "Start" /\ pc # "Play"
      /\ UNCHANGED <<pc, sinceVBlank, active, currentBank, window, hl, e, l, a, buffer>>
  BY DEF VBlank, IrqPoints, ring, source
<1>2. /\ Ahead' = Ahead /\ Here' = Here
      /\ handler' > 0 /\ PlaysLeft' = Plays
      /\ MinOf(sinceVBlank, Plays) = Plays
  BY <1>1, Numbers DEF Ahead, Here, PlaysLeft, Plays, MinOf, RefillInTime
<1>3. WindowInv'
  BY <1>1 DEF Flow, WindowInv
<1>4. FillInv'
  <2>1. CASE pc \in {"Exhausted", "Switch"}
    <3>1. Filled(Plays)
      BY <1>1, <1>2, <2>1 DEF Flow, FillInv
    <3>2. Filled(PlaysLeft)'
      BY <1>1, <1>2, <3>1 DEF Filled
    <3>3. pc' \in {"Exhausted", "Switch"} /\ handler' # 0
      BY <1>1, <1>2, <2>1
    <3> QED BY <3>2, <3>3 DEF FillInv
  <2>2. CASE pc \in {"Fetch", "Chk"}
    <3>1. Level(Ahead, sinceVBlank)
      BY <1>1, <2>2 DEF Flow, FillInv
    <3>2. ~active'.loop => Ahead' >= PlaysLeft'
      BY <1>1, <1>2, <3>1 DEF Level, InFirstPart
    <3>3. pc' \in {"Fetch", "Chk"} /\ handler' # 0
      BY <1>1, <1>2, <2>2
    <3> QED BY <3>2, <3>3 DEF FillInv
  <2>3. CASE pc \notin {"Exhausted", "Switch", "Fetch", "Chk"}
    BY <1>1, <2>3 DEF FillInv
  <2> QED BY <2>1, <2>2, <2>3
<1>5. StaleInv'
  <2>1. sinceVBlank # 0
    BY <1>1, LoopAssumption
  <2>2. /\ Plays' - PlaysLeft' = 0 /\ Plays' = Plays /\ Plays \in Int
        /\ ReadaheadOk(a, e)' <=> ReadaheadOk(a, e)
    BY <1>1, <1>2, Numbers DEF Plays, ReadaheadOk
  <2>3. pc = "Chk" /\ ~ReadaheadOk(a, e) => Ahead >= RingSize - Margin + 1 - 0
    BY <1>1, <2>1 DEF Flow, StaleInv
  <2> QED BY <1>1, <1>2, <2>2, <2>3, Numbers DEF StaleInv
<1>6. CountInv'
  BY <1>1 DEF CountInv
<1>7. ContentInv'
  BY <1>1, <1>2 DEF Flow, ContentInv, Running
<1> QED BY <1>3, <1>4, <1>5, <1>6, <1>7 DEF Flow

\* A play of the handler uses up one byte at most, and one play.
LEMMA HandlerPlayFlow ==
    ASSUME IInv, IInv', Flow, handler > 0, handler # 2, SendByteIfAny,
           handler' = handler - 1,
           sinceVBlank' = IF handler = 1 THEN 0 ELSE sinceVBlank,
           UNCHANGED <<pc, active, currentBank, window, hl, e, a, buffer>>
    PROVE  Flow'
<1>1. pc \in {"Fetch", "Chk", "Exhausted", "Switch", "Drain", "Reload", "Reswitch"}
  BY HandlerPoints
<1>2. /\ Here' = Here
      /\ l' \in Slots
      /\ Ahead' \in Int /\ Ahead' >= Ahead - 1
      /\ Running /\ e = l => Ahead' = Ahead
  <2>1. CASE e = l
    BY <2>1, Numbers DEF SendByteIfAny, Ahead, Here
  <2>2. CASE e # l
    <3>1. SendByte
      BY <2>2 DEF SendByteIfAny
    <3>2. l' = l \/ l' = Succ(l)
      BY <3>1 DEF SendByte
    <3> QED BY <2>2, <3>2, Numbers, RingArithmetic DEF Ahead, Here
  <2> QED BY <2>1, <2>2
<1>3. PlaysLeft \in Int /\ PlaysLeft >= 1 /\ PlaysLeft' = PlaysLeft - 1
  BY Numbers DEF PlaysLeft
<1>4. WindowInv'
  <2>1. pc \in {"Reload", "Reswitch"} => UNCHANGED l
    BY DEF Flow, WindowInv, SendByteIfAny
  <2> QED BY <1>1, <2>1 DEF Flow, WindowInv
<1>5. FillInv'
  <2>1. CASE pc \in {"Exhausted", "Switch"}
    <3>1. Filled(PlaysLeft)
      BY <2>1 DEF Flow, FillInv
    <3>2. Filled(PlaysLeft)'
      BY <1>2, <1>3, <3>1, Numbers DEF Filled
    <3>3. CASE handler' = 0
      <4>1. MinOf(sinceVBlank, Plays)' = 0 /\ PlaysLeft' = 0
        BY <3>3, Numbers DEF MinOf, Plays, PlaysLeft
      <4>2. Filled(MinOf(sinceVBlank, Plays))'
        BY <3>2, <4>1 DEF Filled
      <4> QED BY <2>1, <3>3, <4>2 DEF FillInv
    <3>4. CASE handler' # 0
      BY <2>1, <3>2, <3>4 DEF FillInv
    <3> QED BY <3>3, <3>4
  <2>2. CASE pc \in {"Fetch", "Chk"}
    <3>1. ~active.loop => Ahead >= PlaysLeft
      BY <2>2 DEF Flow, FillInv
    <3>2. ~active'.loop => Ahead' >= PlaysLeft'
      BY <1>2, <1>3, <3>1, Numbers
    <3>3. CASE handler' = 0
      <4>1. MinOf(sinceVBlank, Plays)' = 0 /\ sinceVBlank' = 0
        BY <3>3, Numbers DEF MinOf, Plays
      <4>2. Ahead' >= 0
        <5>1. Ahead' = Diff(e, l') /\ Diff(e, l') \in 0 .. RingSize - 1
          BY <1>2, Numbers, RingArithmetic DEF Ahead
        <5> QED BY <5>1, Numbers
      <4>3. Level(Ahead, sinceVBlank)'
        BY <4>1, <4>2 DEF Level
      <4> QED BY <2>2, <3>3, <4>1, <4>3 DEF FillInv
    <3>4. CASE handler' # 0
      BY <2>2, <3>2, <3>4 DEF FillInv
    <3> QED BY <3>3, <3>4
  <2>3. CASE pc \notin {"Exhausted", "Switch", "Fetch", "Chk"}
    BY <1>1, <2>3 DEF FillInv
  <2> QED BY <2>1, <2>2, <2>3
<1>6. StaleInv'
  <2>1. SUFFICES ASSUME pc = "Chk", ~ReadaheadOk(a, e)
                 PROVE  Ahead' >= RingSize - Margin + 1 -
                          (IF handler' > 0 THEN Plays - PlaysLeft'
                           ELSE IF sinceVBlank' = 0 THEN Plays ELSE 0)
    BY DEF StaleInv, ReadaheadOk, Plays
  <2>2. Ahead >= RingSize - Margin + 1 - (Plays - PlaysLeft)
    BY <2>1 DEF Flow, StaleInv
  <2>3. handler' = 0 => sinceVBlank' = 0 /\ PlaysLeft' = 0
    BY Numbers DEF PlaysLeft
  <2>4. handler' > 0 \/ handler' = 0
    BY Numbers
  <2> QED BY <1>2, <1>3, <2>2, <2>3, <2>4, Numbers DEF Plays
<1>7. CountInv'
  BY <1>1, Numbers DEF Flow, CountInv
<1>8. ContentInv'
  <2>1. CASE ~Running
    BY <2>1 DEF ContentInv, Running
  <2>2. CASE Running /\ e = l
    <3>1. Ahead' = Ahead /\ Ahead = 0
      BY <1>2, <2>2, Numbers
    <3> QED BY <3>1 DEF ContentInv
  <2>3. CASE Running /\ e # l
    <3>1. SendByte
      BY <2>3 DEF SendByteIfAny
    <3>2. \A n \in 0 .. Ahead' - 1 : buffer'[Plus(l', n)] = Here' - Ahead' + n
      BY <2>3, <3>1, PlayOne DEF Flow
    <3> QED BY <3>2 DEF ContentInv
  <2> QED BY <2>1, <2>2, <2>3
<1> QED BY <1>4, <1>5, <1>6, <1>7, <1>8 DEF Flow

\* A sample may start where it was cut: in a bank that was being switched to,
\* no sample starts.
LEMMA ProcessCommandInputFlow ==
    ASSUME SwitchesApart, IInv, IInv', Flow, ProcessCommandInput
    PROVE  Flow'
<1>1. /\ handler = 2
      /\ UNCHANGED <<currentBank, window, hl, e, l, a, buffer>>
  BY DEF ProcessCommandInput, ring
<1>2. pc \in {"Fetch", "Chk", "Exhausted", "Switch", "Drain", "Reload", "Reswitch"}
  BY <1>1, HandlerPoints
<1>3. ASSUME active \in Interruptible
      PROVE  window = currentBank \/ \A t \in Samples : t.startBank # currentBank
  <2>1. PICK s \in Samples : active = Load(s)
    BY <1>2, ActiveIsASample
  <2>2. active.startBank = s.startBank /\ active.endBank = EndBank(s) /\ active.loop = s.loop
    BY <2>1 DEF Load
  <2>3. CASE pc = "Switch"
    <3>1. s.startBank < currentBank /\ currentBank <= EndBank(s)
      BY <2>2, <2>3 DEF Flow, WindowInv, IInv, SourceInv, Running
    <3> QED BY <1>3, <2>1, <3>1 DEF SwitchesApart
  <2>4. CASE pc = "Reswitch"
    <3>1. s.loop /\ EndBank(s) # s.startBank /\ currentBank = s.startBank
      BY <2>2, <2>4 DEF Flow, WindowInv, IInv, SourceInv
    <3> QED BY <1>3, <2>1, <3>1 DEF SwitchesApart
  <2>5. CASE pc \notin {"Switch", "Reswitch"}
    BY <1>2, <2>5 DEF Flow, WindowInv
  <2> QED BY <2>3, <2>4, <2>5
<1>4. CASE handler' = 1 /\ UNCHANGED <<pc, sinceVBlank, pitchInput, active>>
  <2>1. /\ Ahead' = Ahead /\ Here' = Here
        /\ PlaysLeft = 1 /\ PlaysLeft' = 1
    BY <1>1, <1>4 DEF Ahead, Here, PlaysLeft
  <2>2. WindowInv'
    BY <1>1, <1>4 DEF Flow, WindowInv
  <2>3. FillInv'
    <3>1. Filled(PlaysLeft)' <=> Filled(PlaysLeft)
      BY <1>1, <1>4, <2>1 DEF Filled
    <3>2. handler' = 1 /\ handler > 0
      BY <1>1, <1>4
    <3> QED BY <1>1, <1>2, <1>4, <2>1, <3>1, <3>2 DEF Flow, FillInv
  <2>4. StaleInv'
    <3>1. /\ ReadaheadOk(a, e)' <=> ReadaheadOk(a, e)
          /\ Plays' = Plays
      BY <1>1 DEF ReadaheadOk, Plays
    <3> QED BY <1>1, <1>4, <2>1, <3>1 DEF Flow, StaleInv
  <2>5. CountInv'
    BY <1>1, <1>4 DEF Flow, CountInv
  <2>6. ContentInv'
    BY <1>1, <1>4, <2>1 DEF Flow, ContentInv, Running
  <2> QED BY <2>2, <2>3, <2>4, <2>5, <2>6 DEF Flow
<1>5. CASE active \in Interruptible /\ handler' = 0 /\ pc' = "Idle"
  <2>1. WindowInv'
    BY <1>1, <1>3, <1>5 DEF WindowInv
  <2>2. FillInv' /\ StaleInv' /\ CountInv' /\ ContentInv'
    BY <1>5 DEF FillInv, StaleInv, CountInv, ContentInv, Running
  <2> QED BY <2>1, <2>2 DEF Flow
<1>6. CASE active \in Interruptible /\ \E s \in Samples : Request(s)
  BY <1>1, <1>3, <1>6, RequestFlow
<1> QED BY <1>4, <1>5, <1>6 DEF ProcessCommandInput

-----------------------------------------------------------------------------
(* The invariant.                                                          *)

LEMMA SameFlow ==
    ASSUME IInv, Flow,
           UNCHANGED <<pc, handler, sinceVBlank, active, currentBank, window,
                       hl, e, l, a, buffer>>
    PROVE  Flow'
<1>1. /\ Ahead' = Ahead /\ Here' = Here /\ PlaysLeft' = PlaysLeft /\ Plays' = Plays
      /\ MinOf(sinceVBlank, Plays)' = MinOf(sinceVBlank, Plays)
      /\ ReadaheadOk(a, e)' <=> ReadaheadOk(a, e)
  BY DEF Ahead, Here, PlaysLeft, Plays, MinOf, ReadaheadOk
<1>2. /\ Level(Ahead, sinceVBlank)' <=> Level(Ahead, sinceVBlank)
      /\ Level(Ahead - 1, sinceVBlank + 1)' <=> Level(Ahead - 1, sinceVBlank + 1)
      /\ Filled(PlaysLeft)' <=> Filled(PlaysLeft)
      /\ Filled(MinOf(sinceVBlank, Plays))' <=> Filled(MinOf(sinceVBlank, Plays))
  BY <1>1 DEF Level, InFirstPart, Filled, MinOf, Plays
<1>3. WindowInv'
  BY DEF Flow, WindowInv
<1>4. FillInv'
  BY <1>1, <1>2 DEF Flow, FillInv
<1>5. StaleInv'
  BY <1>1 DEF Flow, StaleInv
<1>6. CountInv'
  BY DEF Flow, CountInv
<1>7. ContentInv'
  BY <1>1 DEF Flow, ContentInv, Running
<1> QED BY <1>3, <1>4, <1>5, <1>6, <1>7 DEF Flow

LEMMA NextFlow ==
    ASSUME RefillInTime, LongLoops, SwitchesApart, IInv, IInv', Flow, [Next]_vars
    PROVE  Flow'
<1>1. CASE IdleVBlank
  <2>1. pc = "Idle" /\ UNCHANGED <<currentBank, window>>
    BY <1>1 DEF IdleVBlank
  <2>2. window = currentBank \/ \A t \in Samples : t.startBank # currentBank
    BY <2>1 DEF Flow, WindowInv
  <2> QED BY <1>1, <2>1, <2>2, RequestFlow DEF IdleVBlank
<1>2. CASE MainLoop
  BY <1>2, StartFlow, ReloadFlow, ReswitchedFlow, FetchFlow, PlayFlow,
     ChkReadaheadFlow, LastBankExhaustedFlow, LoadNextBankFlow,
     NextBankLoadedFlow, DrainFlow, DrainedFlow
     DEF MainLoop
<1>3. CASE VBlank
  BY <1>3, VBlankFlow
<1>4. CASE VBlankPhase
  <2>1. handler > 0 /\ handler # 2 /\ handler # 1
    BY <1>4, Numbers DEF VBlankPhase
  <2> QED BY <1>4, <2>1, HandlerPlayFlow DEF VBlankPhase, source
<1>5. CASE LastIteration
  <2>1. handler = 3 /\ handler' = handler - 1 /\ handler > 0 /\ handler # 2 /\ handler # 1
    BY <1>5 DEF LastIteration
  <2> QED BY <1>5, <2>1, HandlerPlayFlow DEF LastIteration, source
<1>6. CASE ProcessCommandInput
  BY <1>6, ProcessCommandInputFlow
<1>7. CASE VBlankReturn
  <2>1. handler = 1 /\ handler' = handler - 1 /\ handler > 0 /\ handler # 2
    BY <1>7 DEF VBlankReturn
  <2> QED BY <1>7, <2>1, HandlerPlayFlow DEF VBlankReturn, source
<1>8. CASE SetPitch
  BY <1>8, SameFlow DEF SetPitch, ring, source
<1>9. CASE UNCHANGED vars
  BY <1>9, SameFlow DEF vars, ring, source
<1> QED BY <1>1, <1>2, <1>3, <1>4, <1>5, <1>6, <1>7, <1>8, <1>9 DEF Next, Handler

THEOREM StreamInvariance ==
    ASSUME RefillInTime, LongLoops, SwitchesApart
    PROVE  Spec => []StreamInv
<1>1. Init => StreamInv
  BY InitIInv, InitFlow DEF StreamInv
<1>2. StreamInv /\ [Next]_vars => StreamInv'
  BY NextIInv, NextFlow DEF StreamInv
<1> QED BY <1>1, <1>2, PTL DEF Spec

-----------------------------------------------------------------------------
(* The refinement.                                                         *)

Clip == IF pc = "Idle" THEN ClipOf(NoSample) ELSE ClipOf(active)
NextByte == IF pc = "Idle" THEN 0 ELSE PlayingAt

\* A sample is not empty, and the next fetch is from inside it or from its end.
LEMMA ClipBounds ==
    ASSUME IInv, pc # "Idle"
    PROVE  /\ ClipOf(active).end \in Int
           /\ ClipOf(active) # ClipOf(NoSample)
           /\ Running => Here <= ClipOf(active).end
           /\ Running /\ pc = "Drain" => Here = ClipOf(active).end
<1>1. /\ active.startBank \in Int /\ active.endBank \in Int
      /\ active.startBank <= active.endBank
      /\ active.startOffset \in Int /\ 0 <= active.startOffset
      /\ active.startOffset < BankSize
      /\ active.startLength \in Int /\ 0 < active.startLength
      /\ active.endLength \in Int /\ 0 < active.endLength /\ active.endLength <= BankSize
      /\ active.startOffset + active.startLength =
           IF active.startBank = active.endBank THEN active.endLength ELSE BankSize
      /\ BankSize \in Int
  BY BankSizeAssumption DEF IInv, SourceInv, Sound
<1>2. /\ ClipOf(active).first = Addr(active.startBank, active.startOffset)
      /\ ClipOf(active).end = Addr(active.endBank, active.endLength)
  BY DEF ClipOf
<1>3. ClipOf(active).end \in Int
  BY <1>1, <1>2 DEF Addr
<1>4. ClipOf(active).first < ClipOf(active).end
  <2>1. CASE active.startBank = active.endBank
    <3>1. active.startBank * BankSize \in Int
      BY <1>1
    <3> QED BY <1>1, <1>2, <2>1, <3>1 DEF Addr
  <2>2. CASE active.startBank # active.endBank
    <3>1. active.startOffset + 1 \in Int /\ active.startOffset + 1 <= BankSize
          /\ active.startBank < active.endBank /\ active.endLength \in Nat
      BY <1>1, <2>2
    <3>2. Addr(active.startBank, active.startOffset + 1) <= Addr(active.endBank, active.endLength)
      BY <1>1, <3>1, AddrOrder
    <3>3. active.startBank * BankSize \in Int /\ active.endBank * BankSize \in Int
      BY <1>1
    <3> QED BY <1>1, <1>2, <3>2, <3>3 DEF Addr
  <2> QED BY <2>1, <2>2
<1>5. ClipOf(active) # ClipOf(NoSample)
  <2>1. ClipOf(NoSample).first = 0 /\ ClipOf(NoSample).end = 0
    BY <1>1 DEF ClipOf, NoSample, Addr
  <2> QED BY <1>4, <2>1
<1>6. Running => Here <= ClipOf(active).end
  <2>1. SUFFICES ASSUME Running PROVE Here <= ClipOf(active).end
    OBVIOUS
  <2>2. /\ currentBank <= active.endBank /\ hl + bc = LastOffset(currentBank)
        /\ hl \in Int /\ bc \in Int /\ 0 <= bc /\ currentBank \in Int
    BY <2>1, Numbers DEF IInv, SourceInv
  <2>3. CASE currentBank = active.endBank
    <3>1. hl <= active.endLength
      BY <1>1, <2>2, <2>3 DEF LastOffset
    <3>2. currentBank * BankSize \in Int
      BY <1>1, <2>2
    <3> QED BY <1>1, <1>2, <2>2, <2>3, <3>1, <3>2 DEF Here, Addr
  <2>4. CASE currentBank # active.endBank
    <3>1. hl <= BankSize /\ currentBank < active.endBank /\ active.endLength \in Nat
      BY <1>1, <2>2, <2>4 DEF LastOffset
    <3> QED BY <1>1, <1>2, <2>2, <3>1, AddrOrder DEF Here
  <2> QED BY <2>3, <2>4
<1>7. Running /\ pc = "Drain" => Here = ClipOf(active).end
  <2>1. SUFFICES ASSUME Running, pc = "Drain" PROVE Here = ClipOf(active).end
    OBVIOUS
  <2>2. currentBank = active.endBank /\ hl + bc = active.endLength /\ bc = 0
    BY <2>1 DEF IInv, SourceInv, LastOffset
  <2>3. hl = active.endLength
    BY <2>2, Numbers
  <2> QED BY <1>2, <2>2, <2>3 DEF Here
<1> QED BY <1>3, <1>5, <1>6, <1>7

\* A play while there is something to play is a step of the stream.
LEMMA SendRefines ==
    ASSUME IInv, Flow, Running, Running', e # l, SendByte,
           UNCHANGED <<active, hl, currentBank, e, buffer>>
    PROVE  Stream!Send
<1>1. /\ dac' = Here - Ahead /\ Ahead' \in {Ahead, Ahead - 1} /\ Here' = Here
  BY PlayOne DEF Flow
<1>2. /\ Here \in Int /\ Ahead \in Int /\ 1 <= Ahead
  BY Numbers, HereIsInt
<1>3. /\ ClipOf(active).end \in Int /\ ClipOf(active) # ClipOf(NoSample)
      /\ Here <= ClipOf(active).end
  BY ClipBounds DEF Running
<1>4. /\ Clip = ClipOf(active) /\ Clip' = Clip
      /\ NextByte = Here - Ahead /\ NextByte' = Here - Ahead'
  BY <1>1 DEF Running, Clip, NextByte, PlayingAt, Here, ClipOf
<1>5. /\ Clip # ClipOf(NoSample) /\ NextByte < Clip.end
      /\ NextByte' \in {NextByte, NextByte + 1}
  <2>1. Clip # ClipOf(NoSample) /\ Clip.end = ClipOf(active).end
    BY <1>3, <1>4
  <2>2. NextByte < ClipOf(active).end
    BY <1>2, <1>3, <1>4
  <2>3. Ahead' = Ahead \/ Ahead' = Ahead - 1
    BY <1>1
  <2>4. NextByte' = NextByte \/ NextByte' = NextByte + 1
    BY <1>2, <1>4, <2>3
  <2> QED BY <2>1, <2>2, <2>4
<1> QED BY <1>1, <1>4, <1>5 DEF Stream!Send, Clip, NextByte

LEMMA RequestRefines ==
    ASSUME NEW s \in Samples, Request(s), UNCHANGED dac
    PROVE  Stream!Begin
<1>1. /\ active' = Load(s) /\ pc' = "Start"
  BY DEF Request
<1>2. /\ Clip' = ClipOf(Load(s))
      /\ NextByte' = Clip'.first
  BY <1>1 DEF Clip, NextByte, PlayingAt, ClipOf
<1>3. Clip' = [first |-> First(s), end |-> End(s), loop |-> s.loop]
  BY <1>2, LoadKeepsEnds, LoopAssumption DEF ClipOf, Load
<1> QED BY <1>2, <1>3 DEF Stream!Begin, Clip, NextByte

\* The positions are put back to the first byte of the sample.
LEMMA RewindRefines ==
    ASSUME IInv, Rewind, pc \in {"Start", "Reload", "Reswitch"},
           currentBank' = active.startBank
    PROVE  UNCHANGED Stream!svars
<1>1. /\ pc' = "Fetch" /\ UNCHANGED <<active, dac>>
      /\ hl' = active.startOffset /\ e' = 0 /\ l' = 0
  BY DEF Rewind
<1>2. PlayingAt = Addr(active.startBank, active.startOffset)
  BY DEF PlayingAt
<1>3. PlayingAt' = Addr(active.startBank, active.startOffset) - 0
  <2>1. Ahead' = 0
    BY <1>1, Numbers DEF Ahead, Diff
  <2> QED BY <1>1, <2>1 DEF PlayingAt, Addr
<1>4. Addr(active.startBank, active.startOffset) \in Int
  <2>1. active.startBank \in Int /\ active.startOffset \in Int
    BY DEF IInv, SourceInv, Sound
  <2> QED BY <2>1, BankSizeAssumption DEF Addr
<1>5. Clip' = Clip /\ NextByte' = NextByte
  BY <1>1, <1>2, <1>3, <1>4 DEF Clip, NextByte, ClipOf
<1> QED BY <1>1, <1>5 DEF Stream!svars, Clip, NextByte

\* Anything else that moves neither position along the sample.
LEMMA StutterRefines ==
    ASSUME pc # "Idle", pc' # "Idle", PlayingAt' = PlayingAt,
           UNCHANGED <<active, dac>>
    PROVE  UNCHANGED Stream!svars
<1>1. Clip' = Clip /\ NextByte' = NextByte
  BY DEF Clip, NextByte, ClipOf
<1> QED BY <1>1 DEF Stream!svars, Clip, NextByte

LEMMA HandlerPlayRefines ==
    ASSUME IInv, Flow, handler > 0, SendByteIfAny,
           UNCHANGED <<pc, active, hl, currentBank, e, buffer>>
    PROVE  [Stream!Next]_(Stream!svars)
<1>1. pc \in {"Fetch", "Chk", "Exhausted", "Switch", "Drain", "Reload", "Reswitch"}
  BY HandlerPoints
<1>2. CASE e = l
  <2>1. UNCHANGED <<l, dac>>
    BY <1>2 DEF SendByteIfAny
  <2>2. PlayingAt' = PlayingAt
    BY <2>1 DEF PlayingAt, Ahead, Addr
  <2> QED BY <1>1, <2>1, <2>2, StutterRefines
<1>3. CASE e # l
  <2>1. Running /\ Running'
    BY <1>1, <1>3 DEF Flow, WindowInv, Running
  <2> QED BY <1>3, <2>1, SendRefines DEF SendByteIfAny, Stream!Next
<1> QED BY <1>2, <1>3

LEMMA MainLoopRefines ==
    ASSUME IInv, IInv', Flow, MainLoop
    PROVE  [Stream!Next]_(Stream!svars)
<1>1. CASE Start
  BY <1>1, RewindRefines DEF Start
<1>2. CASE Reload
  <2>1. CASE currentBank = active.startBank
    BY <1>2, <2>1, RewindRefines DEF Reload
  <2>2. CASE currentBank # active.startBank
    <3>1. pc = "Reload" /\ pc' = "Reswitch" /\ UNCHANGED <<active, dac>>
      BY <1>2, <2>2 DEF Reload, ring
    <3>2. PlayingAt' = PlayingAt
      BY <3>1 DEF PlayingAt, Addr
    <3> QED BY <3>1, <3>2, StutterRefines
  <2> QED BY <2>1, <2>2
<1>3. CASE Reswitched
  <2>1. pc = "Reswitch" /\ Rewind /\ currentBank' = active.startBank
    BY <1>3 DEF Reswitched, IInv, SourceInv
  <2> QED BY <2>1, RewindRefines
<1>4. CASE Fetch
  <2>1. /\ pc = "Fetch" /\ pc' \in {"Play", "Exhausted"}
        /\ hl' = hl + 2 /\ e' = Succ(Succ(e))
        /\ UNCHANGED <<active, dac, currentBank, l>>
    BY <1>4 DEF Fetch
  <2>2. Ahead' = Ahead + 2
    BY <1>4, FetchAdvances
  <2>3. PlayingAt = Here - Ahead /\ PlayingAt' = Here' - Ahead'
    BY <2>1 DEF PlayingAt, Here
  <2>4. Here' = Here + 2
    <3> DEFINE base == currentBank * BankSize
    <3>1. base \in Int
      BY Numbers, BankSizeAssumption
    <3>2. Here = base + hl /\ Here' = base + (hl + 2)
      BY <2>1 DEF Here, Addr
    <3> HIDE DEF base
    <3> QED BY <3>1, <3>2, Numbers
  <2>5. PlayingAt' = PlayingAt
    BY <2>2, <2>3, <2>4, Numbers, HereIsInt
  <2> QED BY <2>1, <2>5, StutterRefines
<1>5. CASE Play
  <2>1. Running /\ Running' /\ handler = 0
    BY <1>5 DEF Play, Running
  <2>2. Ahead >= 2
    BY <1>5 DEF Play, Flow, FillInv
  <2>3. e # l
    BY <2>2, Numbers
  <2> QED BY <1>5, <2>1, <2>3, SendRefines DEF Play, source, Stream!Next
<1>6. CASE ChkReadahead
  <2>1. /\ pc = "Chk" /\ pc' \in {"Fetch", "Play"}
        /\ UNCHANGED <<active, dac, currentBank, hl, e, l>>
    BY <1>6 DEF ChkReadahead, ring, source
  <2>2. PlayingAt' = PlayingAt
    BY <2>1 DEF PlayingAt, Ahead, Addr
  <2> QED BY <2>1, <2>2, StutterRefines
<1>7. CASE LastBankExhausted
  <2>1. /\ pc = "Exhausted" /\ pc' = "Drain"
        /\ UNCHANGED <<active, dac, currentBank, hl, e, l>>
    BY <1>7 DEF LastBankExhausted, ring, source
  <2>2. PlayingAt' = PlayingAt
    BY <2>1 DEF PlayingAt, Ahead, Addr
  <2> QED BY <2>1, <2>2, StutterRefines
<1>8. CASE LoadNextBank
  <2>1. /\ pc = "Exhausted" /\ pc' = "Switch" /\ UNCHANGED <<active, dac, e, l>>
    BY <1>8 DEF LoadNextBank, ring
  <2>2. PlayingAt = Here - Ahead /\ PlayingAt' = Here' - Ahead
    BY <2>1 DEF PlayingAt, Here, Ahead
  <2>3. Here' = Here
    BY <1>8, BankBoundary
  <2> QED BY <2>1, <2>2, <2>3, StutterRefines
<1>9. CASE NextBankLoaded
  <2>1. /\ pc = "Switch" /\ pc' = "Play"
        /\ UNCHANGED <<active, dac, currentBank, hl, e, l>>
    BY <1>9 DEF NextBankLoaded, ring
  <2>2. PlayingAt' = PlayingAt
    BY <2>1 DEF PlayingAt, Ahead, Addr
  <2> QED BY <2>1, <2>2, StutterRefines
<1>10. CASE Drain
  <2>1. Running /\ Running'
    BY <1>10 DEF Drain, Running
  <2> QED BY <1>10, <2>1, SendRefines DEF Drain, source, Stream!Next
<1>11. CASE Drained
  <2>1. /\ pc = "Drain" /\ Running /\ e = l
        /\ pc' = IF active.loop THEN "Reload" ELSE "Idle"
        /\ UNCHANGED <<active, dac>>
    BY <1>11 DEF Drained, Running, ring, source
  <2>2. Here = ClipOf(active).end /\ ClipOf(active) # ClipOf(NoSample)
    BY <2>1, ClipBounds
  <2>3. Clip = ClipOf(active) /\ NextByte = Clip.end /\ Clip.loop = active.loop
    <3>1. PlayingAt = Here - 0
      BY <2>1, Numbers DEF PlayingAt, Here
    <3> QED BY <2>1, <2>2, <3>1, HereIsInt DEF Clip, NextByte, ClipOf
  <2>4. CASE active.loop
    <3>1. Clip' = Clip /\ NextByte' = Clip.first
      BY <2>1, <2>4 DEF Clip, NextByte, PlayingAt, ClipOf
    <3>2. Stream!Repeat
      BY <2>1, <2>2, <2>3, <2>4, <3>1 DEF Stream!Repeat, Clip, NextByte
    <3> QED BY <3>2 DEF Stream!Next
  <2>5. CASE ~active.loop
    <3>1. Clip' = ClipOf(NoSample) /\ NextByte' = 0
      BY <2>1, <2>5 DEF Clip, NextByte, ClipOf, NoSample
    <3>2. Stream!Finish
      BY <2>1, <2>2, <2>3, <2>5, <3>1 DEF Stream!Finish, Clip, NextByte
    <3> QED BY <3>2 DEF Stream!Next
  <2> QED BY <2>4, <2>5
<1> QED BY <1>1, <1>2, <1>3, <1>4, <1>5, <1>6, <1>7, <1>8, <1>9, <1>10, <1>11
       DEF MainLoop

LEMMA NextRefines ==
    ASSUME IInv, IInv', Flow, [Next]_vars
    PROVE  [Stream!Next]_(Stream!svars)
<1>1. CASE IdleVBlank
  BY <1>1, RequestRefines DEF IdleVBlank, ring, Stream!Next
<1>2. CASE MainLoop
  BY <1>2, MainLoopRefines
<1>3. CASE VBlank \/ SetPitch \/ UNCHANGED vars
  <2>1. UNCHANGED <<pc, active, currentBank, hl, e, l, dac>>
    BY <1>3 DEF VBlank, SetPitch, vars, ring, source
  <2>2. Clip' = Clip /\ NextByte' = NextByte
    BY <2>1 DEF Clip, NextByte, PlayingAt, Ahead, Addr, ClipOf
  <2> QED BY <2>1, <2>2 DEF Stream!svars, Clip, NextByte
<1>4. CASE VBlankPhase
  <2>1. handler > 0
    BY <1>4, Numbers DEF VBlankPhase
  <2> QED BY <1>4, <2>1, HandlerPlayRefines DEF VBlankPhase, source
<1>5. CASE LastIteration
  <2>1. handler > 0
    BY <1>5 DEF LastIteration
  <2> QED BY <1>5, <2>1, HandlerPlayRefines DEF LastIteration, source
<1>6. CASE ProcessCommandInput
  <2>1. handler > 0 /\ UNCHANGED <<currentBank, hl, e, l, dac>>
    BY <1>6 DEF ProcessCommandInput, ring
  <2>2. pc # "Idle"
    BY <2>1, HandlerPoints
  <2>3. CASE UNCHANGED <<pc, active>>
    <3>1. PlayingAt' = PlayingAt
      BY <2>1, <2>3 DEF PlayingAt, Ahead, Addr
    <3> QED BY <2>1, <2>2, <2>3, <3>1, StutterRefines
  <2>4. CASE pc' = "Idle"
    <3>1. Clip = ClipOf(active) /\ Clip # ClipOf(NoSample)
      BY <2>2, ClipBounds DEF Clip
    <3>2. Clip' = ClipOf(NoSample) /\ NextByte' = 0
      BY <2>4 DEF Clip, NextByte, ClipOf, NoSample
    <3>3. Stream!Cut
      BY <2>1, <3>1, <3>2 DEF Stream!Cut, Clip, NextByte
    <3> QED BY <3>3 DEF Stream!Next
  <2>5. CASE \E s \in Samples : Request(s)
    BY <2>1, <2>5, RequestRefines DEF Stream!Next
  <2> QED BY <1>6, <2>3, <2>4, <2>5 DEF ProcessCommandInput
<1>7. CASE VBlankReturn
  <2>1. handler > 0
    BY <1>7 DEF VBlankReturn
  <2> QED BY <1>7, <2>1, HandlerPlayRefines DEF VBlankReturn, source
<1> QED BY <1>1, <1>2, <1>3, <1>4, <1>5, <1>6, <1>7 DEF Next, Handler

\* For any ring, margin, frame and sample table that meet the conditions, the
\* DAC is sent the bytes of the sample in order, none missing and none stale.
THEOREM PlaysInOrder ==
    ASSUME RefillInTime, LongLoops, SwitchesApart
    PROVE  Spec => StreamInOrder
<1>1. Init => Stream!Init
  BY DEF Init, Stream!Init, NoByte
<1>2. IInv /\ IInv' /\ Flow /\ [Next]_vars => [Stream!Next]_(Stream!svars)
  BY NextRefines
<1>3. StreamInv => IInv /\ Flow
  BY DEF StreamInv
<1> QED BY <1>1, <1>2, <1>3, StreamInvariance, PTL DEF Spec, StreamInOrder, Stream!Spec

\* Under the same conditions the handler always finds a byte to play, unless
\* the sample loops.
THEOREM NeverStarves ==
    ASSUME RefillInTime, LongLoops, SwitchesApart
    PROVE  Spec => []NoStarvation
<1>1. StreamInv => NoStarvation
  <2> SUFFICES ASSUME StreamInv, handler > 0, pc # "Drain", ~active.loop, handler # 2
               PROVE  e # l
    BY DEF NoStarvation
  <2>1. pc \in {"Fetch", "Chk", "Exhausted", "Switch", "Reload", "Reswitch"}
    BY HandlerPoints DEF StreamInv
  <2>2. pc \notin {"Reload", "Reswitch"}
    BY DEF StreamInv, Flow, WindowInv
  <2>3. PlaysLeft \in Int /\ PlaysLeft >= 1
    BY Numbers DEF StreamInv, PlaysLeft
  <2>4. Ahead >= 1
    <3>1. CASE pc \in {"Fetch", "Chk"}
      <4>1. Ahead >= PlaysLeft
        BY <3>1 DEF StreamInv, Flow, FillInv
      <4> QED BY <2>3, <4>1, Numbers DEF StreamInv
    <3>2. CASE pc \in {"Exhausted", "Switch"}
      <4>1. Filled(PlaysLeft)
        BY <3>2 DEF StreamInv, Flow, FillInv
      <4> QED BY <2>3, <4>1, Numbers DEF StreamInv, Filled
    <3> QED BY <2>1, <2>2, <3>1, <3>2
  <2> QED BY <2>4, Numbers DEF StreamInv
<1> QED BY <1>1, StreamInvariance, PTL

\* Under the same conditions no fetch is from a bank other than CurrentBank.
THEOREM WindowShowsCurrentBank ==
    ASSUME RefillInTime, LongLoops, SwitchesApart
    PROVE  Spec => []CurrentBankIsLoaded
<1>1. StreamInv => CurrentBankIsLoaded
  BY DEF StreamInv, Flow, WindowInv, CurrentBankIsLoaded
<1> QED BY <1>1, StreamInvariance, PTL
=============================================================================
