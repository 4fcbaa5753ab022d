----------------------------- MODULE MCPcmLoop -----------------------------
(***************************************************************************)
(* Small instances of PcmLoop for TLC.                                     *)
(***************************************************************************)
EXTENDS PcmLoop

Sample(sb, so, eb, eo, lp) ==
    [startBank |-> sb, startOffset |-> so, endBank |-> eb, endOffset |-> eo,
     loop |-> lp, pitch |-> PitchBase - 1]

\* Inside one bank: in the middle of it, and up to its end, looping or not.
OneBank == {Sample(1, 0, 1, 14, FALSE), Sample(1, 14, 2, 0, TRUE)}

\* Over several banks: short and long first parts, an end at a bank boundary.
\* None loops.
ManyBanks == {Sample(1, 14, 3, 4, FALSE), Sample(1, 2, 3, 0, FALSE)}

\* Both, to be cut short by one another and by the loops below.
PlainSamples == OneBank \cup ManyBanks
PlainActive == {Load(s) : s \in PlainSamples}

\* Looping over two banks with a first part long enough to refill the buffer.
LongLoop == {Sample(1, 4, 2, 6, TRUE), Sample(1, 0, 3, 0, TRUE)}
LoopActive == {Load(s) : s \in LongLoop}

\* The loops are not cut short: they would be on their way back to the first bank.
AllSamples == PlainSamples \cup LongLoop

\* Looping over two banks with a first part too short for that.
ShortLoop == {Sample(1, 14, 2, 14, TRUE)}
=============================================================================
