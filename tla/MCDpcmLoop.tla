---------------------------- MODULE MCDpcmLoop ----------------------------
(***************************************************************************)
(* Small instances of DpcmLoop for TLC.                                    *)
(***************************************************************************)
EXTENDS DpcmLoop

Sample(sb, so, eb, eo, lp, tb) ==
    [startBank |-> sb, startOffset |-> so, endBank |-> eb, endOffset |-> eo,
     loop |-> lp, turbo |-> tb, pitch |-> PitchBase - 1]

\* Odd lengths, the last byte of a bank, ends at a bank boundary, one to three
\* banks; the looping ones have a first part that refills the buffer.
PlainSamples ==
    {Sample(1, 7, 3, 3, FALSE, FALSE), Sample(1, 2, 2, 0, TRUE, FALSE),
     Sample(1, 5, 2, 6, FALSE, TRUE), Sample(1, 1, 2, 3, TRUE, TRUE)}

\* Looping in one bank, with an odd number of bytes.
OneBankLoop == {Sample(1, 3, 2, 0, TRUE, FALSE)}
=============================================================================
