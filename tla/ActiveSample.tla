---------------------------- MODULE ActiveSample ----------------------------
(***************************************************************************)
(* LoadActiveSampleData_DI (play-sample.asm): the arithmetic that turns a  *)
(* record of the sample table (sSampleInput) into the parameters of the    *)
(* playback loop (sActiveSample).  ROM is seen through a window of one     *)
(* bank; a sample runs from an offset in its start bank to an offset in    *)
(* its end bank.  BankSize stands for 8000h.                               *)
(***************************************************************************)
EXTENDS Integers

CONSTANT BankSize

ASSUME BankSizeAssumption ==
    /\ BankSize \in Nat
    /\ 2 <= BankSize
    /\ BankSize % 2 = 0

\* Bank numbers are bytes.
BankIds == 0 .. 255

\* The fields of sSampleInput the loops read (pan, priority and type excepted).
SampleInputs ==
    [startBank : BankIds, endBank : BankIds,
     startOffset : 0 .. BankSize - 1, endOffset : 0 .. BankSize - 1,
     loop : BOOLEAN, pitch : Nat]

\* An end offset of zero means "up to the end of the previous bank".
EndLength(s) == IF s.endOffset = 0 THEN BankSize ELSE s.endOffset

\* (mutant) the whole of the bank behind the sample
EndBankKept(s) == s.endBank

EndBank(s) == IF s.endOffset = 0 THEN (s.endBank - 1) % 256 ELSE s.endBank

\* Bytes to play before the first bank switch, or in all if there is none.
StartLength(s) ==
    (IF EndBank(s) = s.startBank THEN EndLength(s) ELSE BankSize) - s.startOffset

\* The sActiveSample record.
Load(s) ==
    [startBank |-> s.startBank, endBank |-> EndBank(s),
     startOffset |-> s.startOffset, startLength |-> StartLength(s),
     endLength |-> EndLength(s), loop |-> s.loop]

\* The position of a window offset in the whole ROM.  It also stands for the
\* byte stored there: two bytes are told apart by where they come from.
Addr(bank, off) == bank * BankSize + off

\* Where a sample begins and ends, by its record in the table.
First(s) == Addr(s.startBank, s.startOffset)
End(s) == Addr(s.endBank, s.endOffset)

\* What LoadSampleTable writes for a PCM sample that is not empty: both ends
\* rounded down to even addresses, the end after the start.
WellFormed(s) ==
    /\ s.startOffset % 2 = 0
    /\ s.endOffset % 2 = 0
    /\ \/ s.startBank < s.endBank
       \/ s.startBank = s.endBank /\ s.startOffset < s.endOffset
=============================================================================
