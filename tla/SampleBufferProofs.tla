------------------------- MODULE SampleBufferProofs -------------------------
(***************************************************************************)
(* Arithmetic of the ring and of ROM addresses, for the proofs about the   *)
(* loops that share them.                                                  *)
(***************************************************************************)
EXTENDS SampleBuffer, ActiveSample, TLAPS

\* One step of either position changes their distance by one, unless it closes the
\* ring.
LEMMA RingArithmetic ==
    ASSUME NEW x \in Slots, NEW y \in Slots
    PROVE  /\ Succ(x) \in Slots
           /\ Diff(x, y) \in 0 .. RingSize - 1
           /\ Diff(x, y) = 0 <=> x = y
           /\ x # y => Diff(x, Succ(y)) = Diff(x, y) - 1
           /\ Diff(x, y) <= RingSize - 2 => Diff(Succ(x), y) = Diff(x, y) + 1
           /\ x # y => Diff(x, y) + Diff(y, x) = RingSize
  BY MarginAssumption DEF Slots, Succ, Diff

\* What the check of the margin shows of the places still free.
LEMMA MarginLeavesRoom ==
    ASSUME NEW x \in Slots, NEW y \in Slots, Diff(x, y) >= Margin
    PROVE  Diff(y, x) <= RingSize - Margin
  BY MarginAssumption DEF Slots, Diff

\* A position in an earlier bank is before any position in a later one.
LEMMA AddrOrder ==
    ASSUME NEW b \in Int, NEW c \in Int, b < c,
           NEW x \in Int, x <= BankSize, NEW y \in Nat
    PROVE  Addr(b, x) <= Addr(c, y)
<1>1. (c - b - 1) * BankSize >= 0
  BY BankSizeAssumption
<1>2. c * BankSize = b * BankSize + BankSize + (c - b - 1) * BankSize
  BY BankSizeAssumption
<1> DEFINE p == b * BankSize
           q == c * BankSize
           r == (c - b - 1) * BankSize
<1>3. p \in Int /\ q \in Int /\ r \in Int
  BY BankSizeAssumption
<1> HIDE DEF p, q, r
<1>4. q = p + BankSize + r /\ r >= 0
  BY <1>1, <1>2 DEF p, q, r
<1>5. p + x <= q + y
  BY <1>3, <1>4, BankSizeAssumption
<1> QED BY <1>5 DEF Addr, p, q
=============================================================================
