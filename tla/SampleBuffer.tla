---------------------------- MODULE SampleBuffer ----------------------------
(***************************************************************************)
(* The 256-byte sample buffer the Z80 driver fetches ROM bytes into and    *)
(* plays from.  Both positions are single bytes (register e, or c in the   *)
(* DPCM loops, reads ahead; register l' plays), so the buffer is a ring    *)
(* whose indices wrap by themselves and that has no separate count: equal  *)
(* positions mean "empty", and the reader stops short of the player by the *)
(* margin the macro Playback_ChkReadaheadOk tests for.                     *)
(***************************************************************************)
EXTENDS Integers

CONSTANTS
    RingSize,   \* 256 in the driver: what an 8-bit index can address
    Margin      \* 5 in the driver: SampleBuffer>>8, kept in d, doubles as it

\* The least margin that keeps a two-byte fetch from catching up with the
\* player: the check is made before the fetch.
ASSUME MarginAssumption ==
    /\ RingSize \in Nat
    /\ Margin \in Nat
    /\ 3 <= Margin
    /\ Margin < RingSize

Slots == 0 .. RingSize - 1

\* inc l, and the increment of e inside ldi followed by "ld d, SampleBuffer>>8".
Succ(x) == IF x = RingSize - 1 THEN 0 ELSE x + 1

\* sub: the 8-bit difference of two positions.
Diff(x, y) == IF x >= y THEN x - y ELSE x - y + RingSize

\* The slot n places after x, for n < RingSize.
Plus(x, n) == IF x + n >= RingSize THEN x + n - RingSize ELSE x + n

\* (mutant) the margin does not account for the second byte of a fetch.
ReadaheadOkTight(a, e) == Diff(a, e) >= 1

\* (mutant) the margin is taken from the wrong side: the buffer stays low.
ReadaheadOkLow(a, e) == Diff(a, e) >= RingSize - 2

\* Playback_ChkReadaheadOk: sub e; sub 5; jp nc.  The branch to a new fetch is
\* taken when the second subtraction does not borrow.
ReadaheadOk(a, e) == Diff(a, e) >= Margin
=============================================================================
