----------------------------- MODULE DeltaCodec -----------------------------
(***************************************************************************)
(* The arithmetic of DPCM and DPCM-HQ (dpcm-hq-conv.cpp): a sample is the  *)
(* one before it plus a delta, looked up in one of three tables.           *)
(***************************************************************************)
EXTENDS Integers

Byte   == 0 .. 255
Nibble == 0 .. 15

deltaTables ==
  [i \in 0 .. 2 |->
     CASE i = 0 -> <<0, 1, 2, 4, 8, 16, 32, 64, -128, -1, -2, -4, -8, -16, -32, -64>>
       [] i = 1 -> <<-34, -21, -13, -8, -5, -3, -2, -1, 0, 1, 2, 3, 5, 8, 13, 21>>
       [] i = 2 -> <<-20, -12, -8, -6, -4, -3, -2, -1, 0, 1, 2, 3, 4, 6, 8, 12>>]

Delta(table, d) == deltaTables[table][d + 1]

\* uint8_t arithmetic: a delta takes the sample around the ends of its range.
Next8(sample, delta) == (sample + delta) % 256

\* Steps of more than 20h are heard as clicks and cost more.
deltaClickFactors(table, d) ==
  LET delta     == Delta(table, d)
      threshold == (IF delta < 0 THEN -delta ELSE delta) - 32
  IN  IF threshold > 0 THEN threshold * threshold ELSE 0

\* The cost with the default k of 0.5.
errorCost(table, current, actual, d) ==
  LET error == actual - Next8(current, Delta(table, d))
  IN  error * error + (deltaClickFactors(table, d) \div 2)

\* The first of the cheapest deltas.
bestDeltaIndex(table, current, actual) ==
  CHOOSE d \in Nibble :
    \A e \in Nibble : \/ errorCost(table, current, actual, d) < errorCost(table, current, actual, e)
                      \/ errorCost(table, current, actual, d) = errorCost(table, current, actual, e) /\ d <= e

\* sqrt(x / n) - 0.2 * b <= sqrt(y / n) in integers: the comparison of two root
\* mean square errors, x and y the sums of the squares of n errors.
RmseBiased(x, y, n, b) ==
  LET d == 25 * (x - y) - b * b * n
  IN  d <= 0 \/ (d < 40000 /\ d * d <= 100 * b * b * n * y)
=============================================================================
