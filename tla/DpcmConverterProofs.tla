------------------------- MODULE DpcmConverterProofs -------------------------
(***************************************************************************)
(* What holds of DpcmConverter for files, command lines and runs of any    *)
(* number: a run that fails changes no file, and what the encoder writes   *)
(* decodes to the samples the encoder went by.                             *)
(***************************************************************************)
EXTENDS DpcmConverter, SequenceTheorems, TLAPS

-----------------------------------------------------------------------------
(* The codec.                                                              *)

LEMMA DeltaIsInt == ASSUME NEW t \in 0 .. 2, NEW d \in Nibble PROVE Delta(t, d) \in Int
<1>1. d + 1 \in 1 .. 16
  BY DEF Nibble
<1>2. CASE t = 0
  BY <1>1, <1>2 DEF Delta, deltaTables
<1>3. CASE t = 1
  BY <1>1, <1>3 DEF Delta, deltaTables
<1>4. CASE t = 2
  BY <1>1, <1>4 DEF Delta, deltaTables
<1> QED
  BY <1>2, <1>3, <1>4

LEMMA Next8IsByte == ASSUME NEW s \in Int, NEW d \in Int PROVE Next8(s, d) \in Byte
BY DEF Next8, Byte

LEMMA Nibbles ==
  ASSUME NEW b \in Byte
  PROVE  b \div 16 \in Nibble /\ b % 16 \in Nibble /\ b = 16 * (b \div 16) + (b % 16)
BY DEF Byte, Nibble

LEMMA TwoNibbles ==
  ASSUME NEW q \in Nibble, NEW d \in Nibble
  PROVE  /\ 16 * q + d \in Byte
         /\ (16 * q + d) \div 16 = q /\ (16 * q + d) % 16 = d
BY DEF Byte, Nibble

\* A cheapest delta exists, and the first of them: the loop of Encoder::encode ends
\* with an index into the table.
LEMMA BestIsNibble ==
  ASSUME NEW t \in 0 .. 2, NEW current \in Int, NEW actual \in Int
  PROVE  bestDeltaIndex(t, current, actual) \in Nibble
<1> DEFINE cost(d) == errorCost(t, current, actual, d)
           better(d, e) == cost(d) < cost(e) \/ (cost(d) = cost(e) /\ d <= e)
           first(n) == \E d \in 0 .. n : \A e \in 0 .. n : better(d, e)
<1>1. \A d \in Nibble : cost(d) \in Int
  <2> SUFFICES ASSUME NEW d \in Nibble PROVE cost(d) \in Int
    OBVIOUS
  <2>1. Delta(t, d) \in Int
    BY DeltaIsInt
  <2>2. actual - Next8(current, Delta(t, d)) \in Int
    <3>1. Next8(current, Delta(t, d)) \in Byte
      BY <2>1, Next8IsByte
    <3> QED BY <3>1 DEF Byte
  <2>3. deltaClickFactors(t, d) \in Int
    BY <2>1 DEF deltaClickFactors
  <2> QED BY <2>2, <2>3 DEF errorCost
<1> HIDE DEF cost
<1>2. first(0)
  OBVIOUS
<1>3. ASSUME NEW n \in 0 .. 14, first(n) PROVE first(n + 1)
  <2>1. PICK d \in 0 .. n : \A e \in 0 .. n : better(d, e)
    BY <1>3
  <2>2. cost(d) \in Int /\ cost(n + 1) \in Int /\ \A e \in 0 .. n : cost(e) \in Int
    BY <1>1 DEF Nibble
  <2>3. CASE cost(d) <= cost(n + 1)
    <3>1. d \in 0 .. (n + 1) /\ better(d, n + 1)
      BY <2>2, <2>3
    <3> QED BY <2>1, <3>1
  <2>4. CASE cost(n + 1) < cost(d)
    <3>1. ASSUME NEW e \in 0 .. n PROVE cost(n + 1) < cost(e)
      BY <2>1, <2>2, <2>4
    <3> QED BY <2>2, <3>1
  <2>5. cost(d) <= cost(n + 1) \/ cost(n + 1) < cost(d)
    BY <2>2
  <2> QED BY <2>3, <2>4, <2>5
<1> HIDE DEF first
<1>4. first(1) /\ first(2) /\ first(3) /\ first(4)
  BY <1>2, <1>3
<1>5. first(5) /\ first(6) /\ first(7) /\ first(8)
  BY <1>3, <1>4
<1>6. first(9) /\ first(10) /\ first(11) /\ first(12)
  BY <1>3, <1>5
<1>7. first(13) /\ first(14) /\ first(15)
  BY <1>3, <1>6
<1>8. \E d \in Nibble : \A e \in Nibble : better(d, e)
  BY <1>7 DEF first, Nibble
<1> QED
  BY <1>8 DEF bestDeltaIndex, cost

-----------------------------------------------------------------------------
(* Failures.                                                               *)

\* Files are written last: until the end of a run they are as they were.
FailInv == pc # "shell" => files = before

Harmless ==
  pc # "shell" /\ pc' = "shell" /\ exit' # 0 =>
    \/ files' = before
    \/ /\ pc \in {"write", "decode"}
       /\ DOMAIN files' = DOMAIN before \cup {arguments.output}
       /\ \A p \in DOMAIN before \ {arguments.output} : files'[p] = before[p]

LEMMA FailStep == ASSUME FailInv, [ConvNext]_convVars PROVE FailInv' /\ Harmless
<1>1. CASE UNCHANGED convVars
  BY <1>1 DEF FailInv, Harmless, convVars
<1>2. CASE \E argv \in CommandLines : RunTool(argv)
  <2>1. pc' = "parse" /\ before' = files /\ files' = files
    BY <1>2 DEF RunTool
  <2>2. FailInv'
    BY <2>1 DEF FailInv
  <2>3. Harmless
    BY <2>1 DEF Harmless
  <2> QED BY <2>2, <2>3
<1>3. CASE Parse \/ FillIn \/ ReadDecoded \/ ReadEncoded \/ Choose \/ DecodeByte
  <2>1. pc # "shell" /\ pc' # "shell" /\ UNCHANGED <<files, before>>
    BY <1>3 DEF Parse, FillIn, ReadDecoded, ReadEncoded, Choose, DecodeByte
  <2> QED BY <2>1 DEF FailInv, Harmless
<1>4. CASE ParseFails \/ ReadFails \/ OpenFails
  BY <1>4 DEF ParseFails, ReadFails, OpenFails, Decoded, Exit, FailInv, Harmless
<1>5. CASE \E t \in DOMAIN tasks : EncodeSample(t)
  BY <1>5 DEF EncodeSample, FailInv, Harmless
<1>6. CASE WriteEncoded \/ WriteDecoded
  BY <1>6 DEF WriteEncoded, WriteDecoded, Exit, FailInv, Harmless
<1>7. CASE WriteFails
  <2>1. pc \in {"write", "decode"} /\ pc' = "shell"
    BY <1>7 DEF WriteFails, Decoded, Exit
  <2>2. PICK file : files' = Update(before, arguments.output, file)
    BY <1>7, <2>1 DEF WriteFails, FailInv
  <2> QED BY <2>1, <2>2 DEF FailInv, Harmless, Update
<1> QED
  BY <1>1, <1>2, <1>3, <1>4, <1>5, <1>6, <1>7 DEF ConvNext

\* A run that ends with an error leaves every file as it was, whatever the files and
\* the command line; only when writing itself fails is its output lost, and no other
\* file is touched (dpcm-hq-conv.cpp:244-263, 358-387, 579 and 696-703).
THEOREM FailureIsHarmless == ConvSpec => FailureHarmsOutputOnly
<1>1. ConvInit => FailInv
  BY DEF ConvInit, FailInv
<1>2. FailInv /\ [ConvNext]_convVars => FailInv' /\ [Harmless]_convVars
  BY FailStep
<1>3. ConvSpec => [][Harmless]_convVars
  BY <1>1, <1>2, PTL DEF ConvSpec
<1> QED
  BY <1>3 DEF FailureHarmsOutputOnly, Harmless
-----------------------------------------------------------------------------
(* What the tool keeps of its own state, from the command line to the      *)
(* stream that is written.                                                 *)

\* The byte that holds sample s, and the nibble of it.
ByteOf(s) == (s + 1) \div 2
NibbleOf(byte, s) == IF s % 2 = 1 THEN byte \div 16 ELSE byte % 16

\* The sample a delta is added to.
Before(samples, s) == IF s = 1 THEN Silence ELSE samples[s - 1]

\* Data that decodes to samples; the last byte may lack its second nibble.
Decodes(samples, data, t) ==
  /\ samples \in Seq(Byte) /\ data \in Seq(Byte) /\ t \in Tables
  /\ Len(data) = ByteOf(Len(samples))
  /\ \A s \in 1 .. Len(samples) :
       samples[s] = Next8(Before(samples, s), Delta(t, NibbleOf(data[ByteOf(s)], s)))

LEMMA ByteOfSample ==
  ASSUME NEW s \in Nat
  PROVE  /\ ByteOf(s) \in Nat
         /\ s % 2 = 0 => s = 2 * ByteOf(s) /\ ByteOf(s + 1) = ByteOf(s) + 1
         /\ s % 2 = 1 => s + 1 = 2 * ByteOf(s) /\ ByteOf(s + 1) = ByteOf(s)
         /\ s % 2 = 0 \/ s % 2 = 1
         /\ s % 2 = 0 <=> (s + 1) % 2 = 1
         /\ s % 2 = 1 => (s + 1) % 2 = 0
         /\ s > 0 => ByteOf(s) > 0
BY DEF ByteOf

LEMMA BytesInOrder ==
  ASSUME NEW s \in Nat, NEW u \in Nat, s <= u
  PROVE  /\ ByteOf(s) <= ByteOf(u)
         /\ u % 2 = 1 /\ s < u => ByteOf(s) < ByteOf(u)
BY DEF ByteOf

LEMMA BytesAreInts == Byte \subseteq Int
BY DEF Byte

LEMMA BeforeIsByte ==
  ASSUME NEW samples \in Seq(Byte), NEW s \in 1 .. Len(samples) + 1
  PROVE  Before(samples, s) \in Byte
<1>1. CASE s = 1
  BY <1>1 DEF Before, Silence, Byte
<1>2. CASE s # 1
  <2>1. s - 1 \in 1 .. Len(samples)
    BY <1>2, LenProperties
  <2> QED BY <1>2, <2>1, ElementOfSeq DEF Before
<1> QED
  BY <1>1, <1>2

\* The sample that delta number best makes, and the data with its nibble.
NextSample(samples, t, best) == Next8(Before(samples, Len(samples) + 1), Delta(t, best))

NextData(samples, data, best) ==
  IF Len(samples) % 2 = 0 THEN Append(data, 16 * best)
  ELSE [data EXCEPT ![Len(data)] = @ + best]

\* One more sample and its nibble: the first of a byte comes with zeros behind it,
\* the second is added to them.
LEMMA DecodesMore ==
  ASSUME NEW t \in Tables, NEW samples, NEW data, Decodes(samples, data, t),
         Len(samples) % 2 = 1 => data[Len(data)] % 16 = 0,
         NEW best \in Nibble
  PROVE  LET sample == NextSample(samples, t, best)
             more   == NextData(samples, data, best)
         IN  /\ Decodes(Append(samples, sample), more, t)
             /\ Len(Append(samples, sample)) = Len(samples) + 1
             /\ Before(Append(samples, sample), Len(samples) + 2) = sample
             /\ (Len(samples) + 1) % 2 = 1 => more[Len(more)] % 16 = 0
<1> DEFINE n == Len(samples)
           sample == NextSample(samples, t, best)
           more == NextData(samples, data, best)
           longer == Append(samples, sample)
<1>1. /\ samples \in Seq(Byte) /\ data \in Seq(Byte) /\ n \in Nat
      /\ Len(data) = ByteOf(n) /\ Len(data) \in Nat
      /\ \A s \in 1 .. n : samples[s] = Next8(Before(samples, s), Delta(t, NibbleOf(data[ByteOf(s)], s)))
  BY LenProperties DEF Decodes
<1>2. Delta(t, best) \in Int
  BY DeltaIsInt DEF Tables
<1>3. sample \in Byte
  <2>1. n + 1 \in 1 .. n + 1
    BY <1>1
  <2>2. Before(samples, n + 1) \in Byte
    BY <1>1, <2>1, BeforeIsByte
  <2>3. Before(samples, n + 1) \in Int
    BY <2>2, BytesAreInts
  <2> QED BY <1>2, <2>3, Next8IsByte DEF NextSample
<1>4. /\ longer \in Seq(Byte) /\ Len(longer) = n + 1 /\ longer[n + 1] = sample
      /\ \A s \in 1 .. n : longer[s] = samples[s]
  BY <1>1, <1>3, AppendProperties
<1>5. \A s \in 1 .. n + 1 : Before(longer, s) = Before(samples, s)
  <2> SUFFICES ASSUME NEW s \in 1 .. n + 1 PROVE Before(longer, s) = Before(samples, s)
    OBVIOUS
  <2>1. CASE s = 1
    BY <2>1 DEF Before
  <2>2. CASE s # 1
    <3>1. s - 1 \in 1 .. n
      BY <1>1, <2>2
    <3>2. longer[s - 1] = samples[s - 1]
      BY <1>4, <3>1
    <3> QED BY <2>2, <3>2 DEF Before
  <2> QED BY <2>1, <2>2
<1>5a. sample = Next8(Before(samples, n + 1), Delta(t, best))
  BY DEF NextSample
<1>5b. more = IF n % 2 = 0 THEN Append(data, 16 * best) ELSE [data EXCEPT ![Len(data)] = data[Len(data)] + best]
  BY DEF NextData
<1> HIDE DEF longer, sample, more
<1>6. Before(longer, n + 2) = sample
  <2>1. n + 2 # 1 /\ (n + 2) - 1 = n + 1
    BY <1>1
  <2> QED BY <1>4, <2>1 DEF Before
<1>7. CASE n % 2 = 0
  <2>1. 16 * best \in Byte /\ (16 * best) \div 16 = best /\ (16 * best) % 16 = 0
    BY DEF Byte, Nibble
  <2>2. more = Append(data, 16 * best)
    BY <1>5b, <1>7
  <2>3. /\ more \in Seq(Byte) /\ Len(more) = ByteOf(n) + 1 /\ more[ByteOf(n) + 1] = 16 * best
        /\ \A i \in 1 .. ByteOf(n) : more[i] = data[i]
    BY <1>1, <2>1, <2>2, AppendProperties
  <2>4. ByteOf(n + 1) = ByteOf(n) + 1 /\ (n + 1) % 2 = 1
    BY <1>1, <1>7, ByteOfSample
  <2>5. ASSUME NEW s \in 1 .. n
        PROVE  longer[s] = Next8(Before(longer, s), Delta(t, NibbleOf(more[ByteOf(s)], s)))
    <3>1. s \in Nat /\ s > 0 /\ s <= n
      BY <1>1
    <3>2. ByteOf(s) \in 1 .. ByteOf(n)
      BY <1>1, <3>1, ByteOfSample, BytesInOrder
    <3>3. s \in 1 .. n + 1
      BY <1>1
    <3> QED BY <1>1, <1>4, <1>5, <2>3, <3>2, <3>3
  <2>6. longer[n + 1] = Next8(Before(longer, n + 1), Delta(t, NibbleOf(more[ByteOf(n + 1)], n + 1)))
    <3>1. NibbleOf(more[ByteOf(n + 1)], n + 1) = best
      BY <2>1, <2>3, <2>4 DEF NibbleOf
    <3>2. n + 1 \in 1 .. n + 1
      BY <1>1
    <3> QED BY <1>4, <1>5, <1>5a, <3>1, <3>2
  <2>7. \A s \in 1 .. n + 1 :
          longer[s] = Next8(Before(longer, s), Delta(t, NibbleOf(more[ByteOf(s)], s)))
    <3>1. \A s \in 1 .. n + 1 : s \in 1 .. n \/ s = n + 1
      BY <1>1
    <3> QED BY <2>5, <2>6, <3>1
  <2>8. Decodes(longer, more, t)
    BY <1>4, <2>3, <2>4, <2>7 DEF Decodes
  <2>9. more[Len(more)] % 16 = 0
    BY <2>1, <2>3
  <2> QED BY <1>4, <1>6, <2>8, <2>9 DEF longer, sample, more
<1>8. CASE n % 2 = 1
  <2> DEFINE last == data[Len(data)]
  <2>1. Len(data) \in 1 .. Len(data)
    <3>1. n > 0
      BY <1>1, <1>8
    <3>2. ByteOf(n) > 0
      BY <1>1, <3>1, ByteOfSample
    <3> QED BY <1>1, <3>2
  <2>2. last \in Byte /\ last % 16 = 0
    BY <1>1, <1>8, <2>1, ElementOfSeq
  <2>3. last + best \in Byte /\ (last + best) \div 16 = last \div 16 /\ (last + best) % 16 = best
    <3>1. last \div 16 \in Nibble /\ last = 16 * (last \div 16) + (last % 16)
      BY <2>2, Nibbles
    <3>2. last = 16 * (last \div 16)
      BY <2>2, <3>1 DEF Byte, Nibble
    <3>3. /\ 16 * (last \div 16) + best \in Byte
          /\ (16 * (last \div 16) + best) \div 16 = last \div 16
          /\ (16 * (last \div 16) + best) % 16 = best
      BY <3>1, TwoNibbles
    <3>4. last + best = 16 * (last \div 16) + best
      BY <3>2
    <3> QED BY <3>3, <3>4
  <2>4. more = [data EXCEPT ![Len(data)] = last + best]
    BY <1>5b, <1>8
  <2> HIDE DEF last
  <2>5. /\ more \in Seq(Byte) /\ Len(more) = ByteOf(n) /\ more[ByteOf(n)] = last + best
        /\ \A i \in 1 .. ByteOf(n) : i # ByteOf(n) => more[i] = data[i]
    BY <1>1, <2>1, <2>3, <2>4, ExceptSeq
  <2>6. ByteOf(n + 1) = ByteOf(n) /\ (n + 1) % 2 = 0
    BY <1>1, <1>8, ByteOfSample
  <2>7. ASSUME NEW s \in 1 .. n
        PROVE  longer[s] = Next8(Before(longer, s), Delta(t, NibbleOf(more[ByteOf(s)], s)))
    <3>1. s \in Nat /\ s > 0 /\ s <= n /\ s \in 1 .. n + 1
      BY <1>1
    <3>2. NibbleOf(more[ByteOf(s)], s) = NibbleOf(data[ByteOf(s)], s)
      <4>1. CASE s < n
        <5>1. ByteOf(s) < ByteOf(n) /\ ByteOf(s) \in Nat /\ ByteOf(s) > 0 /\ ByteOf(n) \in Nat
          BY <1>1, <1>8, <3>1, <4>1, ByteOfSample, BytesInOrder
        <5>2. ByteOf(s) \in 1 .. ByteOf(n) /\ ByteOf(s) # ByteOf(n)
          BY <5>1
        <5> QED BY <2>5, <5>2
      <4>2. CASE s = n
        <5>1. more[ByteOf(s)] = last + best /\ data[ByteOf(s)] = last
          BY <1>1, <2>5, <4>2 DEF last
        <5>2. s % 2 = 1
          BY <1>8, <4>2
        <5> QED BY <2>3, <5>1, <5>2 DEF NibbleOf
      <4>3. s < n \/ s = n
        BY <1>1, <3>1
      <4> QED BY <4>1, <4>2, <4>3
    <3> QED BY <1>1, <1>4, <1>5, <3>1, <3>2
  <2>8. longer[n + 1] = Next8(Before(longer, n + 1), Delta(t, NibbleOf(more[ByteOf(n + 1)], n + 1)))
    <3>1. NibbleOf(more[ByteOf(n + 1)], n + 1) = best
      BY <2>3, <2>5, <2>6 DEF NibbleOf
    <3>2. n + 1 \in 1 .. n + 1
      BY <1>1
    <3> QED BY <1>4, <1>5, <1>5a, <3>1, <3>2
  <2>9. \A s \in 1 .. n + 1 :
          longer[s] = Next8(Before(longer, s), Delta(t, NibbleOf(more[ByteOf(s)], s)))
    <3>1. \A s \in 1 .. n + 1 : s \in 1 .. n \/ s = n + 1
      BY <1>1
    <3> QED BY <2>7, <2>8, <3>1
  <2>10. Decodes(longer, more, t)
    BY <1>4, <2>5, <2>6, <2>9 DEF Decodes
  <2> QED BY <1>4, <1>6, <2>6, <2>10 DEF longer, sample, more
<1> QED
  BY <1>1, <1>7, <1>8, ByteOfSample

-----------------------------------------------------------------------------
(* The inductive invariant.                                                *)

ParseInv ==
  /\ parse = [argv |-> parse.argv, state |-> parse.state, arguments |-> arguments]
  /\ parse.state \in {"name", "mode", "table", "rate"}
  /\ arguments = [input |-> arguments.input, output |-> arguments.output,
                  mode |-> arguments.mode, rate |-> arguments.rate, table |-> arguments.table]
  /\ arguments.table \subseteq Tables

FilesInv == \A p \in DOMAIN files : IsFile(files[p])

StreamInv ==
  pc \in {"encode", "write", "decode"} =>
    /\ stream = [rate |-> stream.rate, table |-> stream.table, data |-> stream.data]
    /\ stream.data \in Seq(Byte)

\* A thread, somewhere in the stream.
TaskInv(t) ==
  LET n == Len(tasks[t].predicted) IN
  /\ tasks[t] = [current |-> tasks[t].current, data |-> tasks[t].data,
                 predicted |-> tasks[t].predicted, errors |-> tasks[t].errors]
  /\ Decodes(tasks[t].predicted, tasks[t].data, t)
  /\ tasks[t].current = Before(tasks[t].predicted, n + 1)
  /\ n % 2 = 1 => tasks[t].data[Len(tasks[t].data)] % 16 = 0

EncodeInv ==
  pc = "encode" =>
    /\ Len(stream.data) % 2 = 0
    /\ DOMAIN tasks # {}
    /\ \A t \in DOMAIN tasks : TaskInv(t)

WriteInv ==
  pc = "write" =>
    /\ Decodes(tasks[stream.table].predicted, stream.data, stream.table)
    /\ Len(tasks[stream.table].predicted) = 2 * Len(stream.data)

DecodeInv ==
  pc = "decode" =>
    /\ stream.table \in Tables
    /\ output \in Seq(Byte) /\ Len(output) % 2 = 0
    /\ arguments.input \in DOMAIN heard =>
         /\ stream.data = files[arguments.input].data
         /\ stream.table = files[arguments.input].kind \div 16
         /\ Len(output) <= Len(heard[arguments.input].data)
         /\ \A s \in 1 .. Len(output) : output[s] = heard[arguments.input].data[s]

\* A file the tool has made, and what its encoder took it for.
HeardInv ==
  \A p \in DOMAIN heard :
    /\ p \in DOMAIN files
    /\ files[p].type = "dq"
    /\ files[p].length = Len(files[p].data)
    /\ files[p].rate = heard[p].rate % Rates
    /\ Decodes(heard[p].data, files[p].data, files[p].kind \div 16)
    /\ Len(heard[p].data) = 2 * Len(files[p].data)

ConvInv ==
  /\ ParseInv /\ FilesInv /\ StreamInv /\ EncodeInv /\ WriteInv /\ DecodeInv /\ HeardInv
  /\ pc \in {"parse", "read"} => output = <<>>

LEMMA ConvStart == ASSUME ConvInit PROVE ConvInv
<1>1. /\ pc = "shell" /\ files = Files /\ heard = <<>>
      /\ parse = [argv |-> <<>>, state |-> "name", arguments |-> NoArguments]
  BY DEF ConvInit
<1>2. ParseInv
  BY <1>1 DEF ParseInv, arguments, NoArguments
<1>3. FilesInv
  BY <1>1, FilesAssumption DEF FilesInv
<1>4. HeardInv
  BY <1>1 DEF HeardInv
<1> QED
  BY <1>1, <1>2, <1>3, <1>4 DEF ConvInv, StreamInv, EncodeInv, WriteInv, DecodeInv

\* Outside of encoding, writing and decoding, only the command line and the files
\* matter.
LEMMA Elsewhere ==
  ASSUME pc' \in {"shell", "parse", "read"}, ParseInv', FilesInv', HeardInv',
         pc' \in {"parse", "read"} => output' = <<>>
  PROVE  ConvInv'
BY DEF ConvInv, StreamInv, EncodeInv, WriteInv, DecodeInv

LEMMA FilesKept ==
  ASSUME ConvInv, UNCHANGED <<files, heard>>
  PROVE  FilesInv' /\ HeardInv'
BY DEF ConvInv, FilesInv, HeardInv, IsFile

LEMMA ParseKept == ASSUME ConvInv, UNCHANGED parse PROVE ParseInv'
BY DEF ConvInv, ParseInv, arguments

-----------------------------------------------------------------------------
(* The command line.                                                       *)

LEMMA RunToolKeeps == ASSUME ConvInv, NEW argv, RunTool(argv) PROVE ConvInv'
<1>1. /\ pc' = "parse" /\ output' = <<>> /\ UNCHANGED <<files, heard>>
      /\ parse' = [argv |-> argv, state |-> "name", arguments |-> NoArguments]
  BY DEF RunTool
<1>2. ParseInv'
  BY <1>1 DEF ParseInv, arguments, NoArguments
<1> QED
  BY <1>1, <1>2, FilesKept, Elsewhere

LEMMA FailsKeep == ASSUME ConvInv, ParseFails \/ ReadFails \/ OpenFails PROVE ConvInv'
<1>1. pc' = "shell" /\ UNCHANGED <<parse, files, heard>>
  BY DEF ParseFails, ReadFails, OpenFails, Exit
<1> QED
  BY <1>1, ParseKept, FilesKept, Elsewhere

\* What an argument may change.
LEMMA ArgumentsKept ==
  ASSUME ParseInv, ParseArgument
  PROVE  /\ parse'.state \in {"name", "mode", "table", "rate"}
         /\ parse' = [argv |-> parse'.argv, state |-> parse'.state, arguments |-> arguments']
         /\ arguments' = [input |-> arguments'.input, output |-> arguments'.output,
                          mode |-> arguments'.mode, rate |-> arguments'.rate, table |-> arguments'.table]
         /\ arguments'.table \subseteq Tables
<1>1. /\ arguments = [input |-> arguments.input, output |-> arguments.output,
                      mode |-> arguments.mode, rate |-> arguments.rate, table |-> arguments.table]
      /\ arguments.table \subseteq Tables
      /\ parse.state \in {"name", "mode", "table", "rate"}
  BY DEF ParseInv
<1>2. CASE Token.option \in {"mode", "table", "rate"} /\ Parsed(Token.option, arguments)
  BY <1>1, <1>2 DEF Parsed, arguments
<1>3. CASE Parsed("name", [arguments EXCEPT !.input = Token.text])
  BY <1>1, <1>3 DEF Parsed, arguments
<1>4. CASE Parsed("name", [arguments EXCEPT !.output = Token.text])
  BY <1>1, <1>4 DEF Parsed, arguments
<1>5. CASE /\ parse.state # "name"
           /\ Parsed("name", [arguments EXCEPT ![parse.state] = Value(parse.state, Token.text)])
  <2> DEFINE value == Value(parse.state, Token.text)
  <2>1. parse.state = "table" => value \subseteq Tables
    BY DEF Value
  <2> HIDE DEF value
  <2>2. /\ parse' = [argv |-> Tail(parse.argv), state |-> "name",
                     arguments |-> [arguments EXCEPT ![parse.state] = value]]
    BY <1>5 DEF Parsed, value
  <2>3. CASE parse.state = "table"
    BY <1>1, <2>1, <2>2, <2>3 DEF arguments
  <2>4. CASE parse.state = "mode"
    BY <1>1, <2>2, <2>4 DEF arguments
  <2>5. CASE parse.state = "rate"
    BY <1>1, <2>2, <2>5 DEF arguments
  <2> QED BY <1>1, <1>5, <2>3, <2>4, <2>5
<1> QED
  BY <1>2, <1>3, <1>4, <1>5 DEF ParseArgument

LEMMA ParseKeeps == ASSUME ConvInv, Parse PROVE ConvInv'
<1>1. pc' = "parse" /\ ParseArgument /\ output' = <<>> /\ UNCHANGED <<files, heard>>
  BY DEF Parse, ConvInv
<1>2. ParseInv'
  BY <1>1, ArgumentsKept DEF ConvInv, ParseInv
<1> QED
  BY <1>1, <1>2, FilesKept, Elsewhere

LEMMA FillInKeeps == ASSUME ConvInv, FillIn PROVE ConvInv'
<1>1. pc' = "read" /\ output' = <<>> /\ UNCHANGED <<files, heard>>
  BY DEF FillIn, ConvInv
<1>2. PICK mode, name :
        parse' = [parse EXCEPT !.arguments.mode = mode,
                    !.arguments.output = IF @ = <<>> THEN name ELSE @]
  BY DEF FillIn
<1>3. /\ arguments = [input |-> arguments.input, output |-> arguments.output,
                      mode |-> arguments.mode, rate |-> arguments.rate, table |-> arguments.table]
      /\ parse = [argv |-> parse.argv, state |-> parse.state, arguments |-> arguments]
      /\ arguments.table \subseteq Tables
      /\ parse.state \in {"name", "mode", "table", "rate"}
  BY DEF ConvInv, ParseInv
<1>4. ParseInv'
  BY <1>2, <1>3 DEF ParseInv, arguments
<1> QED
  BY <1>1, <1>4, FilesKept, Elsewhere

-----------------------------------------------------------------------------
(* Reading.                                                                *)

LEMMA WholeSubSeq ==
  ASSUME NEW S, NEW s \in Seq(S)
  PROVE  SubSeq(s, 1, Len(s)) = s
<1>1. Len(s) \in Nat /\ \A i \in 1 .. Len(s) : s[i] \in S
  BY LenProperties, ElementOfSeq
<1>2. /\ SubSeq(s, 1, Len(s)) \in Seq(S)
      /\ Len(SubSeq(s, 1, Len(s))) = IF 1 <= Len(s) THEN Len(s) - 1 + 1 ELSE 0
      /\ \A i \in 1 .. Len(s) - 1 + 1 : SubSeq(s, 1, Len(s))[i] = s[1 + i - 1]
  BY <1>1, SubSeqProperties
<1>3. Len(SubSeq(s, 1, Len(s))) = Len(s)
  BY <1>1, <1>2
<1>4. \A i \in 1 .. Len(s) : SubSeq(s, 1, Len(s))[i] = s[i]
  BY <1>1, <1>2
<1> QED
  BY <1>2, <1>3, <1>4, SeqEqual

LEMMA FirstBytes ==
  ASSUME NEW data \in Seq(Byte), NEW n \in Nat, n <= Len(data)
  PROVE  SubSeq(data, 1, n) \in Seq(Byte)
<1>1. Len(data) \in Nat /\ \A i \in 1 .. n : i \in 1 .. Len(data)
  BY LenProperties
<1>2. \A i \in 1 .. n : data[i] \in Byte
  BY <1>1, ElementOfSeq
<1> QED
  BY <1>2, SubSeqProperties

LEMMA ChunksOfFile ==
  ASSUME NEW file, IsFile(file), file.type = "riff"
  PROVE  \A i \in 1 .. Len(file.chunks) :
           file.chunks[i].data \in Seq(Byte) /\ file.chunks[i].size \in Nat
BY DEF IsFile, Headerless

\* Whatever file is read in whatever mode, a stream of bytes comes out of it.
LEMMA ReadsBytes ==
  ASSUME FilesInv, NEW read \in Read
  PROVE  /\ read = [rate |-> read.rate, table |-> read.table, data |-> read.data]
         /\ read.data \in Seq(Byte)
<1> DEFINE file == files[arguments.input]
<1>1. IsFile(file) /\ (read \in DecodedStream(file) \/ read \in EncodedStream(file))
  BY DEF Read, FilesInv
<1> HIDE DEF file
<1>2. ASSUME NEW bytes \in Seq(Byte), read = Plain(bytes)
      PROVE  /\ read = [rate |-> read.rate, table |-> read.table, data |-> read.data]
             /\ read.data \in Seq(Byte)
  BY <1>2 DEF Plain
<1>3. CASE file.type \in Headerless
  <2>1. file.data \in Seq(Byte) /\ read = Plain(file.data)
    BY <1>1, <1>3 DEF Headerless, IsFile, DecodedStream, EncodedStream
  <2> QED BY <1>2, <2>1
<1>4. CASE file.type = "dq"
  <2>1. file.data \in Seq(Byte) /\ file.length \in Nat
    BY <1>1, <1>4 DEF IsFile, Headerless
  <2>2. CASE read \in DecodedStream(file)
    <3>1. PICK bytes \in Noise : read = Plain(bytes)
      BY <1>4, <2>2 DEF DecodedStream
    <3> QED BY <1>2, <3>1, FilesAssumption
  <2>3. CASE read \in EncodedStream(file)
    <3>1. /\ ~(file.length > Len(file.data))
          /\ read = [rate |-> file.rate, table |-> file.kind \div 16,
                     data |-> SubSeq(file.data, 1, file.length)]
      BY <1>4, <2>3 DEF EncodedStream
    <3>2. file.length <= Len(file.data)
      BY <2>1, <3>1, LenProperties
    <3>3. SubSeq(file.data, 1, file.length) \in Seq(Byte)
      BY <2>1, <3>2, FirstBytes
    <3> QED BY <3>1, <3>3
  <2> QED BY <1>1, <2>2, <2>3
<1>5. CASE file.type = "riff"
  <2>1. CASE read \in EncodedStream(file)
    <3>1. PICK bytes \in Noise : read = Plain(bytes)
      BY <1>5, <2>1 DEF EncodedStream
    <3> QED BY <1>2, <3>1, FilesAssumption
  <2>2. CASE read \in DecodedStream(file)
    <3>0. PICK i \in Playable(file) : read = ChunkStream(file, i)
      BY <1>5, <2>2 DEF DecodedStream
    <3>1. /\ i \in DataChunks(file) /\ file.chunks[i].size <= Len(file.chunks[i].data)
          /\ read = [rate |-> file.fmt.rate, table |-> 0,
                     data |-> SubSeq(file.chunks[i].data, 1, file.chunks[i].size)]
      BY <3>0 DEF Playable, ChunkStream
    <3>2. file.chunks[i].data \in Seq(Byte) /\ file.chunks[i].size \in Nat
      <4>1. i \in 1 .. Len(file.chunks)
        BY <3>1 DEF DataChunks
      <4> QED BY <1>1, <1>5, <4>1, ChunksOfFile
    <3>3. SubSeq(file.chunks[i].data, 1, file.chunks[i].size) \in Seq(Byte)
      BY <3>1, <3>2, FirstBytes
    <3> QED BY <3>1, <3>3
  <2> QED BY <1>1, <2>1, <2>2
<1> QED
  BY <1>1, <1>3, <1>4, <1>5 DEF IsFile, Headerless

\* A stream is padded to an even length, and a thread starts with nothing.
LEMMA ReadDecodedKeeps == ASSUME ConvInv, ReadDecoded PROVE ConvInv'
<1>1. /\ pc' = "encode" /\ UNCHANGED <<parse, files, heard>>
      /\ tasks' = [t \in (IF arguments.table = {} THEN Tables ELSE arguments.table) |->
                     [current |-> Silence, data |-> <<>>, predicted |-> <<>>, errors |-> 0]]
  BY DEF ReadDecoded
<1>2. PICK read \in Read :
        stream' = [read EXCEPT !.rate = RateOr(@),
                     !.data = IF Len(@) % 2 = 1 THEN Append(@, Silence) ELSE @]
  BY DEF ReadDecoded
<1>3. /\ read = [rate |-> read.rate, table |-> read.table, data |-> read.data]
      /\ read.data \in Seq(Byte)
  BY ReadsBytes DEF ConvInv
<1> DEFINE padded == IF Len(read.data) % 2 = 1 THEN Append(read.data, Silence) ELSE read.data
           rate == RateOr(read.rate)
<1>4. stream' = [rate |-> rate, table |-> read.table, data |-> padded]
  BY <1>2, <1>3
<1>5. padded \in Seq(Byte) /\ Len(padded) % 2 = 0
  <2>1. Len(read.data) \in Nat /\ Silence \in Byte
    BY <1>3, LenProperties DEF Silence, Byte
  <2>2. CASE Len(read.data) % 2 = 1
    <3>1. Append(read.data, Silence) \in Seq(Byte)
          /\ Len(Append(read.data, Silence)) = Len(read.data) + 1
      BY <1>3, <2>1, AppendProperties
    <3>2. (Len(read.data) + 1) % 2 = 0
      BY <2>1, <2>2, ByteOfSample
    <3> QED BY <2>2, <3>1, <3>2
  <2>3. CASE Len(read.data) % 2 # 1
    BY <1>3, <2>1, <2>3
  <2> QED BY <2>2, <2>3
<1> HIDE DEF padded, rate
<1>6. StreamInv'
  BY <1>4, <1>5 DEF StreamInv
<1>7. DOMAIN tasks' \subseteq Tables /\ DOMAIN tasks' # {}
  <2>1. arguments.table \subseteq Tables /\ Tables # {}
    BY DEF ConvInv, ParseInv, Tables
  <2> QED BY <1>1, <2>1
<1>8. ASSUME NEW t \in DOMAIN tasks' PROVE TaskInv(t)'
  <2>1. tasks'[t] = [current |-> Silence, data |-> <<>>, predicted |-> <<>>, errors |-> 0]
    BY <1>1, <1>8
  <2>2. Decodes(<<>>, <<>>, t)
    <3>1. <<>> \in Seq(Byte) /\ Len(<<>>) = 0 /\ ByteOf(0) = 0 /\ t \in Tables
      BY <1>7, EmptySeq DEF ByteOf
    <3> QED BY <3>1 DEF Decodes
  <2>3. Before(<<>>, 1) = Silence
    BY DEF Before
  <2> QED BY <2>1, <2>2, <2>3 DEF TaskInv
<1>9. EncodeInv'
  BY <1>4, <1>5, <1>7, <1>8 DEF EncodeInv
<1> QED
  BY <1>1, <1>6, <1>9, ParseKept, FilesKept DEF ConvInv, WriteInv, DecodeInv

\* What the decoder gets of a file the tool has made is what was written.
LEMMA ReadEncodedKeeps == ASSUME ConvInv, ReadEncoded PROVE ConvInv'
<1>1. /\ pc = "read" /\ pc' = "decode" /\ output' = <<>> /\ UNCHANGED <<parse, files, heard>>
      /\ arguments.mode = {"decode"}
  BY DEF ReadEncoded, ConvInv
<1>2. PICK read \in Read : read.table \in Tables /\ stream' = [read EXCEPT !.rate = RateOr(@)]
  BY DEF ReadEncoded
<1>3. /\ read = [rate |-> read.rate, table |-> read.table, data |-> read.data]
      /\ read.data \in Seq(Byte)
  BY ReadsBytes DEF ConvInv
<1> DEFINE rate == RateOr(read.rate)
<1>4. stream' = [rate |-> rate, table |-> read.table, data |-> read.data]
  BY <1>2, <1>3
<1> HIDE DEF rate
<1>5. StreamInv'
  BY <1>3, <1>4 DEF StreamInv
<1>6. arguments' = arguments
  BY <1>1 DEF arguments
<1>7. ASSUME arguments.input \in DOMAIN heard
      PROVE  /\ read.data = files[arguments.input].data
             /\ read.table = files[arguments.input].kind \div 16
             /\ Len(heard[arguments.input].data) \in Nat
  <2> DEFINE file == files[arguments.input]
  <2>1. /\ file.type = "dq" /\ file.length = Len(file.data) /\ file.data \in Seq(Byte)
        /\ heard[arguments.input].data \in Seq(Byte)
    BY <1>7 DEF ConvInv, HeardInv, Decodes
  <2>2. read \in EncodedStream(file)
    <3>1. arguments.mode # {"encode"}
      BY <1>1
    <3> QED BY <1>2, <3>1 DEF Read
  <2> HIDE DEF file
  <2>3. read = [rate |-> file.rate, table |-> file.kind \div 16,
                data |-> SubSeq(file.data, 1, Len(file.data))]
    BY <2>1, <2>2 DEF EncodedStream
  <2>4. SubSeq(file.data, 1, Len(file.data)) = file.data
    BY <2>1, WholeSubSeq
  <2>5. read.data = file.data /\ read.table = file.kind \div 16
    BY <2>3, <2>4
  <2>6. Len(heard[arguments.input].data) \in Nat
    BY <2>1, LenProperties
  <2> QED BY <2>5, <2>6 DEF file
<1>8. DecodeInv'
  <2>1. output' \in Seq(Byte) /\ Len(output') = 0
    BY <1>1, EmptySeq
  <2>2. stream'.table \in Tables
    BY <1>2, <1>4
  <2>3. arguments'.input \in DOMAIN heard' =>
          /\ stream'.data = files'[arguments'.input].data
          /\ stream'.table = files'[arguments'.input].kind \div 16
          /\ 0 <= Len(heard'[arguments'.input].data)
    BY <1>1, <1>4, <1>6, <1>7
  <2> QED BY <2>1, <2>2, <2>3 DEF DecodeInv
<1> QED
  BY <1>1, <1>5, <1>8, ParseKept, FilesKept DEF ConvInv, EncodeInv, WriteInv

-----------------------------------------------------------------------------
(* Encoding.                                                               *)

\* The step of a thread keeps its own data decodable and leaves the others alone.
LEMMA EncodeKeeps == ASSUME ConvInv, NEW u \in DOMAIN tasks, EncodeSample(u) PROVE ConvInv'
<1> DEFINE task == tasks[u]
           n == Len(task.predicted)
           actual == stream.data[n + 1]
           best == bestDeltaIndex(u, task.current, actual)
           sample == Next8(task.current, Delta(u, best))
           more == IF n % 2 = 0 THEN Append(task.data, 16 * best)
                   ELSE [task.data EXCEPT ![Len(task.data)] = @ + best]
           longer == Append(task.predicted, sample)
           cost == task.errors + (actual - sample) * (actual - sample)
<1>1. /\ pc = "encode" /\ pc' = "encode" /\ UNCHANGED <<parse, files, heard, stream>>
      /\ n < Len(stream.data)
      /\ tasks' = [tasks EXCEPT ![u] =
                     [current |-> sample, data |-> more, predicted |-> longer, errors |-> cost]]
  BY DEF EncodeSample
<1>2. /\ stream.data \in Seq(Byte) /\ Len(stream.data) % 2 = 0
      /\ \A t \in DOMAIN tasks : TaskInv(t)
  BY <1>1 DEF ConvInv, StreamInv, EncodeInv
<1>3. /\ Decodes(task.predicted, task.data, u)
      /\ task.current = Before(task.predicted, n + 1)
      /\ n % 2 = 1 => task.data[Len(task.data)] % 16 = 0
  BY <1>2 DEF TaskInv
<1>4. n \in Nat /\ task.predicted \in Seq(Byte) /\ u \in Tables
  BY <1>3, LenProperties DEF Decodes
<1>5. task.current \in Int
  <2>1. n + 1 \in 1 .. n + 1
    BY <1>4
  <2>2. Before(task.predicted, n + 1) \in Byte
    BY <1>4, <2>1, BeforeIsByte
  <2> QED BY <1>3, <2>2, BytesAreInts
<1>6. actual \in Int
  <2>1. n + 1 \in 1 .. Len(stream.data)
    BY <1>1, <1>2, <1>4, LenProperties
  <2>2. actual \in Byte
    BY <1>2, <2>1, ElementOfSeq
  <2> QED BY <2>2, BytesAreInts
<1>7. best \in Nibble
  <2>1. u \in 0 .. 2
    BY <1>4 DEF Tables
  <2> QED BY <1>5, <1>6, <2>1, BestIsNibble
<1> HIDE DEF task, best, cost, actual
<1>8. /\ Decodes(longer, more, u)
      /\ Len(longer) = n + 1
      /\ Before(longer, n + 2) = sample
      /\ (n + 1) % 2 = 1 => more[Len(more)] % 16 = 0
  <2>1. sample = NextSample(task.predicted, u, best) /\ more = NextData(task.predicted, task.data, best)
    BY <1>3 DEF NextSample, NextData
  <2> HIDE DEF sample, more
  <2> QED BY <1>3, <1>4, <1>7, <2>1, DecodesMore
<1> HIDE DEF n, sample, more, longer
<1>9. ASSUME NEW t \in DOMAIN tasks' PROVE TaskInv(t)'
  <2>1. t \in DOMAIN tasks
    BY <1>1, <1>9
  <2>2. CASE t = u
    <3>1. tasks'[t] = [current |-> sample, data |-> more, predicted |-> longer, errors |-> cost]
      BY <1>1, <2>1, <2>2
    <3>2. n + 1 + 1 = n + 2
      BY <1>4
    <3> QED BY <1>8, <2>2, <3>1, <3>2 DEF TaskInv
  <2>3. CASE t # u
    <3>1. tasks'[t] = tasks[t]
      BY <1>1, <2>1, <2>3
    <3> QED BY <1>2, <2>1, <3>1 DEF TaskInv
  <2> QED BY <2>2, <2>3
<1>10. EncodeInv'
  <2>1. DOMAIN tasks' # {}
    BY <1>1
  <2> QED BY <1>1, <1>2, <1>9, <2>1 DEF EncodeInv
<1>11. StreamInv'
  BY <1>1 DEF ConvInv, StreamInv
<1> QED
  BY <1>1, <1>10, <1>11, ParseKept, FilesKept DEF ConvInv, WriteInv, DecodeInv

\* Whatever the errors are, one of the threads is chosen.
LEMMA ChosenIsTask == ASSUME DOMAIN tasks # {} PROVE Chosen \in DOMAIN tasks
<1>1. CASE Tables # DOMAIN tasks
  <2>1. Chosen = CHOOSE t \in DOMAIN tasks : TRUE
    BY <1>1 DEF Chosen
  <2> QED BY <2>1
<1>2. CASE Tables = DOMAIN tasks
  <2>1. Chosen \in {0, 1, 2}
    BY <1>2 DEF Chosen
  <2> QED BY <1>2, <2>1 DEF Tables
<1> QED
  BY <1>1, <1>2

LEMMA ChooseKeeps == ASSUME ConvInv, Choose PROVE ConvInv'
<1>1. /\ pc = "encode" /\ pc' = "write" /\ UNCHANGED <<parse, files, heard, tasks>>
      /\ \A t \in DOMAIN tasks : Len(tasks[t].predicted) = Len(stream.data)
      /\ stream' = [stream EXCEPT !.table = Chosen, !.data = tasks[Chosen].data]
  BY DEF Choose
<1>2. /\ stream = [rate |-> stream.rate, table |-> stream.table, data |-> stream.data]
      /\ stream.data \in Seq(Byte) /\ Len(stream.data) % 2 = 0
      /\ DOMAIN tasks # {}
      /\ \A t \in DOMAIN tasks : TaskInv(t)
  BY <1>1 DEF ConvInv, StreamInv, EncodeInv
<1> DEFINE t == Chosen
<1>3. t \in DOMAIN tasks
  BY <1>2, ChosenIsTask
<1> HIDE DEF t
<1>4. stream' = [rate |-> stream.rate, table |-> t, data |-> tasks[t].data]
  BY <1>1, <1>2 DEF t
<1>5. Decodes(tasks[t].predicted, tasks[t].data, t)
  BY <1>2, <1>3 DEF TaskInv
<1>6. Len(tasks[t].predicted) = 2 * Len(tasks[t].data)
  <2>1. Len(tasks[t].predicted) = Len(stream.data) /\ Len(stream.data) \in Nat
    BY <1>1, <1>2, <1>3, LenProperties
  <2>2. Len(tasks[t].data) = ByteOf(Len(stream.data))
    BY <1>5, <2>1 DEF Decodes
  <2> QED BY <1>2, <2>1, <2>2, ByteOfSample
<1>7. WriteInv'
  <2>1. stream'.table = t /\ stream'.data = tasks[t].data
    BY <1>4
  <2>2. tasks'[stream'.table] = tasks[t]
    BY <1>1, <2>1
  <2> QED BY <1>5, <1>6, <2>1, <2>2 DEF WriteInv
<1>8. StreamInv'
  BY <1>4, <1>5 DEF StreamInv, Decodes
<1> QED
  BY <1>1, <1>7, <1>8, ParseKept, FilesKept DEF ConvInv, EncodeInv, DecodeInv

-----------------------------------------------------------------------------
(* Writing and decoding.                                                   *)

LEMMA InRange == ASSUME NEW n \in Nat, n < Lengths PROVE n % Lengths = n
BY SMT DEF Lengths

LEMMA RateInRange == ASSUME NEW n \in 0 .. Rates - 1 PROVE n % Rates = n
<1>1. Rates \in Nat
  BY SMT DEF Rates
<1>2. n \in Nat /\ n < Rates
  BY <1>1, SMT
<1>3. ASSUME NEW m \in Nat, m < Rates PROVE m % Rates = m
  BY <1>3, SMT DEF Rates
<1> QED
  BY <1>2, <1>3

\* What is written is heard as the thread heard it, as long as its length fits the
\* header.
LEMMA WriteEncodedKeeps == ASSUME ConvInv, LengthFits, WriteEncoded PROVE ConvInv'
<1> DEFINE path == arguments.output
           file == EncodedFile(stream.data)
           said == [data |-> tasks[stream.table].predicted, rate |-> stream.rate]
<1>1. /\ pc = "write" /\ pc' = "shell" /\ UNCHANGED parse
      /\ files' = Update(files, path, file) /\ heard' = Update(heard, path, said)
  BY DEF WriteEncoded, Exit
<1>2. /\ stream.data \in Seq(Byte) /\ Len(stream.data) \in Nat /\ Len(stream.data) < Lengths
      /\ Decodes(said.data, stream.data, stream.table)
      /\ Len(said.data) = 2 * Len(stream.data)
      /\ stream.table \in Tables
  BY <1>1, LenProperties DEF ConvInv, StreamInv, WriteInv, LengthFits, Decodes
<1>3. /\ file.type = "dq" /\ file.data = stream.data /\ file.length = Len(file.data)
      /\ file.rate = said.rate % Rates /\ file.kind \div 16 = stream.table
  <2>1. Len(stream.data) % Lengths = Len(stream.data)
    BY <1>2, InRange
  <2>2. (16 * stream.table) \div 16 = stream.table
    BY <1>2 DEF Tables
  <2> QED BY <2>1, <2>2 DEF EncodedFile
<1>4. IsFile(file)
  BY <1>2, <1>3 DEF IsFile
<1> HIDE DEF path, file, said
<1>5. /\ DOMAIN files' = DOMAIN files \cup {path} /\ files'[path] = file
      /\ \A p \in DOMAIN files : p # path => files'[p] = files[p]
      /\ DOMAIN heard' = DOMAIN heard \cup {path} /\ heard'[path] = said
      /\ \A p \in DOMAIN heard : p # path => heard'[p] = heard[p]
  <2>1. /\ DOMAIN Update(files, path, file) = DOMAIN files \cup {path}
        /\ Update(files, path, file)[path] = file
        /\ \A p \in DOMAIN files : p # path => Update(files, path, file)[p] = files[p]
    BY DEF Update
  <2>2. /\ DOMAIN Update(heard, path, said) = DOMAIN heard \cup {path}
        /\ Update(heard, path, said)[path] = said
        /\ \A p \in DOMAIN heard : p # path => Update(heard, path, said)[p] = heard[p]
    BY DEF Update
  <2> QED BY <1>1, <2>1, <2>2
<1>6. FilesInv'
  <2>1. ASSUME NEW p \in DOMAIN files' PROVE IsFile(files'[p])
    <3>1. CASE p = path
      BY <1>4, <1>5, <3>1
    <3>2. CASE p # path
      BY <1>5, <3>2 DEF ConvInv, FilesInv
    <3> QED BY <3>1, <3>2
  <2> QED BY <2>1 DEF FilesInv, IsFile
<1>7. HeardInv'
  <2> SUFFICES ASSUME NEW p \in DOMAIN heard'
               PROVE  /\ p \in DOMAIN files'
                      /\ files'[p].type = "dq"
                      /\ files'[p].length = Len(files'[p].data)
                      /\ files'[p].rate = heard'[p].rate % Rates
                      /\ Decodes(heard'[p].data, files'[p].data, files'[p].kind \div 16)
                      /\ Len(heard'[p].data) = 2 * Len(files'[p].data)
    BY DEF HeardInv
  <2>1. CASE p = path
    BY <1>2, <1>3, <1>5, <2>1
  <2>2. CASE p # path
    <3>1. p \in DOMAIN heard /\ heard'[p] = heard[p]
      BY <1>5, <2>2
    <3>2. p \in DOMAIN files
      BY <3>1 DEF ConvInv, HeardInv
    <3>3. files'[p] = files[p] /\ p \in DOMAIN files'
      BY <1>5, <2>2, <3>2
    <3> QED BY <3>1, <3>2, <3>3 DEF ConvInv, HeardInv
  <2> QED BY <2>1, <2>2
<1> QED
  BY <1>1, <1>6, <1>7, ParseKept, Elsewhere

\* The decoder takes the samples from the nibbles in the order of the encoder.
LEMMA DecodeKeeps == ASSUME ConvInv, DecodeByte PROVE ConvInv'
<1> DEFINE n == Len(output)
           byte == stream.data[(n \div 2) + 1]
           last == IF output = <<>> THEN Silence ELSE output[n]
           one == Next8(last, Delta(stream.table, byte \div 16))
           two == Next8(one, Delta(stream.table, byte % 16))
<1>1. /\ pc = "decode" /\ pc' = "decode" /\ UNCHANGED <<parse, files, heard, stream>>
      /\ n < 2 * Len(stream.data)
      /\ output' = output \o <<one, two>>
  BY DEF DecodeByte
<1>2. /\ stream.data \in Seq(Byte) /\ Len(stream.data) \in Nat /\ stream.table \in 0 .. 2
      /\ output \in Seq(Byte) /\ n \in Nat /\ n % 2 = 0
  BY <1>1, LenProperties DEF ConvInv, StreamInv, DecodeInv, Tables
<1>3. byte \in Byte
  <2>1. (n \div 2) + 1 \in 1 .. Len(stream.data)
    BY <1>1, <1>2
  <2> QED BY <1>2, <2>1, ElementOfSeq
<1>4. last \in Byte
  <2>1. CASE output = <<>>
    BY <2>1 DEF Silence, Byte
  <2>2. CASE output # <<>>
    <3>1. n \in 1 .. n
      BY <1>2, <2>2, EmptySeq
    <3>2. output[n] \in Byte
      BY <1>2, <3>1, ElementOfSeq
    <3> QED BY <2>2, <3>2
  <2> QED BY <2>1, <2>2
<1>5. one \in Byte /\ two \in Byte
  <2>1. byte \div 16 \in Nibble /\ byte % 16 \in Nibble
    BY <1>3, Nibbles
  <2>2. Delta(stream.table, byte \div 16) \in Int /\ Delta(stream.table, byte % 16) \in Int
    BY <1>2, <2>1, DeltaIsInt
  <2>3. one \in Byte
    BY <1>4, <2>2, Next8IsByte, BytesAreInts
  <2> QED BY <2>2, <2>3, Next8IsByte, BytesAreInts
<1>6. n = 0 <=> output = <<>>
  BY <1>2, EmptySeq
<1>7. n # 0 => last = output[n]
  BY <1>6
<1>8. n = 0 => last = Silence
  BY <1>6
<1> HIDE DEF byte, last
<1>9. one = Next8(last, Delta(stream.table, byte \div 16)) /\ two = Next8(one, Delta(stream.table, byte % 16))
  OBVIOUS
<1> HIDE DEF one, two
<1>10. /\ output' \in Seq(Byte) /\ Len(output') = n + 2
       /\ output'[n + 1] = one /\ output'[n + 2] = two
       /\ \A s \in 1 .. n : output'[s] = output[s]
  <2> DEFINE pair == <<one, two>>
  <2>1. pair \in Seq(Byte) /\ Len(pair) = 2 /\ pair[1] = one /\ pair[2] = two
    BY <1>5
  <2> HIDE DEF pair
  <2>2. /\ output \o pair \in Seq(Byte) /\ Len(output \o pair) = n + 2
        /\ \A s \in 1 .. n + 2 : (output \o pair)[s] = IF s <= n THEN output[s] ELSE pair[s - n]
    <3>1. /\ output \o pair \in Seq(Byte) /\ Len(output \o pair) = n + Len(pair)
          /\ \A s \in 1 .. n + Len(pair) : (output \o pair)[s] = IF s <= n THEN output[s] ELSE pair[s - n]
      BY <1>2, <2>1, ConcatProperties
    <3> QED BY <2>1, <3>1
  <2>3. /\ n + 1 \in 1 .. n + 2 /\ ~(n + 1 <= n) /\ (n + 1) - n = 1
        /\ n + 2 \in 1 .. n + 2 /\ ~(n + 2 <= n) /\ (n + 2) - n = 2
        /\ \A s \in 1 .. n : s \in 1 .. n + 2 /\ s <= n
    BY <1>2
  <2>4. output' = output \o pair
    BY <1>1 DEF pair
  <2> QED BY <2>1, <2>2, <2>3, <2>4
<1>11. ASSUME arguments.input \in DOMAIN heard
       PROVE  /\ n + 2 <= Len(heard[arguments.input].data)
              /\ \A s \in 1 .. n + 2 : output'[s] = heard[arguments.input].data[s]
  <2> DEFINE samples == heard[arguments.input].data
             file == files[arguments.input]
  <2>1. /\ stream.data = file.data /\ stream.table = file.kind \div 16
        /\ \A s \in 1 .. n : output[s] = samples[s]
        /\ Decodes(samples, file.data, file.kind \div 16)
        /\ Len(samples) = 2 * Len(file.data)
    BY <1>1, <1>11 DEF ConvInv, DecodeInv, HeardInv
  <2> HIDE DEF samples, file
  <2>2. Len(samples) = 2 * Len(stream.data) /\ Decodes(samples, stream.data, stream.table)
    BY <2>1
  <2>3. n + 2 <= Len(samples)
    <3> DEFINE k == n \div 2
    <3>1. k \in Nat /\ n = 2 * k
      BY <1>2
    <3> HIDE DEF k
    <3>2. k < Len(stream.data)
      BY <1>1, <1>2, <3>1
    <3> QED BY <1>2, <2>2, <3>1, <3>2
  <2>4. /\ n + 1 \in 1 .. Len(samples) /\ n + 2 \in 1 .. Len(samples)
    BY <1>2, <2>2, <2>3
  <2>5. /\ ByteOf(n + 1) = (n \div 2) + 1 /\ ByteOf(n + 2) = (n \div 2) + 1
        /\ (n + 1) % 2 = 1 /\ (n + 2) % 2 # 1
    BY <1>2 DEF ByteOf
  <2>6. Before(samples, n + 1) = last
    <3>1. CASE n = 0
      BY <1>8, <3>1 DEF Before
    <3>2. CASE n # 0
      <4>1. n + 1 # 1 /\ (n + 1) - 1 = n /\ n \in 1 .. n
        BY <1>2, <3>2
      <4> QED BY <1>7, <2>1, <3>2, <4>1 DEF Before
    <3> QED BY <3>1, <3>2
  <2>7. samples[n + 1] = one
    <3>1. samples[n + 1] = Next8(Before(samples, n + 1),
                                 Delta(stream.table, NibbleOf(stream.data[ByteOf(n + 1)], n + 1)))
      BY <2>2, <2>4 DEF Decodes
    <3>2. NibbleOf(stream.data[ByteOf(n + 1)], n + 1) = byte \div 16
      BY <2>5 DEF NibbleOf, byte
    <3> QED BY <1>9, <2>6, <3>1, <3>2
  <2>8. samples[n + 2] = two
    <3>1. samples[n + 2] = Next8(Before(samples, n + 2),
                                 Delta(stream.table, NibbleOf(stream.data[ByteOf(n + 2)], n + 2)))
      BY <2>2, <2>4 DEF Decodes
    <3>2. NibbleOf(stream.data[ByteOf(n + 2)], n + 2) = byte % 16
      BY <2>5 DEF NibbleOf, byte
    <3>3. n + 2 # 1 /\ (n + 2) - 1 = n + 1
      BY <1>2
    <3>4. Before(samples, n + 2) = one
      BY <2>7, <3>3 DEF Before
    <3> QED BY <1>9, <3>1, <3>2, <3>4
  <2>9. \A s \in 1 .. n + 2 : s \in 1 .. n \/ s = n + 1 \/ s = n + 2
    BY <1>2
  <2> QED BY <1>10, <2>1, <2>3, <2>7, <2>8, <2>9 DEF samples
<1>12. DecodeInv'
  <2>1. (n + 2) % 2 = 0
    BY <1>2
  <2>2. arguments' = arguments
    BY <1>1 DEF arguments
  <2> QED BY <1>1, <1>10, <1>11, <2>1, <2>2 DEF DecodeInv, ConvInv
<1>13. StreamInv'
  BY <1>1 DEF ConvInv, StreamInv
<1> QED
  BY <1>1, <1>12, <1>13, ParseKept, FilesKept DEF ConvInv, EncodeInv, WriteInv

\* A file that takes the place of another one, and of what was heard of it.
LEMMA FilePut ==
  ASSUME ConvInv, NEW path, NEW file, IsFile(file), pc' = "shell", UNCHANGED parse,
         files' = Update(files, path, file), heard' = Unheard(path)
  PROVE  ConvInv'
<1>4. /\ DOMAIN files' = DOMAIN files \cup {path} /\ files'[path] = file
      /\ \A p \in DOMAIN files : p # path => files'[p] = files[p]
  <2>1. /\ DOMAIN Update(files, path, file) = DOMAIN files \cup {path}
        /\ Update(files, path, file)[path] = file
        /\ \A p \in DOMAIN files : p # path => Update(files, path, file)[p] = files[p]
    BY DEF Update
  <2> QED BY <2>1
<1>5. FilesInv'
  <2>1. ASSUME NEW p \in DOMAIN files' PROVE IsFile(files'[p])
    <3>1. CASE p = path
      BY <1>4, <3>1
    <3>2. CASE p # path
      BY <1>4, <3>2 DEF ConvInv, FilesInv
    <3> QED BY <3>1, <3>2
  <2> QED BY <2>1 DEF FilesInv, IsFile
<1>6. HeardInv'
  <2>1. ASSUME NEW p \in DOMAIN heard'
        PROVE  /\ p \in DOMAIN heard /\ heard'[p] = heard[p]
               /\ p \in DOMAIN files' /\ files'[p] = files[p]
    <3>1. p \in DOMAIN heard /\ p # path /\ heard'[p] = heard[p]
      BY DEF Unheard
    <3>2. p \in DOMAIN files
      BY <3>1 DEF ConvInv, HeardInv
    <3> QED BY <1>4, <3>1, <3>2
  <2> QED BY <2>1 DEF ConvInv, HeardInv
<1> QED
  BY <1>5, <1>6, ParseKept, Elsewhere

LEMMA NothingIsBytes == <<>> \in Seq(Byte) /\ Len(<<>>) = 0
OBVIOUS

LEMMA ModLengths == ASSUME NEW n \in Nat PROVE n % Lengths \in Nat
BY DEF Lengths

LEMMA FileKinds ==
  ASSUME NEW file
  PROVE  /\ file.type = "raw" /\ file.data \in Seq(Byte) => IsFile(file)
         /\ file.type = "dq" /\ file.data \in Seq(Byte) /\ file.length \in Nat => IsFile(file)
         /\ file.type = "riff" /\ Len(file.chunks) = 0 => IsFile(file)
<1>1. file.type = "riff" /\ Len(file.chunks) = 0 => IsFile(file)
  BY DEF IsFile
<1> QED
  BY <1>1 DEF IsFile, Headerless

LEMMA ChunkIsFile ==
  ASSUME NEW data \in Seq(Byte), Len(output) \in Nat
  PROVE  IsFile(DecodedFile(<<DataChunk(data)>>))
<1> DEFINE file == DecodedFile(<<DataChunk(data)>>)
<1>1. file.type = "riff" /\ file.chunks = <<DataChunk(data)>>
  BY DEF DecodedFile
<1>2. Len(file.chunks) = 1 /\ file.chunks[1] = DataChunk(data)
  BY <1>1
<1>3. DataChunk(data).data \in Seq(Byte) /\ DataChunk(data).size \in Nat
  BY DEF DataChunk
<1> HIDE DEF file
<1>4. IsFile(file)
  BY <1>1, <1>2, <1>3 DEF IsFile
<1> QED
  BY <1>4 DEF file

LEMMA WriteDecodedKeeps == ASSUME ConvInv, WriteDecoded PROVE ConvInv'
<1>1. /\ Decoded /\ pc' = "shell" /\ UNCHANGED parse
      /\ files' = Update(files, arguments.output, DecodedFile(<<DataChunk(output)>>))
      /\ heard' = Unheard(arguments.output)
  BY DEF WriteDecoded, Exit
<1>2. output \in Seq(Byte) /\ Len(output) \in Nat
  BY <1>1, LenProperties DEF Decoded, ConvInv, DecodeInv
<1> QED
  BY <1>1, <1>2, ChunkIsFile, FilePut

-----------------------------------------------------------------------------
(* Writing that fails.                                                     *)

LEMMA CutBytes ==
  ASSUME NEW data \in Seq(Byte), NEW n \in CutAt, n < Len(data)
  PROVE  SubSeq(data, 1, n) \in Seq(Byte)
<1>1. n \in Nat /\ Len(data) \in Nat
  BY FilesAssumption, LenProperties
<1>2. n <= Len(data)
  BY <1>1
<1> QED
  BY <1>1, <1>2, FirstBytes

\* Whatever is left of a file is one.
LEMMA CutIsFile ==
  ASSUME NEW file \in CutOff, pc = "write" => stream.data \in Seq(Byte),
         pc # "write" => output \in Seq(Byte)
  PROVE  IsFile(file)
<1>1. CASE \E bytes \in {<<>>} \cup Noise : file = [type |-> "raw", data |-> bytes]
  <2>1. PICK bytes \in {<<>>} \cup Noise : file = [type |-> "raw", data |-> bytes]
    BY <1>1
  <2>2. bytes \in Seq(Byte)
    BY FilesAssumption, NothingIsBytes
  <2>3. file.type = "raw" /\ file.data = bytes
    BY <2>1
  <2> QED BY <2>2, <2>3, FileKinds
<1>2. CASE pc = "write" /\ \E n \in CutAt : /\ n < Len(stream.data)
                                          /\ file = EncodedFile(SubSeq(stream.data, 1, n))
  <2>1. PICK n \in CutAt : n < Len(stream.data) /\ file = EncodedFile(SubSeq(stream.data, 1, n))
    BY <1>2
  <2>2. SubSeq(stream.data, 1, n) \in Seq(Byte) /\ Len(stream.data) \in Nat
    BY <1>2, <2>1, CutBytes, LenProperties
  <2>3. Len(stream.data) % Lengths \in Nat
    BY <2>2, ModLengths
  <2>4. /\ file.type = "dq" /\ file.length = Len(stream.data) % Lengths
        /\ file.data = SubSeq(stream.data, 1, n)
    BY <2>1 DEF EncodedFile
  <2> QED BY <2>2, <2>3, <2>4, FileKinds
<1>3. CASE pc # "write" /\ file = DecodedFile(<<>>)
  <2>1. file.type = "riff" /\ Len(file.chunks) = 0
    <3>1. file.type = "riff" /\ file.chunks = <<>>
      BY <1>3 DEF DecodedFile
    <3> QED BY <3>1, NothingIsBytes
  <2> QED BY <2>1, FileKinds
<1>4. CASE pc # "write" /\ \E n \in CutAt : /\ n < Len(output)
                                          /\ file = DecodedFile(<<DataChunk(SubSeq(output, 1, n))>>)
  <2>1. PICK n \in CutAt : /\ n < Len(output)
                           /\ file = DecodedFile(<<DataChunk(SubSeq(output, 1, n))>>)
    BY <1>4
  <2>2. SubSeq(output, 1, n) \in Seq(Byte) /\ Len(output) \in Nat
    BY <1>4, <2>1, CutBytes, LenProperties
  <2> QED BY <2>1, <2>2, ChunkIsFile
<1>5. CASE pc = "write"
  <2>1. \/ \E bytes \in {<<>>} \cup Noise : file = [type |-> "raw", data |-> bytes]
        \/ \E n \in CutAt : n < Len(stream.data) /\ file = EncodedFile(SubSeq(stream.data, 1, n))
    BY <1>5 DEF CutOff
  <2> QED BY <1>1, <1>2, <1>5, <2>1
<1>6. CASE pc # "write"
  <2>1. \/ \E bytes \in {<<>>} \cup Noise : file = [type |-> "raw", data |-> bytes]
        \/ file = DecodedFile(<<>>)
        \/ \E n \in CutAt : n < Len(output) /\ file = DecodedFile(<<DataChunk(SubSeq(output, 1, n))>>)
    BY <1>6 DEF CutOff
  <2> QED BY <1>1, <1>3, <1>4, <1>6, <2>1
<1> QED
  BY <1>5, <1>6

LEMMA WriteFailsKeeps == ASSUME ConvInv, WriteFails PROVE ConvInv'
<1>1. PICK file \in CutOff : files' = Update(files, arguments.output, file)
  BY DEF WriteFails
<1>2. /\ pc = "write" \/ Decoded
      /\ pc' = "shell" /\ UNCHANGED parse
      /\ heard' = Unheard(arguments.output)
  BY DEF WriteFails, Exit
<1>3. /\ pc = "write" => stream.data \in Seq(Byte)
      /\ pc # "write" => output \in Seq(Byte)
  BY <1>2 DEF Decoded, ConvInv, StreamInv, DecodeInv
<1>4. IsFile(file)
  BY <1>1, <1>3, CutIsFile
<1> QED
  BY <1>1, <1>2, <1>4, FilePut

-----------------------------------------------------------------------------
(* Every step, and what follows.                                           *)

LEMMA ConvStep == ASSUME ConvInv, LengthFits, [ConvNext]_convVars PROVE ConvInv'
<1>1. CASE UNCHANGED convVars
  BY <1>1 DEF convVars, ConvInv, ParseInv, FilesInv, StreamInv, EncodeInv, TaskInv, WriteInv,
     DecodeInv, HeardInv, arguments, IsFile
<1>2. CASE \E argv \in CommandLines : RunTool(argv)
  BY <1>2, RunToolKeeps
<1>3. CASE Parse \/ ParseFails \/ FillIn \/ ReadFails
  BY <1>3, ParseKeeps, FailsKeep, FillInKeeps
<1>4. CASE ReadDecoded \/ ReadEncoded
  BY <1>4, ReadDecodedKeeps, ReadEncodedKeeps
<1>5. CASE \E t \in DOMAIN tasks : EncodeSample(t)
  BY <1>5, EncodeKeeps
<1>6. CASE Choose \/ WriteEncoded
  BY <1>6, ChooseKeeps, WriteEncodedKeeps
<1>7. CASE DecodeByte \/ WriteDecoded
  BY <1>7, DecodeKeeps, WriteDecodedKeeps
<1>8. CASE OpenFails \/ WriteFails
  BY <1>8, FailsKeep, WriteFailsKeeps
<1> QED
  BY <1>1, <1>2, <1>3, <1>4, <1>5, <1>6, <1>7, <1>8 DEF ConvNext

\* The inductive invariant, for any files, command lines and number of runs.
THEOREM ConvInvariance == ConvSpec /\ []LengthFits => []ConvInv
BY ConvStart, ConvStep, PTL DEF ConvSpec

LEMMA DecodedSoFar ==
  ASSUME ConvInv, pc = "decode", arguments.input \in DOMAIN heard
  PROVE  output = SubSeq(heard[arguments.input].data, 1, Len(output))
<1> DEFINE samples == heard[arguments.input].data
           n == Len(output)
<1>1. /\ output \in Seq(Byte) /\ samples \in Seq(Byte) /\ n \in Nat /\ Len(samples) \in Nat
      /\ n <= Len(samples) /\ \A s \in 1 .. n : output[s] = samples[s]
  BY LenProperties DEF ConvInv, DecodeInv, HeardInv, Decodes
<1> HIDE DEF samples, n
<1>2. \A i \in 1 .. n : samples[i] \in Byte
  <2>1. \A i \in 1 .. n : i \in 1 .. Len(samples)
    BY <1>1
  <2> QED BY <1>1, <2>1, ElementOfSeq
<1>3. /\ SubSeq(samples, 1, n) \in Seq(Byte)
      /\ Len(SubSeq(samples, 1, n)) = IF 1 <= n THEN n - 1 + 1 ELSE 0
      /\ \A i \in 1 .. n - 1 + 1 : SubSeq(samples, 1, n)[i] = samples[1 + i - 1]
  BY <1>1, <1>2, SubSeqProperties
<1>4. Len(SubSeq(samples, 1, n)) = n
  BY <1>1, <1>3
<1>5. \A i \in 1 .. n : SubSeq(samples, 1, n)[i] = output[i]
  BY <1>1, <1>3
<1> QED
  BY <1>1, <1>3, <1>4, <1>5, SeqEqual DEF n, samples

\* Decoding a file the tool has made gives the samples its encoder went by, for
\* samples of any length that the header can say (dpcm-hq-conv.cpp:479-532, 249-258,
\* 282-296): neither padding, nor the order of nibbles, nor the table gets lost.
THEOREM DecodingIsTrue == ConvSpec /\ []LengthFits => []DecodesToPredictions
<1>1. ASSUME ConvInv PROVE DecodesToPredictions
  <2>1. ASSUME NEW p \in DOMAIN heard
        PROVE  /\ 2 * files[p].length = Len(heard[p].data)
               /\ heard[p].rate \in 0 .. Rates - 1 => files[p].rate = heard[p].rate
    <3>1. /\ files[p].length = Len(files[p].data) /\ Len(heard[p].data) = 2 * Len(files[p].data)
          /\ files[p].rate = heard[p].rate % Rates
      BY <1>1 DEF ConvInv, HeardInv
    <3>2. heard[p].rate \in 0 .. Rates - 1 => heard[p].rate % Rates = heard[p].rate
      BY RateInRange
    <3> QED BY <3>1, <3>2
  <2> QED BY <1>1, <2>1, DecodedSoFar DEF DecodesToPredictions
<1> QED
  BY <1>1, ConvInvariance, PTL
=============================================================================
