---------------------------- MODULE DpcmConverter ----------------------------
(***************************************************************************)
(* dpcm-hq-conv.cpp: a command-line tool that encodes WAV or raw PCM files *)
(* to DPCM-HQ and decodes DPCM and DPCM-HQ to WAV.  It is run several      *)
(* times over the same files.  The encoder tries the three delta tables in *)
(* parallel, each in a thread of its own, and picks one by its error.      *)
(*                                                                         *)
(* A text is a sequence of parts; of a path the last one is the extension. *)
(* An optional value is a set of at most one.  A file is a record of what  *)
(* its bytes hold:                                                         *)
(*   [type |-> "raw",  data]                      bytes without a header    *)
(*   [type |-> "aiff", data]                      AIFF or NIST              *)
(*   [type |-> "dq",   version, length, rate, kind, data]  DPCM-HQ          *)
(*   [type |-> "riff", form, fmt, chunks]         RIFF: its fmt chunk and   *)
(*                      the chunks after it, each with an id, size and data *)
(***************************************************************************)
EXTENDS DeltaCodec, Sequences, TLC

CONSTANTS
  CommandLines,   \* argument lists the tool is run with
  RateOf,         \* what stol makes of a text: a function from texts to rates
  Files,          \* the files there are in the beginning: a function from paths
  Noise,          \* bound: what a file with a header of the other kind, or with half of
                  \* its header, may be, byte by byte
  CutAt,          \* bound: how many of its samples a file that is cut off may have
  MaxRuns         \* bound: how often the tool is run

\* Files without a header the tool knows.
Headerless == {"raw", "aiff"}

\* What the tool takes a file for: bytes, and sizes that may be wrong.
IsFile(file) ==
  \/ file.type \in Headerless /\ file.data \in Seq(Byte)
  \/ file.type = "dq"   /\ file.data \in Seq(Byte) /\ file.length \in Nat
  \/ file.type = "riff" /\ \A i \in 1 .. Len(file.chunks) :
                             file.chunks[i].data \in Seq(Byte) /\ file.chunks[i].size \in Nat

ASSUME FilesAssumption ==
  /\ Noise \subseteq Seq(Byte) /\ CutAt \subseteq Nat
  /\ \A path \in DOMAIN Files : IsFile(Files[path])

VARIABLES
  pc,         \* where main is: "shell", "parse", "read", "encode", "write", "decode"
  parse,      \* [argv left, state of the parser, arguments]
  files,      \* path -> file
  stream,     \* the stream read, or to be written: [rate, table, data]
  tasks,      \* table -> the thread that encodes with it; {} when it does not run
  output,     \* what the decoder has put out
  exit,       \* exit code of the last run
  runs,       \* runs begun
  before,     \* (ghost) the files when the run began
  heard       \* (ghost) path -> what the encoder took for the decoder's output, and the rate

convVars == <<pc, parse, files, stream, tasks, output, exit, runs, before, heard>>

Tables == 0 .. 2
NoStream == [rate |-> 0, table |-> 0, data |-> <<>>]
NoArguments == [input |-> <<>>, output |-> <<>>, mode |-> {}, rate |-> {}, table |-> {}]

ConvInit ==
  /\ pc = "shell"
  /\ parse = [argv |-> <<>>, state |-> "name", arguments |-> NoArguments]
  /\ files = Files
  /\ stream = NoStream /\ tasks = <<>> /\ output = <<>>
  /\ exit = 0 /\ runs = 0
  /\ before = Files /\ heard = <<>>

Update(f, x, y) == [z \in DOMAIN f \cup {x} |-> IF z = x THEN y ELSE f[z]]

Exit(code) == pc' = "shell" /\ exit' = code

-----------------------------------------------------------------------------
(* Command line.  A token is [option |-> name] or [text |-> value].        *)

RunTool(argv) ==
  /\ pc = "shell" /\ runs < MaxRuns
  /\ pc' = "parse" /\ runs' = runs + 1
  /\ parse' = [argv |-> argv, state |-> "name", arguments |-> NoArguments]
  /\ before' = files
  /\ stream' = NoStream /\ tasks' = <<>> /\ output' = <<>>
  /\ UNCHANGED <<files, exit, heard>>

arguments == parse.arguments

Modes == {"encode", "decode"}

\* The values of an option; "auto" and "best" are what holds without it.
Values(option) ==
  CASE option = "mode"  -> {<<"auto">>} \cup {<<m>> : m \in Modes}
    [] option = "table" -> {<<"best">>, <<"0">>, <<"1">>, <<"2">>}
    [] option = "rate"  -> DOMAIN RateOf

Value(option, text) ==
  CASE option = "mode"  -> {m \in Modes : text = <<m>>}
    [] option = "table" -> {t \in Tables : text = <<ToString(t)>>}
    [] option = "rate"  -> {RateOf[text]}

Token == Head(parse.argv)
IsOption == "option" \in DOMAIN Token

\* The arguments after the next token, and the state of the parser.
Parsed(state, to) == parse' = [argv |-> Tail(parse.argv), state |-> state, arguments |-> to]

ParseArgument ==
  \/ parse.state = "name" /\ IsOption /\ Token.option \in {"mode", "table", "rate"}
       /\ Parsed(Token.option, arguments)
  \/ parse.state = "name" /\ ~IsOption /\ arguments.input = <<>>
       /\ Parsed("name", [arguments EXCEPT !.input = Token.text])
  \/ parse.state = "name" /\ ~IsOption /\ arguments.input # <<>> /\ arguments.output = <<>>
       /\ Parsed("name", [arguments EXCEPT !.output = Token.text])
  \/ parse.state # "name" /\ ~IsOption /\ Token.text \in Values(parse.state)
       /\ Parsed("name", [arguments EXCEPT ![parse.state] = Value(parse.state, Token.text)])

\* Nothing above fits: an unknown option or value, or a third path.
BadToken ==
  IF parse.state = "name"
  THEN IF IsOption THEN Token.option \notin {"mode", "table", "rate"} ELSE arguments.output # <<>>
  ELSE IsOption \/ Token.text \notin Values(parse.state)

Parse ==
  /\ pc = "parse" /\ parse.argv # <<>> /\ ~BadToken
  /\ ParseArgument
  /\ UNCHANGED <<pc, files, stream, tasks, output, exit, runs, before, heard>>

ParseFails ==
  /\ pc = "parse"
  /\ IF parse.argv # <<>> THEN BadToken ELSE parse.state # "name" \/ arguments.input = <<>>
  /\ Exit(1)
  /\ UNCHANGED <<parse, files, stream, tasks, output, runs, before, heard>>

\* (mutant) opens the output file at once
FillInOpens ==
  /\ pc = "parse" /\ parse.argv = <<>> /\ parse.state = "name" /\ arguments.input # <<>>
  /\ LET input == arguments.input
         named == [input EXCEPT ![Len(input)] = ".dpcmq"]
         name  == IF arguments.output = <<>> THEN named ELSE arguments.output
     IN  /\ parse' = [parse EXCEPT !.arguments.mode = {"encode"}, !.arguments.output = name]
         /\ files' = Update(files, name, [type |-> "raw", data |-> <<>>])
  /\ pc' = "read"
  /\ UNCHANGED <<stream, tasks, output, exit, runs, before, heard>>

\* The mode by the extension of the input, the output by the input.
FillIn ==
  /\ pc = "parse" /\ parse.argv = <<>> /\ parse.state = "name" /\ arguments.input # <<>>
  /\ LET input == arguments.input
         coded == input[Len(input)] \in {".dpcm", ".dpcmq"}
         mode  == IF arguments.mode # {} THEN arguments.mode
                  ELSE IF coded THEN {"decode"} ELSE {"encode"}
         named == IF mode = {"decode"} THEN Append(input, ".wav")
                  ELSE [input EXCEPT ![Len(input)] = ".dpcmq"]
     IN  parse' = [parse EXCEPT !.arguments.mode = mode,
                     !.arguments.output = IF @ = <<>> THEN named ELSE @]
  /\ pc' = "read"
  /\ UNCHANGED <<files, stream, tasks, output, exit, runs, before, heard>>

-----------------------------------------------------------------------------
(* Reading a file: a stream, or nothing if that fails.  A file with the     *)
(* header of the other kind is taken for one without, header and all.      *)

Plain(bytes) == [rate |-> 0, table |-> 0, data |-> bytes]

\* The data chunk is searched behind the first 24 bytes of the fmt chunk, whatever
\* its size: what a longer one holds is read as a chunk far larger than the file.
DataChunks(file) == {i \in 1 .. Len(file.chunks) : file.chunks[i].id = "data"}

Playable(file) ==
  {i \in DataChunks(file) :
     /\ file.form = "WAVE" /\ file.fmt.id = "fmt"
     /\ file.fmt.format \in {1, 65534} /\ file.fmt.channels = 1 /\ file.fmt.bits = 8
     /\ file.fmt.size = 16
     /\ \A j \in DataChunks(file) : i <= j
     /\ file.chunks[i].size <= Len(file.chunks[i].data)}

ChunkStream(file, i) ==
  [rate |-> file.fmt.rate, table |-> 0, data |-> SubSeq(file.chunks[i].data, 1, file.chunks[i].size)]

DecodedStream(file) ==
  IF file.type = "riff" THEN {ChunkStream(file, i) : i \in Playable(file)}
  ELSE {Plain(bytes) : bytes \in (IF file.type = "dq" THEN Noise ELSE {file.data})}

EncodedStream(file) ==
  IF file.type # "dq" THEN {Plain(bytes) : bytes \in (IF file.type = "riff" THEN Noise ELSE {file.data})}
  ELSE IF file.length > Len(file.data) THEN {}
  ELSE {[rate |-> file.rate, table |-> file.kind \div 16, data |-> SubSeq(file.data, 1, file.length)]}

Read == IF arguments.input \notin DOMAIN files THEN {}
        ELSE IF arguments.mode = {"encode"} THEN DecodedStream(files[arguments.input])
        ELSE EncodedStream(files[arguments.input])

RateOr(rate) ==
  IF arguments.rate # {} THEN CHOOSE r \in arguments.rate : TRUE ELSE IF rate = 0 THEN 16000 ELSE rate

\* deltaTables.at throws for a table that does not exist.
ReadFails ==
  /\ pc = "read"
  /\ \A read \in Read : read.table \notin Tables
  /\ Exit(2)
  /\ UNCHANGED <<parse, files, stream, tasks, output, runs, before, heard>>

Silence == 128

ReadDecoded ==
  /\ pc = "read" /\ arguments.mode = {"encode"}
  /\ \E read \in Read :
       stream' = [read EXCEPT !.rate = RateOr(@),
                    !.data = IF Len(@) % 2 = 1 THEN Append(@, Silence) ELSE @]
  /\ tasks' = [t \in (IF arguments.table = {} THEN Tables ELSE arguments.table) |->
                 [current |-> Silence, data |-> <<>>, predicted |-> <<>>, errors |-> 0]]
  /\ pc' = "encode"
  /\ UNCHANGED <<parse, files, output, exit, runs, before, heard>>

ReadEncoded ==
  /\ pc = "read" /\ arguments.mode = {"decode"}
  /\ \E read \in Read : read.table \in Tables /\ stream' = [read EXCEPT !.rate = RateOr(@)]
  /\ pc' = "decode"
  /\ UNCHANGED <<parse, files, tasks, output, exit, runs, before, heard>>

-----------------------------------------------------------------------------
(* Encoding: the threads, one sample at a time.                            *)

\* (mutant) the nibbles of a byte in the wrong order
EncodeSampleSwapped(table) ==
  LET task    == tasks[table]
      t       == Len(task.predicted)
      actual  == stream.data[t + 1]
      best    == bestDeltaIndex(table, task.current, actual)
      sample  == Next8(task.current, Delta(table, best))
  IN  /\ pc = "encode" /\ t < Len(stream.data)
      /\ tasks' = [tasks EXCEPT ![table] =
           [current   |-> sample,
            data      |-> IF t % 2 = 0 THEN Append(task.data, best)
                          ELSE [task.data EXCEPT ![Len(task.data)] = @ + 16 * best],
            predicted |-> Append(task.predicted, sample),
            errors    |-> task.errors + (actual - sample) * (actual - sample)]]
      /\ UNCHANGED <<pc, parse, files, stream, output, exit, runs, before, heard>>

EncodeSample(table) ==
  LET task    == tasks[table]
      t       == Len(task.predicted)
      actual  == stream.data[t + 1]
      best    == bestDeltaIndex(table, task.current, actual)
      sample  == Next8(task.current, Delta(table, best))
  IN  /\ pc = "encode" /\ t < Len(stream.data)
      /\ tasks' = [tasks EXCEPT ![table] =
           [current   |-> sample,
            data      |-> IF t % 2 = 0 THEN Append(task.data, 16 * best)
                          ELSE [task.data EXCEPT ![Len(task.data)] = @ + best],
            predicted |-> Append(task.predicted, sample),
            errors    |-> task.errors + (actual - sample) * (actual - sample)]]
      /\ UNCHANGED <<pc, parse, files, stream, output, exit, runs, before, heard>>

\* The best of the three, with a bias towards the tables of smaller steps.
Better(table, than, b) ==
  RmseBiased(tasks[table].errors, tasks[than].errors, Len(stream.data), b)

\* (mutant) the last comparison is the wrong way round
ChosenWorse ==
  IF Tables # DOMAIN tasks THEN CHOOSE t \in DOMAIN tasks : TRUE
  ELSE IF 25 * tasks[0].errors <= Len(stream.data) THEN 0
  ELSE LET first == IF Better(1, 0, 6) THEN 1 ELSE 0
       IN  IF Better(first, 2, 3) THEN 2 ELSE first

Chosen ==
  IF Tables # DOMAIN tasks THEN CHOOSE t \in DOMAIN tasks : TRUE
  ELSE IF 25 * tasks[0].errors <= Len(stream.data) THEN 0
  ELSE LET first == IF Better(1, 0, 6) THEN 1 ELSE 0
       IN  IF Better(2, first, 3) THEN 2 ELSE first

Choose ==
  /\ pc = "encode"
  /\ \A t \in DOMAIN tasks : Len(tasks[t].predicted) = Len(stream.data)
  /\ stream' = [stream EXCEPT !.table = Chosen, !.data = tasks[Chosen].data]
  /\ pc' = "write"
  /\ UNCHANGED <<parse, files, tasks, output, exit, runs, before, heard>>

\* How many lengths and rates there are in a header: 24 and 16 bits.
Lengths == 16777216
Rates   == 65536

EncodedFile(data) ==
  [type |-> "dq", version |-> 1, length |-> Len(stream.data) % Lengths, rate |-> stream.rate % Rates,
   kind |-> 16 * stream.table, data |-> data]

WriteEncoded ==
  /\ pc = "write"
  /\ files' = Update(files, arguments.output, EncodedFile(stream.data))
  /\ heard' = Update(heard, arguments.output,
       [data |-> tasks[stream.table].predicted, rate |-> stream.rate])
  /\ Exit(0)
  /\ UNCHANGED <<parse, stream, tasks, output, runs, before>>

-----------------------------------------------------------------------------
(* Decoding, one byte at a time.                                           *)

DecodeByte ==
  LET byte  == stream.data[(Len(output) \div 2) + 1]
      last  == IF output = <<>> THEN Silence ELSE output[Len(output)]
      first == Next8(last, Delta(stream.table, byte \div 16))
  IN  /\ pc = "decode" /\ Len(output) < 2 * Len(stream.data)
      /\ output' = output \o <<first, Next8(first, Delta(stream.table, byte % 16))>>
      /\ UNCHANGED <<pc, parse, files, stream, tasks, exit, runs, before, heard>>

DecodedFile(chunks) ==
  [type |-> "riff", form |-> "WAVE",
   fmt |-> [id |-> "fmt", format |-> 1, channels |-> 1, bits |-> 8, rate |-> stream.rate, size |-> 16],
   chunks |-> chunks]

DataChunk(data) == [id |-> "data", size |-> Len(output), data |-> data]

Decoded == pc = "decode" /\ Len(output) = 2 * Len(stream.data)

Unheard(path) == [p \in DOMAIN heard \ {path} |-> heard[p]]

WriteDecoded ==
  /\ Decoded
  /\ files' = Update(files, arguments.output, DecodedFile(<<DataChunk(output)>>))
  /\ heard' = Unheard(arguments.output)
  /\ Exit(0)
  /\ UNCHANGED <<parse, stream, tasks, output, runs, before>>

-----------------------------------------------------------------------------
(* Writing that fails.                                                     *)

OpenFails ==
  /\ pc = "write" \/ Decoded
  /\ Exit(2)
  /\ UNCHANGED <<parse, files, stream, tasks, output, runs, before, heard>>

\* What is left of a file that is cut off: nothing or half of a header, or all of it
\* with a part of the data.
CutOff ==
  LET part(data) == {SubSeq(data, 1, n) : n \in {n \in CutAt : n < Len(data)}}
  IN  {[type |-> "raw", data |-> bytes] : bytes \in {<<>>} \cup Noise}
        \cup IF pc = "write" THEN {EncodedFile(data) : data \in part(stream.data)}
             ELSE {DecodedFile(<<>>)} \cup {DecodedFile(<<DataChunk(data)>>) : data \in part(output)}

\* The disk is full, or goes away: ofstream has emptied the file, and not all of it
\* gets there.  A write that fails throws; what is still in the stream's buffer is
\* only written when the stream is destroyed, which says nothing of errors, and the
\* run ends well.
WriteFails ==
  /\ pc = "write" \/ Decoded
  /\ \E file \in CutOff : files' = Update(files, arguments.output, file)
  /\ heard' = Unheard(arguments.output)
  /\ \E code \in {0, 2} : Exit(code)
  /\ UNCHANGED <<parse, stream, tasks, output, runs, before>>

ConvNext ==
  \/ \E argv \in CommandLines : RunTool(argv)
  \/ Parse \/ ParseFails \/ FillIn
  \/ ReadFails \/ ReadDecoded \/ ReadEncoded
  \/ \E table \in DOMAIN tasks : EncodeSample(table)
  \/ Choose \/ WriteEncoded
  \/ DecodeByte \/ WriteDecoded
  \/ OpenFails \/ WriteFails

ConvSpec == ConvInit /\ [][ConvNext]_convVars

\* What the header can say: its length has 24 bits (dpcm-hq-conv.cpp:249-252), and
\* the tool does not check that what it writes is shorter.
LengthFits == pc = "write" => Len(stream.data) < Lengths

-----------------------------------------------------------------------------
(* Properties.                                                             *)

\* Decoding a file the tool has made gives the samples its encoder went by, at the
\* rate it was given (dpcm-hq-conv.cpp:509 and 529-532): the two never get apart,
\* although one of them only sees nibbles, a table number and 16 bits of rate.
DecodesToPredictions ==
  /\ pc = "decode" /\ arguments.input \in DOMAIN heard =>
       output = SubSeq(heard[arguments.input].data, 1, Len(output))
  /\ \A p \in DOMAIN heard :
       /\ 2 * files[p].length = Len(heard[p].data)
       /\ heard[p].rate \in 0 .. Rates - 1 => files[p].rate = heard[p].rate

\* A run that fails leaves the files as they were, whatever it got to, unless what
\* fails is writing: then its output is lost, also one that was good before the run
\* (dpcm-hq-conv.cpp:244, 263, 358, 383), and no other file is touched.
FailureHarmsOutputOnly ==
  [][pc # "shell" /\ pc' = "shell" /\ exit' # 0 =>
       \/ files' = before
       \/ /\ pc \in {"write", "decode"}
          /\ DOMAIN files' = DOMAIN before \cup {arguments.output}
          /\ \A p \in DOMAIN before \ {arguments.output} : files'[p] = before[p]]_convVars

\* The table that is written is the best one but for the bias: its error exceeds
\* no other table's by more than 1.2 + 0.6 (dpcm-hq-conv.cpp:637, 640), in
\* whatever order the threads end.
WithinBias ==
  pc = "write" /\ DOMAIN tasks = Tables =>
    \A t \in Tables : RmseBiased(tasks[stream.table].errors, tasks[t].errors,
                                 Len(tasks[0].predicted), 9)
=============================================================================
