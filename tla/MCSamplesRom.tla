---------------------------- MODULE MCSamplesRom ----------------------------
(***************************************************************************)
(* A few files and command lines: what the tool encodes it is made to      *)
(* decode again, and everything it leaves behind goes into a ROM, across   *)
(* the end of a bank.                                                      *)
(***************************************************************************)
EXTENDS SamplesRom

Option(name) == [option |-> name]
Text(parts)  == [text |-> parts]

Wave(fmt, chunks) == [type |-> "riff", form |-> "WAVE", fmt |-> fmt, chunks |-> chunks]
Format(rate) == [id |-> "fmt", format |-> 1, channels |-> 1, bits |-> 8, rate |-> rate, size |-> 16]
Chunk(id, size, data) == [id |-> id, size |-> size, data |-> data]

Drum == <<"drum", ".wav">>
Kick == <<"kick", ".pcm">>
Old  == <<"old", ".dpcm">>
Odd  == <<"odd", ".wav">>
Cue  == <<"cue", ".wav">>
Tune == <<"tune", ".pcm">>

\* A WAV file with a chunk before the data and steps that wrap around, a raw file
\* of one sample, classic DPCM, a WAV file cut short, one that does not begin with
\* fmt, and an AIFF file.
MCFiles ==
  (Drum :> Wave(Format(20000), <<Chunk("LIST", 4, <<>>), Chunk("data", 4, <<128, 140, 255, 0>>)>>)) @@
  (Kick :> [type |-> "raw", data |-> <<133>>]) @@
  (Old  :> [type |-> "raw", data |-> <<23, 240>>]) @@
  (Odd  :> Wave(Format(8000), <<Chunk("data", 9, <<1, 2, 3>>)>>)) @@
  (Cue  :> Wave([Format(8000) EXCEPT !.id = "cue"], <<Chunk("data", 2, <<1, 2>>)>>)) @@
  (Tune :> [type |-> "aiff", data |-> <<65, 73>>])

MCRateOf == <<"17000">> :> 17000

MCCommandLines ==
  {<<Text(Drum)>>, <<Text(Kick), Text(<<"drum", ".dpcmq">>)>>,
   <<Text(<<"drum", ".dpcmq">>)>>, <<Text(Old), Text(<<"old", ".wav">>)>>,
   <<Option("table"), Text(<<"2">>), Option("rate"), Text(<<"17000">>), Text(Drum)>>,
   <<Option("table"), Text(<<"best">>), Text(Odd)>>,
   <<Option("mode"), Text(<<"decode">>), Text(Kick), Text(Drum)>>,
   <<Option("mode"), Text(<<"decode">>), Text(Drum)>>,
   <<Option("mode"), Text(<<"encode">>), Option("table"), Text(<<"1">>),
     Text(<<"drum", ".dpcmq">>), Text(<<"old", ".dpcm">>)>>,
   <<Option("rate"), Text(<<"fast">>), Text(Drum)>>,
   <<Text(Drum), Text(Kick), Text(Old)>>, <<Text(Drum), Option("mode")>>,
   <<Option("verbose")>>}

MCNoise == {<<68, 81>>}

MCBehind == {<<>>, <<[at |-> 40, size |-> 5]>>}

MCStarts == <<32757, 65514>>

MCDescriptors ==
  {[type |-> 2, bits |-> 0, pitch |-> 0], [type |-> 4, bits |-> 65, pitch |-> 128],
   [type |-> 6, bits |-> 64, pitch |-> 0], [type |-> 8, bits |-> 0, pitch |-> 128]}
=============================================================================
