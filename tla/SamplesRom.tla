----------------------------- MODULE SamplesRom -----------------------------
(***************************************************************************)
(* MPCM_LoadSamplesROM (megapcm-emu.c): the visualizer reads a ROM that    *)
(* begins with a table of sample descriptors and holds the sample files    *)
(* further on, and makes Mega PCM's records of them.  The files come from  *)
(* where DpcmConverter leaves them.                                        *)
(*                                                                         *)
(* A ROM is a sequence of entries, [desc, start, end, file], the           *)
(* file being what lies at start.  The descriptor is [type, bits, pitch]:  *)
(* a type code, the flag bits besides, and the byte that follows them.     *)
(***************************************************************************)
EXTENDS DpcmConverter

CONSTANTS
  Starts,         \* bound: where the files of a ROM lie, in their order; with more than
                  \* 25 of them the 8-bit rom_pos of the code wraps around
  Descriptors,    \* descriptors a sample may have, and the pitch with each
  Stray,          \* what the ROM may hold where a rate is read from the wrong place
  Behind          \* what a search for a data chunk may find behind its file: sequences of
                  \* at most one [at, size], counted from the end of the file

ASSUME SamplesAssumption ==
  /\ Len(Starts) < 25
  /\ Stray \subseteq 0 .. 65535
  /\ \A found \in Behind : Len(found) <= 1

VARIABLES
  rom,       \* entries
  loader,    \* "idle", "loading", "done", "failed" (NULL was returned)
  table      \* sample_table

romVars == <<rom, loader, table>>
vars == <<convVars, romVars>>

MPCM_TYPE_PCM        == 2
MPCM_TYPE_PCM_TURBO  == 4
MPCM_TYPE_DPCM       == 6
MPCM_TYPE_DPCM_TURBO == 8
PcmTypes  == {MPCM_TYPE_PCM, MPCM_TYPE_PCM_TURBO}
DpcmTypes == {MPCM_TYPE_DPCM, MPCM_TYPE_DPCM_TURBO}

MPCM_SampleRateToPitch(type, sample_rate) ==
  LET result == CASE type = MPCM_TYPE_PCM_TURBO /\ sample_rate = 32000  -> 255
                  [] type = MPCM_TYPE_DPCM_TURBO /\ sample_rate = 25800 -> 255
                  [] type = MPCM_TYPE_PCM  -> (256 * sample_rate) \div 25208
                  [] type = MPCM_TYPE_DPCM -> (256 * sample_rate) \div 20691
                  [] OTHER -> 0
  IN  IF result > 255 THEN 0 ELSE result

-----------------------------------------------------------------------------
(* Where things are in a file.                                             *)

RECURSIVE SizeOf(_)
SizeOf(chunks) == IF chunks = <<>> THEN 0 ELSE 8 + Head(chunks).size + SizeOf(Tail(chunks))

FirstData(file) == CHOOSE i \in DataChunks(file) : \A j \in DataChunks(file) : i <= j

\* (mutant) takes the data chunk for the first one after fmt
WaveDataFirst(file) == 12 + 8 + file.fmt.size + 8

\* Offset of the samples in a RIFF file: the headers of RIFF and fmt, the chunks
\* before, the header of the data chunk.
WaveData(file) ==
  12 + 8 + file.fmt.size + SizeOf(SubSeq(file.chunks, 1, FirstData(file) - 1)) + 8

Length(file) ==
  CASE file.type \in {"raw", "aiff"} -> Len(file.data)
    [] file.type = "dq"   -> 9 + Len(file.data)
    [] file.type = "riff" ->
         12 + 8 + file.fmt.size
           + SizeOf([i \in 1 .. Len(file.chunks) |->
                IF file.chunks[i].id = "data"
                THEN [file.chunks[i] EXCEPT !.size = Len(file.chunks[i].data)] ELSE file.chunks[i]])

-----------------------------------------------------------------------------
(* The loader.                                                             *)

\* A pointer as bank and offset in the window; endPos lies behind the sample.
Record(flags, pitch, startPos, endPos) ==
  [flags |-> flags, pitch |-> pitch,
   startBank |-> (startPos \div 32768) % 256, startOffset |-> 32768 + (startPos % 32768),
   endBank   |-> (endPos \div 32768) % 256,   endOffset   |-> 32768 + (endPos % 32768)]

\* PCM samples must always be aligned on even boundary.
Even(record) ==
  [record EXCEPT !.startOffset = @ - (@ % 2), !.endOffset = @ - (@ % 2)]

WaveOK(file) ==
  /\ file.form = "WAVE" /\ file.fmt.id = "fmt"
  /\ file.fmt.format \in {1, 65534} /\ file.fmt.channels = 1 /\ file.fmt.bits = 8

\* The data chunk, [at, size]: the first one of the file.  The search knows the end of
\* the ROM only: from a file without one it goes on through what lies behind.
FoundData(entry, behind) ==
  LET file == entry.file
  IN  IF DataChunks(file) # {}
      THEN {[at |-> entry.start + WaveData(file), size |-> file.chunks[FirstData(file)].size]}
      ELSE {[at |-> entry.end + behind[i].at, size |-> behind[i].size] : i \in DOMAIN behind}

\* The record of an entry, {} where the loader gives up.  The rate of a WAVE file is
\* read behind the descriptors instead of from its fmt chunk (line 138).
SampleRecord(entry, stray, behind) ==
  LET type  == entry.desc.type
      file  == entry.file
      flags == 128 + entry.desc.bits + type
      pitch(rate) == IF entry.desc.pitch # 0 THEN entry.desc.pitch ELSE MPCM_SampleRateToPitch(type, rate)
      plain == Record(flags, entry.desc.pitch, entry.start, entry.end)
  IN  CASE type \in PcmTypes /\ file.type = "aiff" -> {}
        [] type \in PcmTypes /\ file.type = "riff" ->
             IF ~WaveOK(file) THEN {}
             ELSE {Even(Record(flags, pitch(stray), data.at, data.at + data.size)) :
                     data \in FoundData(entry, behind)}
        [] type \in PcmTypes /\ file.type \in {"raw", "dq"} -> {Even(plain)}
        [] type \in DpcmTypes /\ file.type = "dq" ->
             IF file.version # 1 THEN {}
             ELSE {Record(flags + 4, pitch(file.rate), entry.start + 9, entry.start + 9 + file.length)}
        [] OTHER -> {plain}

Loaded(entry, stray, behind) ==
  {record \in SampleRecord(entry, stray, behind) : record.pitch # 0}

\* The assembler puts files into a ROM, and MPCM_LoadSamplesROM begins.
BuildRom(entries) ==
  /\ loader = "idle" /\ pc = "shell"
  /\ rom' = entries
  /\ loader' = "loading"
  /\ table' = <<>>
  /\ UNCHANGED convVars

\* Nothing is read of a ROM of more than 8 MB.
RomTooLarge ==
  /\ loader = "idle" /\ pc = "shell"
  /\ loader' = "failed"
  /\ UNCHANGED <<convVars, rom, table>>

LoadRecord(stray, behind) ==
  LET record == Loaded(rom[Len(table) + 1], stray, behind)
  IN  /\ loader = "loading" /\ Len(table) < Len(rom) /\ record # {}
      /\ table' = Append(table, CHOOSE r \in record : TRUE)
      /\ UNCHANGED <<convVars, rom, loader>>

LoadFails(stray, behind) ==
  /\ loader = "loading" /\ Len(table) < Len(rom)
  /\ Loaded(rom[Len(table) + 1], stray, behind) = {}
  /\ loader' = "failed"
  /\ UNCHANGED <<convVars, rom, table>>

\* The end of the table: a descriptor above 80h.
EndOfTable ==
  /\ loader = "loading" /\ Len(table) = Len(rom)
  /\ loader' = "done"
  /\ UNCHANGED <<convVars, rom, table>>

Entry(path, desc, start) ==
  [desc |-> desc, start |-> start, end |-> start + Length(files[path]), file |-> files[path]]

Init == ConvInit /\ rom = <<>> /\ loader = "idle" /\ table = <<>>

Next ==
  \/ loader = "idle" /\ ConvNext /\ UNCHANGED romVars
  \/ BuildRom(<<>>)
  \/ \E desc \in Descriptors, path \in [1 .. Len(Starts) -> DOMAIN files] :
       BuildRom([i \in DOMAIN path |-> Entry(path[i], desc, Starts[i])])
  \/ RomTooLarge
  \/ \E stray \in Stray, behind \in Behind : LoadRecord(stray, behind) \/ LoadFails(stray, behind)
  \/ EndOfTable

Spec == Init /\ [][Next]_vars

-----------------------------------------------------------------------------
(* Properties.                                                             *)

\* Positions of the first byte of a sample and the one behind it, from its record.
StartOf(record) == 32768 * record.startBank + record.startOffset - 32768
EndOf(record)   == 32768 * record.endBank + record.endOffset - 32768

\* What lies at each place of a file, -1 for the bytes of its headers and for the
\* one before the file.
Header(n) == [i \in 1 .. n |-> -1]

RECURSIVE ChunkImage(_)
ChunkImage(chunks) ==
  IF chunks = <<>> THEN <<>>
  ELSE Header(8) \o (IF Head(chunks).id = "data" THEN Head(chunks).data ELSE Header(Head(chunks).size))
         \o ChunkImage(Tail(chunks))

Image(file) ==
  CASE file.type \in {"raw", "aiff"} -> file.data
    [] file.type = "dq"   -> Header(9) \o file.data
    [] file.type = "riff" -> Header(12 + 8 + file.fmt.size) \o ChunkImage(file.chunks)

Samples(file) == IF file.type = "riff" THEN file.chunks[FirstData(file)].data ELSE file.data

\* The header says how much data there is (the loader does not check it).
Whole(file) ==
  CASE file.type \in {"raw", "aiff"} -> TRUE
    [] file.type = "dq"   -> file.length = Len(file.data)
    [] file.type = "riff" -> DataChunks(file) # {} /\ file.chunks[FirstData(file)].size = Len(Samples(file))

\* A record points at the samples of its file, all of them and nothing else, save
\* that PCM is rounded down to even at both ends; and its type says whether the
\* data is DPCM-HQ.
RecordsPointAtData ==
  \A i \in 1 .. Len(table) :
    LET file  == rom[i].file
        type  == rom[i].desc.type
        bytes == SubSeq(Header(1) \o Image(file), StartOf(table[i]) - rom[i].start + 2,
                        EndOf(table[i]) - rom[i].start + 1)
        sound == SelectSeq(bytes, LAMBDA b : b # -1)
        slack == IF type \in PcmTypes THEN 1 ELSE 0
    IN  Whole(file) /\ type \in (IF file.type = "dq" THEN DpcmTypes ELSE PcmTypes) =>
          /\ sound = SubSeq(Samples(file), 1, Len(sound))
          /\ Len(bytes) - Len(sound) <= slack
          /\ Len(Samples(file)) - Len(sound) <= slack
          /\ (table[i].flags % 16) - (table[i].flags % 2) = type + (IF file.type = "dq" THEN 4 ELSE 0)
=============================================================================
