---------------------------- MODULE SampleFlags ----------------------------
(***************************************************************************)
(* The flags byte of a sample record (vars.asm): bit 0 loop, bits 1-3 the  *)
(* type, bits 4-7 the priority, of which bit 6 marks a sound effect and    *)
(* bit 7 a slot that can be played.                                        *)
(***************************************************************************)
EXTENDS Integers

FlagBytes == 0 .. 255

MaskType(flags) == 2 * ((flags % 16) \div 2)

MaskPriority(flags) == flags - (flags % 16)

Looping(flags) == flags % 2 = 1

Playable(flags) == flags >= 128

\* EnterPlaybackLoop.LoopTable.  Entries 0 and 14 stop playback.
LoopOf(flags) ==
    CASE MaskType(flags) = 2  -> "LOOP_PCM"
      [] MaskType(flags) = 4  -> "LOOP_PCM_TURBO"
      [] MaskType(flags) = 6  -> "LOOP_DPCM"
      [] MaskType(flags) = 8  -> "LOOP_DPCM_TURBO"
      [] MaskType(flags) = 10 -> "LOOP_DPCM_HQ"
      [] MaskType(flags) = 12 -> "LOOP_DPCM_HQ_TURBO"
      [] OTHER                -> "None"

PlaybackLoops ==
    {"LOOP_PCM", "LOOP_PCM_TURBO", "LOOP_DPCM", "LOOP_DPCM_TURBO",
     "LOOP_DPCM_HQ", "LOOP_DPCM_HQ_TURBO"}

\* (mutants) the priority bits of both, and no comparison at all.
AcceptsHigherOnly(activeFlags, newFlags) ==
    MaskPriority(activeFlags) < MaskPriority(newFlags)

AcceptsAlways(activeFlags, newFlags) == newFlags >= 0

\* ProcessCommandInput2.Sample: the priority bits of the sample that plays
\* against the whole flags byte of the new one.
Accepts(activeFlags, newFlags) == MaskPriority(activeFlags) < newFlags
=============================================================================
