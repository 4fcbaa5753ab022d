---------------------------- MODULE SampleStream ----------------------------
(***************************************************************************)
(* What a playback loop promises, whatever it does to keep the promise:    *)
(* from the moment a sample starts, the DAC receives its bytes in order,   *)
(* from the first to the last, each as often as its pitch asks but never   *)
(* none, and no byte that is not the sample's.  After the last byte a      *)
(* looping sample starts again and any other ends.  A sample can be        *)
(* replaced or stopped at any point.                                       *)
(***************************************************************************)
EXTENDS Integers

CONSTANTS
    Clips,      \* samples: [first, end, loop], end being one past the last byte
    NoClip

VARIABLES
    clip,       \* the sample playing, or NoClip
    next,       \* the byte it is at
    dac         \* the byte the DAC was sent last

svars == <<clip, next, dac>>

Init == clip = NoClip /\ next = 0 /\ dac = -1

Begin ==
    /\ clip' \in Clips
    /\ next' = clip'.first
    /\ UNCHANGED dac

\* Byte `next` is sent; it is sent again, or the one after it follows.
Send ==
    /\ clip # NoClip
    /\ next < clip.end
    /\ dac' = next
    /\ next' \in {next, next + 1}
    /\ UNCHANGED clip

Repeat ==
    /\ clip # NoClip
    /\ clip.loop
    /\ next = clip.end
    /\ next' = clip.first
    /\ UNCHANGED <<clip, dac>>

Finish ==
    /\ clip # NoClip
    /\ ~clip.loop
    /\ next = clip.end
    /\ clip' = NoClip /\ next' = 0
    /\ UNCHANGED dac

Cut ==
    /\ clip # NoClip
    /\ clip' = NoClip /\ next' = 0
    /\ UNCHANGED dac

Next == Begin \/ Send \/ Repeat \/ Finish \/ Cut

Spec == Init /\ [][Next]_svars
=============================================================================
