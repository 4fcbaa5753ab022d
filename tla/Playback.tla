------------------------------ MODULE Playback ------------------------------
(***************************************************************************)
(* What the driver promises about samples, without interrupts, stacks or   *)
(* mailboxes: one sample plays at a time; another takes its place only if  *)
(* its priority is the same or higher; a pause keeps what was playing and  *)
(* unpausing resumes exactly that; a stop or the end of the sample leaves  *)
(* the driver idle.                                                        *)
(***************************************************************************)
EXTENDS SampleFlags

CONSTANTS
    SampleIds,
    Flags

VARIABLES
    mode,       \* "Starting", "Idle", "Playing" or "Paused"
    sample,     \* the sample that plays, is paused, or played last
    loop        \* the loop that plays it, "None" outside Playing and Paused

playbackVars == <<mode, sample, loop>>

Init == mode = "Starting" /\ sample = 0 /\ loop = "None"

Started == mode = "Starting" /\ mode' = "Idle" /\ UNCHANGED <<sample, loop>>

Play(s) ==
    /\ \/ mode = "Idle"
       \/ /\ mode \in {"Playing", "Paused"}
          /\ MaskPriority(Flags[s]) >= MaskPriority(Flags[sample])
    /\ LoopOf(Flags[s]) # "None"
    /\ mode' = "Playing" /\ sample' = s /\ loop' = LoopOf(Flags[s])

Pause == mode = "Playing" /\ mode' = "Paused" /\ UNCHANGED <<sample, loop>>

Unpause == mode = "Paused" /\ mode' = "Playing" /\ UNCHANGED <<sample, loop>>

\* A stop, or the end of a sample.
Silence ==
    /\ mode \in {"Playing", "Paused"}
    /\ mode' = "Idle" /\ loop' = "None"
    /\ UNCHANGED sample

\* The driver is loaded again: nothing is kept.
Restart ==
    /\ mode' = "Starting" /\ loop' = "None"
    /\ sample' \in {sample, 0}

Next ==
    \/ Started \/ Restart
    \/ Pause \/ Unpause \/ Silence
    \/ \E s \in SampleIds : Play(s)

Spec == Init /\ [][Next]_playbackVars
=============================================================================
