--------------------------- MODULE DriverHistory ---------------------------
(***************************************************************************)
(* What becomes of the commands the 68K writes.  The mailbox is one byte   *)
(* that both sides overwrite, so it does not tell a command the driver has *)
(* dealt with from one that was lost: two history variables record what    *)
(* the 68K wrote last and whether it could be lost.  They take no part in  *)
(* any guard; every behaviour of DriverControl is one of this module.      *)
(***************************************************************************)
EXTENDS DriverControl

VARIABLES
    written,    \* what the 68K last put into the mailbox
    crowded     \* ... while the driver could still overwrite it unread

history == <<written, crowded>>
varsH == <<vars, history>>

\* The driver has read a command, or is starting, and may yet reset the mailbox.
HasCommandInHand == request # NoCommand \/ pc \in {"PauseRestore", "InitDriver"}

InitH == Init /\ written = EntryByte /\ crowded = FALSE

WriteCommandH ==
    /\ WriteCommand
    /\ written' = commandInput' /\ crowded' = HasCommandInHand

LoadDriverH ==
    /\ LoadDriver
    /\ written' = commandInput' /\ crowded' = FALSE

NothingWritten ==
    /\ Z80 \/ SampleEnds \/ Interrupt \/ DriverLoaded \/ EnsureYMWriteReady \/ YMWriteReady
    /\ UNCHANGED history

NextH == WriteCommandH \/ LoadDriverH \/ NothingWritten

SpecH == InitH /\ [][NextH]_varsH

FairSpecH == SpecH /\ Fairness

-----------------------------------------------------------------------------
(* Commands.                                                               *)

\* "Only the last stored command will be processed" (docs/API.md:88): the driver
\* resets the mailbox only over the command it has read.
LastCommandProcessed ==
    [][Z80 /\ pc # "InitDriver" /\ commandInput' # commandInput
         => commandInput = request]_varsH

\* What it loses instead is a command the 68K stored while the driver had
\* another in hand, and no other: neither the idle loop, which leaves what it
\* does not take, nor a pause, which writes its own command back, loses one
\* that came while nothing was being handled.
CommandKept ==
    [][Z80 /\ pc # "InitDriver" /\ commandInput' # commandInput
         => commandInput = request \/ crowded]_varsH

Unknown(c) == ~IsSample(c) /\ c \notin {NoCommand, COMMAND_STOP, COMMAND_PAUSE}

\* A pause ends only if the 68K wrote an unpause last (or a byte that is no
\* command, or overwrote a command being handled): the reset of the mailbox
\* after a refused sample does not end it (loop-pause.asm:61-63).
PauseHolds == [][Unpause => written = NoCommand \/ Unknown(written) \/ crowded]_varsH

-----------------------------------------------------------------------------
(* Liveness, under FairSpecH.                                              *)

\* A command that was stored while nothing was being handled, and still waits.
Pending(c) == commandInput = c /\ written = c /\ ~crowded

\* The 68K has since stored another, or the same again over one in hand.
Superseded(c) == written # c \/ crowded

\* The top priority of the table.
Prevails(s) ==
    /\ Playable(Flags[s]) /\ LoopOf(Flags[s]) # "None"
    /\ \A t \in SampleIds : MaskPriority(Flags[t]) <= MaskPriority(Flags[s])

\* A stop left in the mailbox is obeyed: the driver comes to idle, from
\* playback, from a pause and from the end of a sample.
StopObeyed ==
    Pending(COMMAND_STOP) ~> loopId = "LOOP_IDLE" \/ Superseded(COMMAND_STOP)

\* A sample that no other outranks is played once it is in the mailbox, also
\* when the driver is paused or is playing the same sample.
PlayObeyed ==
    \A s \in SampleIds :
      Prevails(s) =>
        (Pending(s) ~>
           \/ active = s /\ loopId = LoopOf(Flags[s]) /\ request = NoCommand
           \/ Superseded(s))
=============================================================================
