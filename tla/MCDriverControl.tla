-------------------------- MODULE MCDriverControl --------------------------
(***************************************************************************)
(* Small instances of DriverControl, with its history, for TLC.            *)
(*                                                                         *)
(* Three samples meet every case of the priority rule: a drum of normal    *)
(* priority, a looping turbo sample of the same priority and a DPCM sound  *)
(* effect.  Slot 128 is the dynamic slot, empty until the 68K fills it.    *)
(***************************************************************************)
EXTENDS DriverHistory

Record(kind, priority, loop) == 128 + priority + kind + loop

Drum == 129
Loop == 130
Sfx == 131
Dynamic == 128

MCFlags == [id \in SampleIds |->
    CASE id = Dynamic -> 0
      [] id = Drum -> Record(2, 16, 0)
      [] id = Loop -> Record(8, 16, 1)
      [] id = Sfx -> Record(10, 80, 0)]

\* A drum is all it takes.
DrumFlags == Drum :> Record(2, 16, 0)
=============================================================================
