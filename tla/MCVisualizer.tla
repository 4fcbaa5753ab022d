---------------------------- MODULE MCVisualizer ----------------------------
(***************************************************************************)
(* A short TV frame for model checking: a VBlank signal longer than one    *)
(* instruction, a few DAC writes per frame, some of them within one sample *)
(* period and some several periods apart.                                  *)
(***************************************************************************)
EXTENDS Visualizer

MCStretches == {45}
MCValues    == {200}
MCPans      == {<<FALSE, TRUE>>}
=============================================================================
