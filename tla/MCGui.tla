------------------------------- MODULE MCGui --------------------------------
(***************************************************************************)
(* Gui for TLC.  Two tests can overlap when the engine is switched off and *)
(* on again while the first one runs.                                      *)
(***************************************************************************)
EXTENDS Gui
=============================================================================
