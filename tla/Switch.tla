------------------------------- MODULE Switch -------------------------------
(***************************************************************************)
(* What the engine promises the rest of the machine: an on/off switch that *)
(* puts its rules on top of whatever the OUTPUT chain holds, in one step,  *)
(* and takes them off again, in one step.  A switch that fails to turn on  *)
(* has done nothing.                                                       *)
(***************************************************************************)
EXTENDS Sequences

CONSTANT Ours     \* the engine's rules, top first

VARIABLES on, rules

SwitchInit == on = FALSE

TurnOn  == on = FALSE /\ on' = TRUE /\ rules' = Ours \o rules

TurnOff == on = TRUE /\ on' = FALSE /\ rules = Ours \o rules'

SwitchSpec == SwitchInit /\ [][TurnOn \/ TurnOff]_<<on, rules>>

=============================================================================
