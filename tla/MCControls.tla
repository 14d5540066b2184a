------------------------------ MODULE MCControls ----------------------------
(***************************************************************************)
(* The keys of DefaultInput.ini that move a player, and the ability's key, *)
(* with a button of the mouse bound to the ability next to it.             *)
(***************************************************************************)
EXTENDS Controls, TLC

Bound(handler, command, value) ==
  [handler |-> handler, command |-> command, value |-> value]

MCBinding ==
  ("W"      :> Bound("keyboard", "Forward", 1)) @@
  ("S"      :> Bound("keyboard", "Forward", -1)) @@
  ("D"      :> Bound("keyboard", "Right", 1)) @@
  ("Shift"  :> Bound("keyboard", "SpecialAbility", 1)) @@
  ("Mouse4" :> Bound("mouse", "SpecialAbility", 1))

=============================================================================
