---------------------------- MODULE MCPlayerLife ----------------------------
(* Two machines that share nothing, checked in one run: a behaviour is one  *)
(* of the spawning and dying of two players on the server, or of the        *)
(* triggers of a pickup on its map, and the variables of the other keep     *)
(* still.                                                                   *)
EXTENDS PlayerLife, Pickups

CONSTANT MaxMessages

VARIABLE part        (* whose behaviour it is *)

PartInit ==
  /\ Init /\ PickupsInit
  /\ \/ part = "life" /\ kind = "health"
     \/ part = "pickups"

PartNext ==
  /\ UNCHANGED part
  /\ \/ /\ part = "life" /\ Next /\ UNCHANGED pickupVars
        /\ commands' + hits' <= MaxMessages
     \/ part = "pickups" /\ PickupsNext /\ UNCHANGED vars

(* The main loop never stops ticking. *)
PartSpec ==
  /\ PartInit /\ [][PartNext]_<<part, vars, pickupVars>>
  /\ WF_vars(part = "life" /\ TickStep)
=============================================================================
