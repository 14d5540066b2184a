------------------------------- MODULE MCMatch -------------------------------
(* Three points, of which the pool visits Back's home first, and players    *)
(* named for their teams.                                                   *)
EXTENDS CapturePoint, TLC

BackFirst == <<2, 0, 1>>

MCTeamOf == [p \in Player |-> IF p = "blue" THEN "Blue" ELSE "Red"]
=============================================================================
