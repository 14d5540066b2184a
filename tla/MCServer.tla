------------------------------ MODULE MCServer ------------------------------
(* Two machines that share nothing, checked in one run: a behaviour is one  *)
(* of the server's world of entities, or of its sessions with the clients,  *)
(* and the variables of the other keep still.                               *)
EXTENDS World, ServerSession

VARIABLE part     (* whose behaviour it is *)

(* An entity file of two entities, the second below the first, with a       *)
(* component.                                                               *)
MCTemplateParent == [e \in 0 .. 1 |-> IF e = 0 THEN EntityID_Invalid ELSE 0]
MCTemplateComponents == {<<"Model", 1>>}

ServerInit ==
  /\ Init /\ SessionInit
  /\ \/ part = "world" /\ server.start = 0
     \/ part = "sessions"

ServerNext ==
  /\ UNCHANGED part
  /\ \/ part = "world" /\ Next /\ UNCHANGED sessionVars
     \/ part = "sessions" /\ SessionNext /\ UNCHANGED vars

ServerSpec == ServerInit /\ [][ServerNext]_<<part, vars, sessionVars>>
=============================================================================
