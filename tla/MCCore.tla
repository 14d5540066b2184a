------------------------------- MODULE MCCore -------------------------------
(* Two machines that share nothing, checked in one run: a behaviour is one  *)
(* of the main loop with its event broker, or of the resource manager with  *)
(* its threads, and the variables of the other keep still.                  *)
EXTENDS GameTick, Resources, TLC

VARIABLE part  (* whose behaviour it is *)

------------------------------------------------------------------------------
(* The tick: two system contexts, the second of which is unknown to the     *)
(* broker until a controller subscribes while the game runs.                *)

MCContext == {"InputManager", "InputProxy", "Network", "PlayerMovement", "Weapon"}
MCSystemContexts == <<"Weapon", "PlayerMovement">>
MCRelay == {"mouse", "handler", "client", "movement", "controller"}
MCInitialRelays == MCRelay \ {"controller"}
MCContextOf == [mouse |-> "InputManager", handler |-> "InputProxy",
                client |-> "Network", movement |-> "PlayerMovement",
                controller |-> "PlayerMovement"]
MCTypeOf == [mouse |-> "LockMouse", handler |-> "KeyDown", client |-> "InputCommand",
             movement |-> "InputCommand", controller |-> "LockMouse"]

------------------------------------------------------------------------------
(* The resources: two models that share a texture, with a sprite of the     *)
(* same image; the second model stands in for the first, and a white        *)
(* texture, which every model has, is there already. Any of the files that  *)
(* can fail to load may be broken.                                          *)

CONSTANTS model, raptor, rawModel, rawRaptor, texture, sprite, png, white

MCResource == {model, raptor, rawModel, rawRaptor, texture, sprite, png, white}
MCUnsafe == {model, raptor, texture, sprite, white}

Later(r) == [on |-> r, async |-> TRUE, try |-> FALSE]
Try(r) == [on |-> r, async |-> FALSE, try |-> TRUE]

MCNeeds ==
  model :> <<Later(rawModel), Try(texture), Try(white)>>
  @@ raptor :> <<Later(rawRaptor), Try(texture), Try(white)>>
  @@ texture :> <<Later(png)>> @@ sprite :> <<Later(png)>>
  @@ [r \in {rawModel, rawRaptor, png, white} |-> <<>>]

MCFrees ==
  model :> {rawModel} @@ raptor :> {rawRaptor} @@ texture :> {png} @@ sprite :> {png}
  @@ [r \in {rawModel, rawRaptor, png, white} |-> {}]

MCWanted == {model, raptor, sprite}

MCInsteadOf ==
  model :> [still |-> {raptor}, failed |-> {raptor}]
  @@ raptor :> [still |-> {raptor}, failed |-> {raptor}]
  @@ sprite :> [still |-> {texture}, failed |-> {}]

MCPreloaded == {white}

MCFaults == {{}, {rawModel}, {rawRaptor}, {png}, {texture}}

------------------------------------------------------------------------------
CoreInit ==
  /\ TickInit /\ ResourcesInit
  /\ \/ part = "tick" /\ UseThreading /\ broken = {}
     \/ part = "resources"

CoreNext ==
  /\ UNCHANGED part
  /\ \/ part = "tick" /\ TickNext /\ UNCHANGED resourceVars
     \/ part = "resources" /\ ResourcesNext /\ UNCHANGED tickVars

(* The fairness of the two machines, each for its own behaviours. *)
CoreSpec ==
  /\ CoreInit /\ [][CoreNext]_<<part, tickVars, resourceVars>>
  /\ WF_tickVars(part = "tick" /\ TickStep)
  /\ WF_resourceVars(part = "resources" /\ MainStep)
  /\ \A w \in Workers : WF_resourceVars(part = "resources" /\ Step(w))

(* EveryLoadSettles, in the behaviours of the resource manager: whatever a  *)
(* frame shows is loaded some time, or known to be broken.                  *)
ShownIsLoaded == part = "resources" => EveryLoadSettles
=============================================================================
