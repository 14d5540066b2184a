----------------------------- MODULE MCRendering -----------------------------
(* Four machines that share nothing, checked in one run: a behaviour is one  *)
(* of the octree that a frame's models are taken from, of the passes that    *)
(* draw it, of the textures they draw into, or of the picture that entities  *)
(* are picked from, and the variables of the others keep still.              *)
EXTENDS Octree, Picking

CONSTANTS
    Sizes, Levels, Qualities,
    Models, Skinned, NrOfSplits, Settings

VARIABLES
    part,           \* whose behaviour it is
    mem, size, msaa, ssao, glow,
    gl, stage, scene, settings, queue, alone

T == INSTANCE RenderTargets
D == INSTANCE Drawing

targetVars == <<mem, size, msaa, ssao, glow>>
drawingVars == <<gl, stage, scene, settings, queue, alone>>

------------------------------------------------------------------------------
(* A level of eight units.  Boxes lie on borders of nodes, across several,   *)
(* within a leaf and outside the level; rays begin in and out of boxes and   *)
(* run along their sides.                                                    *)

Cube(x, y, z) == Box(<<x[1], y[1], z[1]>>, <<x[2], y[2], z[2]>>)

MCBoxes ==
    {Cube(x, y, <<3, 6>>) : x \in {<<0, 4>>, <<1, 3>>, <<3, 6>>}, y \in {<<1, 3>>, <<4, 5>>}}
        \cup {Cube(<<1, 3>>, <<4, 5>>, <<0, 2>>), Cube(<<6, 10>>, <<1, 3>>, <<0, 4>>),
              Cube(<<9, 10>>, <<1, 3>>, <<-3, -1>>)}

MCRays ==
    {[origin |-> <<0, 2, 5>>, direction |-> d] : d \in {<<1, 0, 0>>, <<1, 1, 0>>, <<1, 0, -1>>}}
    \cup {[origin |-> <<3, 5, 1>>, direction |-> d] : d \in {<<0, -1, 1>>, <<1, -1, 1>>, <<0, 0, 1>>}}
    \cup {[origin |-> <<7, 2, 4>>, direction |-> d] : d \in {<<-1, 0, 0>>, <<-1, 1, 0>>}}

Plane(n, d) == [normal |-> n, distance |-> d]
MCFrusta == {
    {Plane(<<1, 0, 0>>, -3), Plane(<<-1, 0, 0>>, 7), Plane(<<0, 1, 1>>, -6)},
    {Plane(<<1, 1, 0>>, -5), Plane(<<1, -1, 0>>, 1), Plane(<<-1, 0, 0>>, 6), Plane(<<0, 0, 1>>, -1),
     Plane(<<0, 0, -1>>, 6)},
    {Plane(<<-1, -1, -1>>, 12), Plane(<<1, 0, 0>>, 1)} }

------------------------------------------------------------------------------
\* Each setting is on in one of the two, but for the shadows, which are always
\* drawn.
MCSettings == {
    [msaa |-> FALSE, ssao |-> TRUE, bloom |-> TRUE, shadows |-> TRUE,
     transparent |-> TRUE, textured |-> TRUE],
    [msaa |-> TRUE, ssao |-> FALSE, bloom |-> FALSE, shadows |-> TRUE,
     transparent |-> FALSE, textured |-> FALSE]}

\* 1 the local player, 2 his model, 3 another player's model with two groups, 4 a
\* camera, 5 its button; the editor's widgets have ids of the game's entities.
MCEntity == 1..5
MCParent == [e \in MCEntity |-> CASE e = 2 -> 1 [] e = 5 -> 4 [] OTHER -> None]
MCHas == [e \in MCEntity |->
    CASE e = 1 -> {"Player", "Team"}
      [] e = 2 -> {"Model", "HiddenForLocalPlayer"}
      [] e = 3 -> {"Model", "Player", "Shielded", "Team"}
      [] e = 4 -> {"Camera", "Model", "Unpickable"}
      [] e = 5 -> {"Sprite", "Button"}]
MCTeam == [e \in MCEntity |-> IF e = 1 THEN 2 ELSE 3]
MCGroups == [e \in MCEntity |-> IF e = 3 THEN 2 ELSE 1]
MCGlass == {<<3, 2>>}
MCWidgets == <<5, 1>>

------------------------------------------------------------------------------
\* The settings count for the behaviours of their own machine only.
PartInit ==
    /\ part \in {"octree", "drawing", "targets", "picking"}
    /\ Init /\ T!Init /\ D!Init /\ PickingInit
    /\ part # "drawing" => settings.ssao
    /\ part # "targets" => size = 1 /\ msaa = 0 /\ ssao = 0 /\ glow = 0

Searches == part = "octree" /\ Next /\ UNCHANGED <<targetVars, drawingVars, pickingVars>>
Draws == part = "drawing" /\ D!Next /\ UNCHANGED <<vars, targetVars, pickingVars>>
Resizes == part = "targets" /\ T!Next /\ UNCHANGED <<vars, drawingVars, pickingVars>>
Picks == part = "picking" /\ PickingNext /\ UNCHANGED <<vars, targetVars, drawingVars>>

PartNext == (Searches \/ Draws \/ Resizes \/ Picks) /\ UNCHANGED part

PartSpec == PartInit /\ [][PartNext]_<<part, vars, targetVars, drawingVars, pickingVars>>

\* Drawing's property: what is drawn is drawn with what is its own, and from what
\* is not drawn into.
DrawingIsSound == D!DrawingIsSound

\* Drawing's property: a scene looks the same whatever was drawn before it.
LooksTheSame == D!LooksTheSame

\* RenderTargets' property: what is drawn into is current, and no object of the
\* graphics card is kept but those in use.
TargetsAreKept == T!TargetsAreKept
=============================================================================
