--------------------------- MODULE MCPresentation ---------------------------
(* Machines that share nothing, checked in one run: a behaviour is one of    *)
(* the player's model, or of the sound manager, or it holds one of the       *)
(* sample trees of BlendTree, and the variables of the others keep still.    *)
(*                                                                           *)
(* The sound manager has two sets of bounds.  No handler of a sound reads    *)
(* what one of the music writes, so that many sounds need no music besides,  *)
(* and the music, with any number of cameras, only a few sounds.             *)
EXTENDS Animation

CONSTANTS
    MaxLives, MaxPresses, None,
    MaxSounds, MaxEvents,               \* without music
    SoundsWithMusic, EventsWithMusic

VARIABLES
    part,           \* whose behaviour it is
    sample,         \* the tree that is posed
    al, kind, sources, emitters, owner, bgm, combo, localPlayer, life, heard, presses, events

S == INSTANCE Sound WITH alive <- heard, Cameras <- {}
M == INSTANCE Sound WITH alive <- heard, Cameras <- {"menu", "pick", "end"},
        MaxSounds <- SoundsWithMusic, MaxEvents <- EventsWithMusic

soundVars == <<al, kind, sources, emitters, owner, bgm, combo, localPlayer, life, heard,
               presses, events>>

\* The lower body of the player's model (PlayerAssaultRed.xml), with one
\* dash of two, and its upper body as one animation.
\*   <<node, name, first child, second child>>
inner == {
    <<"Lower", "BlendTreeLower", "Movement", "JumpDash">>,
    <<"Movement", "MovementBlend", "Stand", "Crouch">>,
    <<"Stand", "StandMovement", "StandDirection", "StandIdle">>,
    <<"Crouch", "CrouchMovement", "CrouchDirection", "CrouchIdle">>,
    <<"StandDirection", "DirectionBlend", "RunWalk", "StandStrafe">>,
    <<"CrouchDirection", "DirectionBlend", "CrouchWalk", "CrouchStrafe">>,
    <<"RunWalk", "RunWalkBlend", "StandWalk", "StandRun">>,
    <<"StandStrafe", "StrafeLRBlend", "StandLeft", "StandRight">>,
    <<"CrouchStrafe", "StrafeLRBlend", "CrouchLeft", "CrouchRight">>,
    <<"JumpDash", "JumpDashBlend", "Jump", "Dash">>,
    <<"Dash", "DashBlend", "DashFB", "DashLR">>,
    <<"DashFB", "DashFBBlend", "DashForward", "DashBackward">>,
    <<"DashLR", "DashLRBlend", "DashLeft", "DashRight">> }

leaf == {
    <<"Upper", "Upper">>,
    <<"StandIdle", "Idle">>, <<"CrouchIdle", "Idle">>, <<"StandWalk", "Walk">>,
    <<"CrouchWalk", "Walk">>, <<"StandRun", "Run">>, <<"StandLeft", "Left">>,
    <<"StandRight", "Right">>, <<"CrouchLeft", "Left">>, <<"CrouchRight", "Right">>,
    <<"Jump", "Jump">>, <<"DashForward", "DashForward">>, <<"DashBackward", "DashBackward">>,
    <<"DashLeft", "DashLeft">>, <<"DashRight", "DashRight">> }

MCNodes == {x[1] : x \in inner \cup leaf} \cup {"Model"}
MCChild == [n \in MCNodes |->
    IF n = "Model" THEN <<"Upper", "Lower">>
    ELSE IF \E x \in inner : x[1] = n
         THEN LET x == CHOOSE y \in inner : y[1] = n IN <<x[3], x[4]>>
         ELSE <<NoNode, NoNode>>]
MCParent == [n \in MCNodes |->
    IF n = "Model" THEN NoNode
    ELSE CHOOSE m \in MCNodes : MCChild[m][1] = n \/ MCChild[m][2] = n]
MCName == [n \in MCNodes |->
    IF n = "Model" THEN n ELSE (CHOOSE x \in inner \cup leaf : x[1] = n)[2]]
MCKind == [n \in MCNodes |->
    IF n = "Model" THEN "Override"
    ELSE IF \E x \in inner : x[1] = n THEN "Blend" ELSE "Animation"]
MCLength == [n \in MCNodes |->
    IF n = "Jump" THEN 3
    ELSE IF n \in {"DashForward", "DashBackward", "DashLeft", "DashRight"} THEN 2 ELSE 0]

MCTree == [nodes |-> MCNodes, root |-> "Model", parent |-> MCParent, child |-> MCChild,
           name |-> MCName, kind |-> MCKind, sub |-> {"Lower", "Movement", "JumpDash"},
           length |-> MCLength]

MCDuration == [n \in {MCName[x] : x \in MCNodes} |->
    CASE n \in {"StandMovement", "CrouchMovement", "MovementBlend", "Jump"} -> 2
      [] OTHER -> 1]

\* The queues whose jobs set a weight of another's are those of the jump, of the
\* dashes and of the way back: they come in any order.
MCAir == {"Lower", "JumpDash", "DashFB", "DashLR"}
MCGround == {"Movement", "Stand", "Crouch"}
MCOrders == [keys \in SUBSET (MCAir \cup MCGround) |->
    {order \o SetToSeq(keys \cap MCGround) : order \in SetToSeqs(keys \cap MCAir)}]

------------------------------------------------------------------------------
(* The trees of at most five nodes: every shape, with every choice of an     *)
(* inner node's kind and of the animations the skeleton knows.               *)

Shapes(size) ==
    {f \in [2..size -> (1..size) \X {1, 2}] :
        /\ \A n \in 2..size : f[n][1] < n
        /\ \A n, m \in 2..size : f[n] = f[m] => n = m}

TreesOf(size, shape) ==
    LET inside == {shape[n][1] : n \in 2..size}
        ChildOf(n, i) == IF \E m \in 2..size : shape[m] = <<n, i>>
                         THEN CHOOSE m \in 2..size : shape[m] = <<n, i>> ELSE NoNode
    IN {[nodes |-> 1..size, root |-> 1, sub |-> {},
         parent |-> [n \in 1..size |-> IF n = 1 THEN NoNode ELSE shape[n][1]],
         child |-> [n \in 1..size |-> <<ChildOf(n, 1), ChildOf(n, 2)>>],
         name |-> [n \in 1..size |-> <<"a", "b", "c", "d", "e">>[n]],
         kind |-> [n \in 1..size |-> IF n \in inside THEN kinds[n] ELSE "Animation"],
         known |-> [n \in 1..size |-> n \in known]] :
            kinds \in [inside -> {"Blend", "Additive"}],
            known \in SUBSET ((1..size) \ inside)}

SmallTrees == UNION {UNION {TreesOf(n, f) : f \in Shapes(n)} : n \in 2..5}

\* The pose of a tree, said without a walk over it.
PoseBelow(t) ==
    LET pose[n \in t.nodes] ==
          LET a == IF t.child[n][1] = NoNode THEN <<>> ELSE pose[t.child[n][1]]
              b == IF t.child[n][2] = NoNode THEN <<>> ELSE pose[t.child[n][2]]
          IN IF t.kind[n] = "Animation" THEN IF t.known[n] THEN <<t.name[n]>> ELSE <<>>
             ELSE IF a = <<>> \/ b = <<>> THEN a \o b
             ELSE <<t.kind[n]>> \o a \o b
    IN pose

------------------------------------------------------------------------------
PartInit ==
    /\ Init
    /\ \/ part \in {"model", "sound", "music"} /\ sample = NoNode
       \/ part = "tree" /\ sample \in SmallTrees
    /\ IF part = "music" THEN M!Init ELSE S!Init

Model == part = "model" /\ Next /\ UNCHANGED soundVars
Sounds == part = "sound" /\ S!Next /\ UNCHANGED vars
Music == part = "music" /\ M!Next /\ UNCHANGED vars

PartNext ==
    \/ (Model \/ Sounds \/ Music) /\ UNCHANGED <<part, sample>>
    \/ part = "tree" /\ UNCHANGED <<part, sample, vars, soundVars>>

\* The fairness of the machines, each for its own behaviours; the music needs none.
PartSpec ==
    /\ PartInit /\ [][PartNext]_<<part, sample, vars, soundVars>>
    /\ WF_vars(part = "model" /\ Update)
    /\ WF_<<soundVars>>(part = "sound" /\ S!Update)
    /\ \A n \in 1..MaxSounds : WF_<<soundVars>>(part = "sound" /\ S!Finish(n))

\* Sound's property: music that nothing could stop any more is never left playing.
OnlyCurrentMusicPlays == part = "music" => M!OnlyCurrentMusicPlays

\* Sound's property: a sound of an entity is freed when it has finished or when
\* the entity is gone, unless a pause holds it.
SoundsAreFreed == part = "sound" => S!SoundsAreFreed

\* The rounds that pose a tree come to an end with the pose the tree stands for,
\* with what cannot be animated left out, whatever its shape: the walk reaches
\* every node though it starts at a leaf and follows parents and right children.
PosesAreComputed ==
    part = "tree" => Blend(FillTree(sample)) = PoseBelow(sample)[sample.root]
=============================================================================
