------------------------------- MODULE Picking -------------------------------
(* What can be pointed at: the queues RenderSystem fills with what the world *)
(* shows, the picture PickingPass paints of them with a colour for each      *)
(* entity, and ButtonSystem, which asks it what is under the mouse.  The     *)
(* weapons ask the same picture whom they hit.                               *)
(*                                                                           *)
(* Components and parents do not change; entities come and go, and are       *)
(* shown, hidden and faded.  Places are left out: any of the models may be   *)
(* in the frustum, jobs are queued in any order, and the mouse may be over   *)
(* anything in the picture.  Fill colours, matrices and lights are left out. *)
EXTENDS Integers, Sequences, FiniteSets, SequencesExt

CONSTANTS
    Entity,     \* ids of the world's entities; the editor's world has its own
    Parent,     \* each entity's parent, or None
    Has,        \* the components each entity has
    Team,       \* the Team of each that has one
    Groups,     \* the number of material groups of its model
    Glass,      \* the <<entity, group>> with a DiffuseColor that is not opaque
    Late,       \* the entities that are created later
    Widgets,    \* the entities of the editor's world
    Limit,      \* 255: the highest value of a channel of the picture
    MaxEntityChanges, \* bound on what happens to them
    None

\* A model has one group at least, and is told apart by three of them.  What is
\* shown when the camera or the player is none is not an entity of that name.
ASSUME PickingAssumption ==
    /\ Limit \in Nat \ {0}
    /\ IsFiniteSet(Entity)
    /\ None # "game" /\ None \notin Entity
    /\ Groups \in [Entity -> 1..3]
    /\ Late \subseteq Entity
    /\ Widgets \in Seq(Range(Widgets))

VARIABLES
    world,      \* the entities alive and those unborn; those shown, and those
                \* whose colour is not opaque now; the changes so far
    transparent,\* cModel["Transparent"]
    told,       \* SetCamera and PlayerSpawned events not read yet
    view,       \* m_CurrentCamera and m_LocalPlayer
    frame,      \* the scene's queues until they are drawn, and what was seen
    pass,       \* the members of PickingPass, with what it has painted
    button,     \* m_PickEntity and m_MouseIsLocked
    said,       \* the events of the ButtonSystem since the last frame that were
                \* published together last, and where the mouse was
    everFaded   \* history: what was once seen with a colour not opaque

pickingVars == <<world, transparent, told, view, frame, pass, button, said, everFaded>>

Spectator == 1
Nowhere == <<0, 0>>     \* what the picture is cleared to
Silence == [events |-> <<>>, at |-> Nowhere]
NoFrame == [ready |-> FALSE, opaque |-> <<>>, shielded |-> <<>>, sprites |-> <<>>, seen |-> {}]

NothingPainted == [counter |-> <<0, 1>>, colours |-> <<>>, owners |-> <<>>, picture |-> {}]

PickingInit ==
    /\ world = [alive |-> Entity \ Late, unborn |-> Late, shown |-> Entity, faded |-> {},
                changes |-> 0]
    /\ transparent = {}
    /\ told = [camera |-> None, player |-> None]
    /\ view = [camera |-> None, player |-> None]
    /\ frame = NoFrame
    /\ pass = NothingPainted
    /\ button = [pick |-> None, locked |-> FALSE]
    /\ said = Silence
    /\ everFaded = {}

Above[e \in Entity] == IF Parent[e] = None THEN {} ELSE {Parent[e]} \cup Above[Parent[e]]
Line(e) == {e} \cup Above[e]

------------------------------------------------------------------------------
(* RenderSystem. *)

\* Only what is under the current camera, or under none; and nothing of the local
\* player's that is hidden from him.
IsEntityVisible(e, v) ==
    /\ (\E a \in Above[e] : "Camera" \in Has[a]) => v.camera \in Line(e)
    /\ ~((\E a \in Line(e) : "HiddenForLocalPlayer" \in Has[a]) /\ v.player \in Line(e))

Visible(v) == {e \in world.alive \cap world.shown : IsEntityVisible(e, v)}

\* From the first group on that is not opaque a model is transparent, and stays
\* so in the frames to come.
Transparent(e, g) ==
    \/ e \in transparent \cup world.faded
    \/ \E h \in 1..g : <<e, h>> \in Glass

IsShielded(e) == Has[e] \cap {"Shielded", "Player"} # {}

\* The jobs of OpaqueObjects and OpaqueShieldedObjects: those of ShieldObjects
\* and TransparentObjects are not painted.
OpaqueJobs(models) ==
    {job \in {<<e, g>> : e \in models, g \in 1..3} :
        job[2] <= Groups[job[1]] /\ "Shield" \notin Has[job[1]] /\ ~Transparent(job[1], job[2])}

MadeTransparent(models) ==
    {e \in models : "Shield" \notin Has[e] /\ Transparent(e, Groups[e])}

\* The team of a sprite that is for one team only, and the local player's: who is
\* dead is given a new Team component, which is a spectator's.
TeamOf(e) ==
    LET with == {a \in Line(e) : "Team" \in Has[a]}
    IN IF with = {} THEN None
       ELSE Team[CHOOSE a \in with : \A b \in with : b \in Line(a)]

LocalTeam(v) == IF v.player \in world.alive THEN Team[v.player] ELSE Spectator

ForOthers(e, v) ==
    /\ "VisibleForSingleTeamOnly" \in Has[e]
    /\ TeamOf(e) # None /\ v.player # None
    /\ LocalTeam(v) \notin {TeamOf(e), Spectator}

SpriteJobs(v) == {e \in Visible(v) : "Sprite" \in Has[e] /\ ~ForOthers(e, v)}

Latest(news, old) == IF news = None THEN old ELSE news

Update ==
    /\ ~frame.ready
    /\ view' = [camera |-> Latest(told.camera, view.camera),
                player |-> Latest(told.player, view.player)]
    /\ told' = [camera |-> None, player |-> None]
    /\ \E models \in SUBSET {e \in Visible(view') : "Model" \in Has[e]} :
        LET jobs == OpaqueJobs(models)
            shielded == {job \in jobs : IsShielded(job[1])}
        IN /\ transparent' = transparent \cup MadeTransparent(models)
           /\ everFaded' = everFaded \cup
                {e \in models : e \in world.faded \/ \E g \in 1..Groups[e] : <<e, g>> \in Glass}
           /\ \E opaque \in SetToSeqs(jobs \ shielded), others \in SetToSeqs(shielded),
                 sprites \in SetToSeqs(SpriteJobs(view')) :
                frame' = [ready |-> TRUE, opaque |-> opaque, shielded |-> others,
                          sprites |-> sprites, seen |-> models]
    /\ said' = Silence
    /\ UNCHANGED <<world, pass, button>>

------------------------------------------------------------------------------
(* PickingPass. *)

\* Mutant: the colours given in the frame before are kept.
ClearPickingHalf == [NothingPainted EXCEPT !.colours = pass.colours]

ClearPicking == NothingPainted

\* The channel counts up to one more than the picture can hold.
Following(c) == IF c[1] > Limit THEN <<0, c[2] + 1>> ELSE <<c[1] + 1, c[2]>>

\* What the picture holds of a colour.
Held(channel) == IF channel > Limit THEN Limit ELSE channel
Texel(c) == <<Held(c[1]), Held(c[2])>>

With(f, x, y) == [z \in DOMAIN f \cup {x} |-> IF z = x THEN y ELSE f[z]]

\* An entity is known by its id, world and camera, whatever groups it has.
Paint(p, key) ==
    LET known == key \in DOMAIN p.colours
        c == IF known THEN p.colours[key] ELSE p.counter
    IN [counter |-> IF known THEN p.counter ELSE Following(p.counter),
        colours |-> With(p.colours, key, c),
        owners |-> With(p.owners, c, key),
        picture |-> p.picture \cup {[key |-> key, texel |-> Texel(c)]}]

\* A turn of one of the loops over the queues, which may pass the job over.
Turn(scene, e, painted) == [key |-> <<scene, e>>, painted |-> painted]

Pickable(e) == "Unpickable" \notin Has[e]
IsButton(e) == "Button" \in Has[e]

\* Mutant: what is not pickable ends the loop.
OpaqueTurnsUpTo ==
    [i \in DOMAIN frame.opaque |->
        Turn("game", frame.opaque[i][1], \A j \in 1..i : Pickable(frame.opaque[j][1]))]

OpaqueTurns ==
    [i \in DOMAIN frame.opaque |-> Turn("game", frame.opaque[i][1], Pickable(frame.opaque[i][1]))]

\* Of the shielded ones those that are not pickable are painted as well.
ShieldedTurns == [i \in DOMAIN frame.shielded |-> Turn("game", frame.shielded[i][1], TRUE)]

SpriteTurns ==
    [i \in DOMAIN frame.sprites |-> Turn("game", frame.sprites[i], IsButton(frame.sprites[i]))]

WidgetTurns == [i \in DOMAIN Widgets |-> Turn("editor", Widgets[i], TRUE)]

Painting(turns) ==
    LET after[i \in 0..Len(turns)] ==
            IF i = 0 THEN ClearPicking
            ELSE IF turns[i].painted THEN Paint(after[i - 1], turns[i].key) ELSE after[i - 1]
    IN after[Len(turns)]

\* Renderer::Draw, as far as it paints the picture: of the game's scene, then of
\* the editor's.
Draw ==
    /\ frame.ready
    /\ pass' = Painting(OpaqueTurns \o ShieldedTurns \o SpriteTurns \o WidgetTurns)
    /\ frame' = NoFrame
    /\ UNCHANGED <<world, transparent, told, view, button, said, everFaded>>

\* PickingPass::Pick, at a pixel that shows the texel.
Pick(texel) == IF texel \in DOMAIN pass.owners THEN pass.owners[texel] ELSE <<None, None>>
Pixels == {p.texel : p \in pass.picture} \cup {Nowhere}

------------------------------------------------------------------------------
(* ButtonSystem.  Its events are read before the next frame is put together. *)

\* Mutant: the id is looked up whatever world it is of.
UnderInAnyWorld(texel, type) ==
    LET key == Pick(texel)
    IN key[1] # None /\ key[2] \in world.alive /\ type \in Has[key[2]]

\* HasComponent of what was under the mouse, which may be gone or in another world.
Under(texel, type) ==
    LET key == Pick(texel)
    IN key[1] = "game" /\ key[2] \in world.alive /\ type \in Has[key[2]]

Event(is, e) == [is |-> is, entity |-> e]

OnMousePress(texel) ==
    /\ ~frame.ready /\ ~button.locked
    /\ Under(texel, "Button")
    /\ button' = [button EXCEPT !.pick = Pick(texel)[2]]
    /\ said' = [at |-> texel,
                events |-> <<Event(IF Under(texel, "InputCmdButton") THEN "InputCommand"
                                   ELSE "Pressed", Pick(texel)[2])>>]
    /\ UNCHANGED <<world, transparent, told, view, frame, pass, everFaded>>

\* The release goes to what was pressed last, whatever is under the mouse.
OnMouseRelease(texel) ==
    /\ ~frame.ready /\ ~button.locked
    /\ Pick(texel)[1] = "game"
    /\ said' = [at |-> texel,
                events |->
                    <<IF Under(texel, "InputCmdButton") THEN Event("InputCommand", Pick(texel)[2])
                      ELSE Event("Released", button.pick)>>
                    \o (IF Under(texel, "Button") /\ Pick(texel)[2] = button.pick
                        THEN <<Event("Clicked", button.pick)>> ELSE <<>>)]
    /\ UNCHANGED <<world, transparent, told, view, frame, pass, button, everFaded>>

LocksMouse(locked) ==
    /\ ~frame.ready
    /\ button' = [button EXCEPT !.locked = locked]
    /\ UNCHANGED <<world, transparent, told, view, frame, pass, said, everFaded>>

------------------------------------------------------------------------------
(* The rest of the game. *)

Changes(w) ==
    /\ ~frame.ready /\ world.changes < MaxEntityChanges
    /\ world' = [w EXCEPT !.changes = @ + 1]
    /\ UNCHANGED <<transparent, told, view, frame, pass, button, said, everFaded>>

DeleteEntity(e) ==
    e \in world.alive /\ Changes([world EXCEPT !.alive = {d \in @ : e \notin Line(d)}])

CreateEntity(e) ==
    /\ e \in world.unborn /\ Above[e] \subseteq world.alive
    /\ Changes([world EXCEPT !.alive = @ \cup {e}, !.unborn = @ \ {e}])

SetVisible(e) ==
    /\ e \in world.alive
    /\ Changes([world EXCEPT !.shown = IF e \in @ THEN @ \ {e} ELSE @ \cup {e}])

Fade(e) ==
    /\ e \in world.alive
    /\ Changes([world EXCEPT !.faded = IF e \in @ THEN @ \ {e} ELSE @ \cup {e}])

SetCamera(e) ==
    /\ ~frame.ready /\ e \in world.alive /\ "Camera" \in Has[e]
    /\ told' = [told EXCEPT !.camera = e]
    /\ UNCHANGED <<world, transparent, view, frame, pass, button, said, everFaded>>

\* PlayerSpawned with the id that stands for the local player.
PlayerSpawned(e) ==
    /\ ~frame.ready /\ e \in world.alive /\ "Player" \in Has[e]
    /\ told' = [told EXCEPT !.player = e]
    /\ UNCHANGED <<world, transparent, view, frame, pass, button, said, everFaded>>

PickingNext ==
    \/ Update
    \/ Draw
    \/ \E texel \in Pixels : OnMousePress(texel) \/ OnMouseRelease(texel)
    \/ \E locked \in BOOLEAN : LocksMouse(locked)
    \/ \E e \in Entity :
        \/ DeleteEntity(e) \/ CreateEntity(e) \/ SetVisible(e) \/ Fade(e)
        \/ SetCamera(e) \/ PlayerSpawned(e)

PickingSpec == PickingInit /\ [][PickingNext]_pickingVars

------------------------------------------------------------------------------
(* Properties. *)

PickingTypeOK ==
    /\ world.alive \cup world.unborn \subseteq Entity
    /\ transparent \cup everFaded \subseteq Entity
    /\ view \in [camera : Entity \cup {None}, player : Entity \cup {None}]
    /\ DOMAIN pass.colours = {p.key : p \in pass.picture}
    /\ button.pick \in Entity \cup {None}

\* Where an entity is painted, that entity is picked, with several groups of it,
\* scenes with the same ids and entities that are gone by then.  The last colour
\* of a row, which the picture cannot hold, is that of the entity before
\* (PickingPass.cpp:97); and there are no more rows than the picture can hold.
PickedAsDrawn ==
    \A p \in pass.picture :
        LET colour == pass.colours[p.key]
        IN colour[2] <= Limit =>
            Pick(p.texel) =
                IF colour[1] > Limit THEN pass.owners[<<Limit, colour[2]>>] ELSE p.key

\* Whoever is seen and has never been seen through can be hit: shields, glass and
\* what has once faded cannot.
TheSolidAreHit ==
    [][frame.ready /\ ~frame'.ready =>
        \A e \in frame.seen \ everFaded :
            "Shield" \notin Has[e] /\ (IsShielded(e) \/ "Unpickable" \notin Has[e])
                => \E p \in pass'.picture : p.key = <<"game", e>>]_pickingVars

\* A button is told of when it is there and the picture shows it where the mouse
\* is, and clicked when it is also the one that was pressed last.
ClicksAreMeant ==
    [][\A i \in DOMAIN said'.events :
        LET s == said'.events[i]
        IN said' # said /\ s.is # "Released" =>
            /\ s.entity \in world.alive
            /\ \E p \in pass.picture : p.key = <<"game", s.entity>> /\ p.texel = said'.at
            /\ s.is = "Clicked" => s.entity = button.pick]_pickingVars
=============================================================================
