------------------------------- MODULE Drawing -------------------------------
(* How a frame is drawn: Renderer::Draw, the passes it runs for the scenes   *)
(* of a frame, and the state of the graphics library they share.             *)
(*                                                                           *)
(* The library (external) is a function of its settings, and a pass is a     *)
(* sequence of commands that change them.  A RenderState (RenderState.cpp)   *)
(* records how to undo what is changed through it and does so when it is     *)
(* deleted; what is changed past it stays changed.  The jobs of a queue come *)
(* in any order and number, and every scene may be any scene.  Shapes,       *)
(* colours and the contents of the textures are left out: a texture is a     *)
(* name, and the textures of a job are "job" until the next one, then "old". *)
EXTENDS Integers, Sequences, FiniteSets, SequencesExt

CONSTANTS
    Models,     \* models that jobs draw; the screen quad's id is 0
    Skinned,    \* those with a skeleton
    NrOfSplits, \* m_CurrentNrOfSplits: how often a scene's shadows are drawn
    Settings    \* what the debug menu and the configuration choose

VARIABLES
    gl,         \* the library, the RenderStates alive and what was just drawn
    stage,      \* the part of the frame that is drawn
    scene,      \* the scene's ClearDepth, and whether it blurs
    settings,   \* the settings of this frame
    queue,      \* the locals of the queue that is drawn: lastShader, lastModel,
                \* the split of the shadows, and whether a flat sprite was among
                \* its jobs
    alone       \* what gl would be if the scene had no jobs and were the first

vars == <<gl, stage, scene, settings, queue, alone>>

Quad == 0       \* the first model that is loaded gets the first id
Glyphs == -1
Gui == -2
NoModel == -3
SpriteQuad == -4

Plain(name) == [name |-> name, splat |-> FALSE, skinned |-> FALSE, check |-> FALSE]
NoShader == Plain("none")

Caps == {"BLEND", "DEPTH_TEST", "CULL_FACE", "STENCIL_TEST", "SCISSOR_TEST", "ALPHA_TEST"}
\* Texture units; 1 stands for 1-4, 5 for 5-13, and cube and flat textures of a
\* unit are bound apart.
Units == {"t0", "t1", "t5", "t5cube", "t24", "t30", "t31", "t31cube"}

Default ==
    [f \in Caps |-> FALSE] @@ [f \in Units |-> "none"] @@
    [read |-> "window", draw |-> "window", depthMask |-> TRUE, stencilMask |-> "all",
     stencilFunc |-> "ALWAYS", stencilOp |-> "KEEP", blendFunc |-> "ONE", alphaFunc |-> "ALWAYS",
     cullFace |-> "BACK", viewport |-> "screen", program |-> NoShader, vao |-> NoModel]

------------------------------------------------------------------------------
(* Commands, as <<what, field, value>>. *)

Gl(field, value) == <<"gl", field, value>>              \* a call past any RenderState
Enable(cap) == <<"cap", cap, TRUE>>
Disable(cap) == <<"cap", cap, FALSE>>
Keep(field, value) == <<"keep", field, value>>          \* BlendFunc, DepthMask, ...
BindFramebuffer(fb) == <<"framebuffer", fb, "">>
StencilMask(mask) == <<"mask", "stencilMask", mask>>
CullFace(mode) == <<"face", "cullFace", mode>>
NewState == <<"new", "", "">>
DeleteState == <<"delete", "", "">>
Bind(fb) == <<"bind", fb, "">>                          \* FrameBuffer::Bind
Use(program) == <<"use", "", program>>
Give(program, what) == <<"give", program, what>>        \* its uniforms
NextJob == <<"job", "", "">>
NextScene == <<"scene", "", "">>
DrawIt(what, job) == <<"draw", what, job>>

Pushed(g, commands) ==
    IF g.guards = <<>> THEN g
    ELSE [g EXCEPT !.guards[Len(g.guards)] = @ \o commands]

\* A change through the newest RenderState, with what undoes it.
Change(g, field, value, undo) ==
    [Pushed(g, <<Gl(field, undo)>>) EXCEPT !.v[field] = value]

\* What the textures of the job before are for the next one.
Aged(v) ==
    LET Age(held) == IF held \in {"job", "mixed"} THEN "old" ELSE held
    IN [v EXCEPT !.t0 = Age(@), !.t1 = Age(@), !.t5 = Age(@), !.t24 = Age(@)]

\* The destructor of RenderState: in reverse.
Undone(g) ==
    [g EXCEPT !.guards = Front(g.guards),
              !.v = FoldLeft(LAMBDA v, c : [v EXCEPT ![c[2]] = c[3]], g.v,
                             Reverse(Last(g.guards)))]

Exec(g, c) ==
    CASE c[1] = "gl" -> [g EXCEPT !.v[c[2]] = c[3]]
      [] c[1] = "cap" -> IF g.v[c[2]] = c[3] THEN g ELSE Change(g, c[2], c[3], g.v[c[2]])
      [] c[1] = "keep" -> Change(g, c[2], c[3], g.v[c[2]])
      \* It is undone by setting the same mask again.
      [] c[1] = "mask" -> Change(g, c[2], c[3], c[3])
      [] c[1] = "face" -> IF g.v["CULL_FACE"] THEN Change(g, c[2], c[3], g.v[c[2]]) ELSE g
      [] c[1] = "framebuffer" ->
            Change(Change(g, "read", c[2], g.v.read), "draw", c[2], g.v.draw)
      [] c[1] = "bind" -> [g EXCEPT !.v.read = c[2], !.v.draw = c[2]]
      [] c[1] = "new" -> [g EXCEPT !.guards = Append(@, <<>>)]
      [] c[1] = "delete" -> Undone(g)
      \* Nothing is counted on that another queue gave this program before.
      [] c[1] = "use" -> [g EXCEPT !.v.program = c[3], !.given = {}]
      [] c[1] = "give" -> IF g.v.program = c[2] THEN [g EXCEPT !.given = @ \cup {c[3]}] ELSE g
      [] c[1] = "job" -> [g EXCEPT !.v = Aged(@), !.given = @ \ {"job", "bones"}]
      [] c[1] = "scene" -> [g EXCEPT !.given = {}]
      [] c[1] = "draw" ->
            [g EXCEPT !.drawn = Append(@, [what |-> c[2], job |-> c[3], v |-> g.v,
                                           given |-> g.given])]

\* What a step does, with only its own draws kept.
Run(g, commands) == FoldLeft(Exec, [g EXCEPT !.drawn = <<>>], commands)

------------------------------------------------------------------------------
(* Jobs. *)

NoJob == [explosion |-> FALSE, splat |-> FALSE, shielded |-> FALSE, model |-> NoModel]
Jobs == [explosion : BOOLEAN, splat : BOOLEAN, shielded : BOOLEAN, model : Models]
IsSkinned(job) == job.model \in Skinned

\* A sprite is flat (Depth 0) or sorted by its depth.
Sprites == {[NoJob EXCEPT !.shielded = flat, !.model = SpriteQuad] : flat \in BOOLEAN}
Flat(sprite) == sprite.shielded

Checked(s) == s \in {"shielded", "transparent"}

ProgramFor(s, job) ==
    CASE s = "picking" -> [Plain("Picking") EXCEPT !.skinned = IsSkinned(job)]
      [] s \in {"shadow", "shadowTransparent"} ->
            [Plain("Shadow") EXCEPT !.skinned = IsSkinned(job)]
      [] s = "shields" -> [Plain("FillDepthStencilBuffer") EXCEPT !.skinned = IsSkinned(job)]
      [] s = "pickSprites" -> Plain("Picking")
      [] s = "sprites" -> Plain("Sprite")
      [] s = "text" -> Plain("Text")
      [] OTHER -> [name |-> IF job.explosion THEN "ExplosionEffect" ELSE "ForwardPlus",
                   splat |-> job.splat, skinned |-> IsSkinned(job),
                   check |-> Checked(s) /\ job.shielded]

\* The units that the shaders of a program read, as they declare them.
Reads(p) ==
    CASE p.name \in {"ForwardPlus", "ExplosionEffect"} ->
            {"t0", "t1"} \cup (IF p.splat THEN {"t5"} ELSE {"t5cube"})
                \cup (IF ~p.check THEN {"t30"} ELSE IF p.splat THEN {"t31cube"} ELSE {"t31"})
      [] p.name = "Sprite" -> {"t1"}
      [] p.name = "Shadow" -> {"t24"}
      [] p.name \in {"ColorCorrection", "CombineTextures"} -> {"t0", "t1"}
      [] p.name \in {"GaussianHoriz", "GaussianVert", "GaussianCombine", "SSAO", "SSAOViewSpaceZ",
                     "Text", "ImGui"} -> {"t0"}
      [] OTHER -> {}

------------------------------------------------------------------------------
(* The scripts of the jobs. *)

Bones(s, job) ==
    IF ~IsSkinned(job) THEN <<>>
    \* The branch of the unshielded asks the wrong program for the place.
    ELSE IF Checked(s) /\ job.splat /\ ~job.explosion /\ ~job.shielded
         THEN <<Give([ProgramFor(s, job) EXCEPT !.splat = FALSE], "bones")>>
    ELSE <<Give(ProgramFor(s, job), "bones")>>

\* Binds the program unless it was the last job's, then gives it the scene's.
Shader(s, job) ==
    LET p == ProgramFor(s, job)
    IN IF queue.shader = p THEN <<>> ELSE <<Use(p), Give(p, "scene")>>

Buffers(job) == IF queue.model = job.model THEN <<>> ELSE <<Gl("vao", job.model)>>

\* BindModelTextures, and the cube map the queues bind themselves.
BindModelTextures(job) ==
    IF job.splat THEN <<Gl("t1", "job"), Gl("t5", "job")>>
    ELSE <<Gl("t1", "job"), Gl("t5cube", "cube")>>

\* BindExplosionTextures: the textures of the splats are bound from unit 1 on,
\* where the shader has the splat map.
BindExplosionTextures(job) ==
    IF job.splat THEN <<Gl("t1", "mixed"), Gl("t5", "mixed")>>
    ELSE <<Gl("t1", "job"), Gl("t5cube", "cube")>>

ForwardJob(s, job) ==
    Shader(s, job) \o <<Give(ProgramFor(s, job), "job")>> \o BindModelTextures(job)
        \o Bones(s, job) \o Buffers(job) \o <<DrawIt(s, job)>>

\* An explosion shows both sides of what it blows up.
ExplosionJob(s, job) ==
    Shader(s, job) \o <<Give(ProgramFor(s, job), "job")>> \o BindExplosionTextures(job)
        \o Bones(s, job) \o <<Gl("CULL_FACE", FALSE)>> \o Buffers(job)
        \o <<DrawIt(s, job), Gl("CULL_FACE", TRUE)>>

ModelJob(s, job) == IF job.explosion THEN ExplosionJob(s, job) ELSE ForwardJob(s, job)

\* Mutant: the bones are given only when the program is bound.
PickingJobBonesOnce(s, job) ==
    LET p == ProgramFor(s, job)
    IN (IF queue.shader = p THEN <<>> ELSE <<Use(p)>> \o Bones(s, job))
        \o <<Give(p, "job"), Give(p, "scene")>> \o Buffers(job) \o <<DrawIt(s, job)>>

PickingJob(s, job) ==
    LET p == ProgramFor(s, job)
    IN (IF queue.shader = p THEN <<>> ELSE <<Use(p)>>) \o <<Give(p, "job"), Give(p, "scene")>>
        \o Bones(s, job) \o Buffers(job) \o <<DrawIt(s, job)>>

\* DrawToDepthStencilBuffer binds the model's buffers for every job.
ShieldJob(s, job) ==
    LET p == ProgramFor(s, job)
    IN (IF queue.shader = p THEN <<>> ELSE <<Use(p)>>) \o <<Give(p, "job"), Give(p, "scene")>>
        \o Bones(s, job) \o <<Gl("vao", job.model), DrawIt(s, job)>>

\* Opaque jobs do not touch the unit their shader reads the texture's alpha from.
ShadowTexture(s, job) ==
    IF s = "shadowTransparent" /\ settings.textured
    THEN <<Gl("t24", IF job.splat THEN "white" ELSE "job")>> ELSE <<>>

\* lastModel of ShadowPass::Draw is never assigned.
ShadowJob(s, job) ==
    LET p == ProgramFor(s, job)
    IN (IF queue.shader = p THEN <<>> ELSE <<Use(p)>>) \o Bones(s, job)
        \o <<Give(p, "job"), Give(p, "scene")>> \o ShadowTexture(s, job)
        \o <<Gl("vao", job.model), DrawIt(s, job)>>

PickSprite(s, job) ==
    <<NewState>> \o (IF Flat(job) THEN <<Disable("DEPTH_TEST")>> ELSE <<>>)
        \o <<Give(Plain("Picking"), "job"), Give(Plain("Picking"), "scene"),
             Gl("vao", job.model), DrawIt(s, job), DeleteState>>

\* The test of the depth stays off for the sprites after a flat one.
SpriteJob(s, job) ==
    (IF Flat(job) THEN <<Disable("DEPTH_TEST")>> ELSE <<>>)
        \o <<Give(Plain("Sprite"), "job"), Gl("t1", "job"), Gl("vao", job.model), DrawIt(s, job)>>

\* TextPass::renderText, one character for all.
RenderText(s, job) ==
    <<Use(Plain("Text")), Give(Plain("Text"), "scene"), Give(Plain("Text"), "job"),
      Gl("vao", Glyphs), Gl("t0", "job"), DrawIt(s, job), Gl("vao", NoModel), Gl("t0", "none")>>

JobScript(s, job) ==
    <<NextJob>> \o
    CASE s = "picking" -> PickingJob(s, job)
      [] s = "pickSprites" -> PickSprite(s, job)
      [] s \in {"shadow", "shadowTransparent"} -> ShadowJob(s, job)
      [] s = "shields" -> ShieldJob(s, job)
      [] s = "sprites" -> SpriteJob(s, job)
      [] s = "text" -> RenderText(s, job)
      [] OTHER -> ModelJob(s, job)

\* The jobs a queue may hold.
Queue(s) ==
    CASE s = "picking" -> {j \in Jobs : ~j.explosion /\ ~j.splat /\ ~j.shielded}
      [] s \in {"shadow", "shadowTransparent"} ->
            IF settings.shadows THEN {j \in Jobs : ~j.explosion /\ ~j.shielded} ELSE {}
      [] s = "shields" -> {j \in Jobs : ~j.explosion /\ ~j.splat /\ ~j.shielded}
      [] s = "shielded" -> {j \in Jobs : j.shielded}
      [] s = "opaque" -> {j \in Jobs : ~j.shielded}
      [] s = "transparent" -> Jobs
      [] s \in {"pickSprites", "sprites"} -> Sprites
      [] s = "text" -> {[NoJob EXCEPT !.model = Glyphs]}
      [] OTHER -> {}

\* SortRenderJobsByDepth puts what is in front of the camera before what is flat.
Sorted(s, job) == s = "sprites" /\ queue.flat => Flat(job)

------------------------------------------------------------------------------
(* The passes around the queues. *)

\* A screen quad that is drawn, on buffers bound before.
DrawQuad(what, source) == <<Gl("t0", source), DrawIt(what, NoJob)>>

\* SceneTexture and BloomTexture: with multisampling the texture is made here,
\* and the framebuffers it is made with stay bound.
Resolved ==
    IF settings.msaa
    THEN <<Bind("antialiased"), Bind("window"), Gl("read", "final"), Gl("draw", "antialiased")>>
    ELSE <<>>
SceneTexture == IF settings.msaa THEN "antialiased" ELSE "final"

\* The two Gaussian programs in turn, with one of the iterations between.
Gaussian(what, source, horiz, vert) ==
    <<Use(Plain("GaussianVert")), Use(Plain("GaussianHoriz")), Bind(horiz), Gl("vao", Quad)>>
        \o DrawQuad(what, source)
        \o <<Bind(vert), Use(Plain("GaussianVert"))>> \o DrawQuad(what, horiz)
        \o <<Bind("window"), Bind(horiz), Use(Plain("GaussianHoriz"))>> \o DrawQuad(what, vert)
        \o <<Bind("window"), Bind(vert), Use(Plain("GaussianVert"))>> \o DrawQuad(what, horiz)

DrawFinalPassState(fb) ==
    <<NewState, BindFramebuffer(fb), Enable("BLEND"), Keep("blendFunc", "ALPHA"),
      Enable("DEPTH_TEST"), Keep("depthMask", TRUE), Enable("CULL_FACE"), Enable("ALPHA_TEST"),
      Keep("alphaFunc", "0.05")>>

\* Mutant: what the texts leave on is not switched off.
PickingPassStateBlending ==
    <<NewState, BindFramebuffer("picking"), Enable("DEPTH_TEST"), Enable("CULL_FACE")>>

PickingPassState ==
    <<NewState, BindFramebuffer("picking"), Enable("DEPTH_TEST"), Enable("CULL_FACE"),
      Disable("BLEND")>>

ShadowPassState ==
    <<NewState, BindFramebuffer("shadow"), Enable("DEPTH_TEST"), Enable("CULL_FACE"),
      Disable("BLEND"), CullFace("FRONT")>>

\* SSAOPassState and DrawBloomPassState.
QuadPassState == <<NewState, Disable("BLEND"), Disable("DEPTH_TEST"), Disable("CULL_FACE")>>

\* Its constructor changes the library itself.
TextPassState ==
    <<NewState, BindFramebuffer("final"), Gl("BLEND", TRUE), Gl("CULL_FACE", FALSE),
      Gl("DEPTH_TEST", TRUE), Gl("blendFunc", "ALPHA")>>

ClearDepth == IF scene.clear THEN <<Disable("DEPTH_TEST"), Keep("depthMask", FALSE)>> ELSE <<>>

Cleared(fb) == <<Bind(fb), Bind("window")>>

BlurClears ==
    Cleared("blurHoriz") \o <<Gl("stencilMask", "all"), Gl("SCISSOR_TEST", FALSE)>>
        \o Cleared("blurVert") \o Cleared("combined")

ClearBuffers ==
    <<Bind("window")>> \o Cleared("picking") \o Cleared("shields")
        \o <<Bind("final"), Gl("viewport", "screen"), Bind("window")>>
        \o (IF settings.bloom
            THEN Cleared("bloomHoriz") \o Cleared("bloomVert") \o Cleared("bloom") ELSE <<>>)
        \o (IF settings.ssao
            THEN Cleared("ssao") \o Cleared("viewSpaceZ") \o Cleared("ssaoHoriz")
                \o Cleared("ssaoVert")
            ELSE <<>>)
        \o Cleared("shadow") \o BlurClears

SSAODraw ==
    IF ~settings.ssao THEN <<>>
    ELSE QuadPassState
        \o <<Bind("viewSpaceZ"), Use(Plain("SSAOViewSpaceZ")), Gl("viewport", "part"),
             Gl("vao", Quad)>> \o DrawQuad("ssao", "picking")
        \o <<Bind("ssao"), Use(Plain("SSAO"))>> \o DrawQuad("ssao", "viewSpaceZ")
        \o QuadPassState \o Gaussian("ssao", "ssao", "ssaoHoriz", "ssaoVert")
        \o <<Bind("window"), Gl("viewport", "screen"), DeleteState, DeleteState>>

FillStencil ==
    <<NewState, BindFramebuffer("blurHoriz"), Enable("DEPTH_TEST"), Enable("CULL_FACE"),
      Enable("STENCIL_TEST"), Keep("stencilFunc", "ALWAYS 1"), Keep("stencilOp", "REPLACE"),
      StencilMask("all"), Keep("alphaFunc", "0.95"), Enable("ALPHA_TEST"),
      Gl("viewport", "part"), Use(Plain("FillDepthStencil")), Gl("vao", SpriteQuad),
      DrawIt("stencil", NoJob), Gl("viewport", "screen"), DeleteState>>

\* BlurHUD::Draw, which leaves its second framebuffer bound.
BlurDraw ==
    FillStencil
        \o <<NewState, Disable("BLEND"), Disable("DEPTH_TEST"), Disable("CULL_FACE"),
             Enable("STENCIL_TEST"), Keep("stencilOp", "REPLACE"), Keep("stencilFunc", "EQUAL 1"),
             StencilMask("none"), Keep("depthMask", FALSE), Enable("SCISSOR_TEST"),
             Bind("blurHoriz"), Gl("viewport", "part")>>
        \o Gaussian("blur", SceneTexture, "blurHoriz", "blurVert")
        \o <<Gl("viewport", "screen"), DeleteState>>

\* Both textures are bound to unit 1, the second one for good.
CombineTextures(texture1, texture2) ==
    <<Use(Plain("CombineTextures")), Gl("t1", texture1), Gl("t1", texture2), Gl("vao", Quad),
      DrawIt("combine", NoJob)>>

\* What follows the transparent objects: no sprite may blur what is behind it.
BlurAndSprites ==
    (IF scene.blur = "no" THEN DrawFinalPassState("final")
     ELSE Resolved \o (IF scene.blur = "runs" THEN BlurDraw ELSE <<>>) \o Resolved
        \o DrawFinalPassState("final") \o <<Disable("DEPTH_TEST"), Disable("STENCIL_TEST")>>
        \o CombineTextures(SceneTexture, IF scene.blur = "runs" THEN "blurVert" ELSE "black"))
    \o <<Enable("DEPTH_TEST")>>

DrawBloom ==
    Resolved
        \o IF ~settings.bloom THEN <<>>
           ELSE <<Gl("viewport", "part")>> \o QuadPassState
                \o Gaussian("bloom", SceneTexture, "bloomHoriz", "bloomVert")
                \o <<Gl("viewport", "screen"), Bind("window"), DeleteState,
                     Bind("bloom"), Use(Plain("GaussianCombine")), Gl("vao", Quad)>>
                \o DrawQuad("bloomSum", "bloomVert")

ColorCorrection ==
    Resolved
        \o <<NewState, BindFramebuffer("window"), Disable("DEPTH_TEST"), Disable("CULL_FACE"),
             Disable("BLEND"), Use(Plain("ColorCorrection")), Gl("t0", SceneTexture),
             Gl("t1", IF settings.bloom THEN "bloom" ELSE "black"), Gl("vao", Quad),
             DrawIt("color", NoJob), DeleteState>>

ImGuiDraw ==
    <<NewState, BindFramebuffer("window"), Enable("BLEND"), Keep("blendFunc", "ALPHA"),
      Disable("CULL_FACE"), Disable("DEPTH_TEST"), Enable("SCISSOR_TEST"),
      Gl("viewport", "window"), Use(Plain("ImGui")), Gl("vao", Gui), Gl("t0", "gui"),
      DrawIt("imgui", NoJob), DeleteState>>

\* The units that the queues of the final pass set up.
ForwardUnits == <<Gl("t0", IF settings.ssao THEN "ssaoVert" ELSE "white"), Gl("t30", "shadow")>>
CheckedUnits == <<Gl("t0", IF settings.ssao THEN "ssaoVert" ELSE "white"), Gl("t31", "shields")>>

------------------------------------------------------------------------------
(* A frame. *)

\* The stages of a frame, and those that may follow each: every queue, then
\* another scene or what comes next.
Follows ==
    [settings |-> {"frame"}, frame |-> {"pickScene"}, pickScene |-> {"picking"},
     picking |-> {"pickSprites"}, pickSprites |-> {"pickScene", "ssao"}, ssao |-> {"drawScene"},
     drawScene |-> {"shadow"}, shadow |-> {"shadow", "shadowTransparent", "shields"},
     shadowTransparent |-> {"shadow", "shields"}, shields |-> {"shielded"},
     shielded |-> {"opaque"}, opaque |-> {"transparent"}, transparent |-> {"sprites"},
     sprites |-> {"text"}, text |-> {"drawScene", "present"}, present |-> {"settings"}]

\* What ends a stage.
Closing(s, next) ==
    CASE s = "pickSprites" -> <<Bind("window"), DeleteState>>
      [] s \in {"shadow", "shadowTransparent"} ->
            (IF s = "shadowTransparent" THEN <<CullFace("FRONT")>> ELSE <<>>)
                \o IF next = "shields" /\ settings.shadows
                   THEN <<Gl("viewport", "screen"), Bind("window"), DeleteState>> ELSE <<>>
      [] s \in {"shields", "transparent", "text"} -> <<DeleteState>>
      [] s = "sprites" -> <<DeleteState, DeleteState>>
      [] OTHER -> <<>>

\* What a stage begins with, coming from stage s.
Opening(s, next) ==
    CASE next = "frame" -> ClearBuffers
      [] next = "picking" ->
            <<NextScene>> \o PickingPassState \o <<Use(Plain("Picking"))>> \o ClearDepth
      [] next = "pickSprites" -> <<Use(Plain("Picking"))>>
      [] next = "ssao" -> SSAODraw
      [] next = "shadow" /\ s # "shadow" /\ s # "shadowTransparent" ->
            <<NextScene>> \o IF settings.shadows
                             THEN ShadowPassState \o <<Gl("viewport", "shadow")>> ELSE <<>>
      [] next = "shadowTransparent" -> <<CullFace("BACK")>>
      [] next = "shields" -> DrawFinalPassState("shields")
      [] next = "shielded" ->
            DrawFinalPassState("final") \o ClearDepth
                \o <<Disable("STENCIL_TEST"), Keep("stencilFunc", "NOTEQUAL 1"),
                     StencilMask("none")>> \o CheckedUnits
      [] next = "opaque" -> ForwardUnits
      [] next = "transparent" -> <<Keep("blendFunc", "ALPHA")>> \o CheckedUnits
      [] next = "sprites" ->
            BlurAndSprites \o <<Use(Plain("Sprite")), Give(Plain("Sprite"), "scene"), NewState>>
      [] next = "text" -> TextPassState
      [] next = "present" -> DrawBloom \o ColorCorrection \o ImGuiDraw
      [] OTHER -> <<>>

Fresh == [shader |-> NoShader, model |-> Quad, flat |-> FALSE, split |-> 0]

\* The library as the text of the scene before leaves it, and nothing else.
AfterText ==
    [v |-> [Default EXCEPT !["BLEND"] = TRUE, !["DEPTH_TEST"] = TRUE, !.blendFunc = "ALPHA"],
     guards |-> <<>>, given |-> {}, drawn |-> <<>>]

Init ==
    /\ gl = [v |-> Default, guards |-> <<>>, given |-> {}, drawn |-> <<>>]
    /\ stage = "settings"
    /\ scene = [clear |-> FALSE, blur |-> "no"]
    /\ settings \in Settings
    /\ queue = Fresh
    /\ alone = AfterText

\* The stage is over: the next part of the frame begins.
Proceed(next) ==
    /\ next \in Follows[stage]
    /\ stage = "shadow" =>
        (next = "shadowTransparent" <=> settings.shadows /\ settings.transparent)
    /\ next = "shadow" =>
        queue.split < NrOfSplits /\ (stage = "shadow" => settings.shadows)
    /\ next = "shields" => ~settings.shadows \/ queue.split = NrOfSplits
    /\ gl' = Run(gl, <<NextJob>> \o Closing(stage, next) \o Opening(stage, next))
    /\ alone' = IF next \in {"pickScene", "drawScene", "settings"} THEN AfterText
                ELSE Run(alone, Closing(stage, next) \o Opening(stage, next))
    /\ stage' = next
    /\ queue' = [Fresh EXCEPT !.split = IF next = "shadow" THEN queue.split + 1
                                        ELSE IF next = "shadowTransparent" THEN queue.split ELSE 0]

\* The scenes of RenderSystem, with and without a sprite that blurs what is
\* behind it, and that of the editor, which is drawn on top.
Scenes == [clear : {FALSE}, blur : {"idle", "runs"}] \cup [clear : {TRUE}, blur : {"no"}]

\* Picking has no use for the blur.
ChooseScene ==
    \/ /\ Proceed("pickScene")
       /\ scene' \in {[s EXCEPT !.blur = "no"] : s \in Scenes}
       /\ UNCHANGED settings
    \/ /\ Proceed("drawScene")
       /\ scene' \in Scenes
       /\ UNCHANGED settings

ChooseSettings ==
    /\ Proceed("settings")
    /\ settings' \in Settings
    /\ scene' = [clear |-> FALSE, blur |-> "no"]

GoOn(next) ==
    /\ next \notin {"pickScene", "drawScene", "settings"}
    /\ Proceed(next)
    /\ UNCHANGED <<scene, settings>>

\* One job of the queue.
DrawJob(job) ==
    /\ job \in Queue(stage) /\ Sorted(stage, job)
    /\ gl' = Run(gl, JobScript(stage, job))
    /\ queue' = [queue EXCEPT !.shader = ProgramFor(stage, job), !.model = job.model,
                              !.flat = @ \/ (stage = "sprites" /\ Flat(job))]
    /\ UNCHANGED <<stage, scene, settings, alone>>

Next ==
    \/ ChooseScene
    \/ ChooseSettings
    \/ \E next \in DOMAIN Follows : GoOn(next)
    \/ \E job \in Queue(stage) : DrawJob(job)

Spec == Init /\ [][Next]_vars

------------------------------------------------------------------------------
(* Properties. *)

TypeOK ==
    /\ DOMAIN gl.v = DOMAIN Default
    /\ stage \in DOMAIN Follows
    /\ Len(gl.guards) <= 2
    /\ settings \in Settings

\* The jobs that are not drawn with what is theirs: splats that explode have
\* their textures bound in the wrong places (DrawFinalPass.cpp:1557), shielded
\* splats look for the shield's depth in a cube map, and skinned splats in the
\* queue that checks for shields give their bones to another program (1167).
Misdrawn(d) ==
    /\ d.job.splat
    /\ \/ d.job.explosion
       \/ Checked(d.what) /\ (d.job.shielded \/ IsSkinned(d.job))

\* What a unit must hold when a job is drawn that reads it.
Wanted(unit, d) ==
    CASE unit = "t0" -> IF d.what = "text" THEN {"job"} ELSE {"ssaoVert", "white"}
      [] unit \in {"t1", "t5"} -> {"job"}
      [] unit = "t5cube" -> {"cube"}
      [] unit = "t24" -> IF d.what = "shadow" \/ ~settings.textured
                         THEN {d.v[unit]} ELSE {"job", "white"}
      [] unit = "t30" -> {"shadow"}
      [] unit = "t31" -> {"shields"}

\* Every job is drawn as itself: with the program made for it, which has been
\* given this scene's camera and this job's place and bones, on its own model's
\* buffers, and with its own textures in the units that the program reads,
\* though the program and the buffers are bound only when the job before had
\* others, and most units are set once for a queue or by an earlier queue.
DrawnAsItself ==
    \A i \in DOMAIN gl.drawn :
        LET d == gl.drawn[i]
        IN d.job # NoJob /\ ~Misdrawn(d) =>
            /\ d.v.program = ProgramFor(d.what, d.job)
            /\ d.v.vao = d.job.model
            /\ {"scene", "job"} \subseteq d.given
            /\ d.v.program.skinned => "bones" \in d.given
            /\ \A unit \in Reads(d.v.program) : d.v[unit] \in Wanted(unit, d)

\* The textures that are attached to a framebuffer; the final one's are its
\* renderbuffers while there is multisampling.
Attached(fb) == IF fb = "final" /\ settings.msaa THEN {} ELSE {fb}

\* Nothing is drawn into a texture that the program reads at the same time.
NoFeedback ==
    \A i \in DOMAIN gl.drawn :
        LET d == gl.drawn[i]
        IN \A unit \in Reads(d.v.program) : d.v[unit] \notin Attached(d.v.draw)

\* What of the settings shows in a draw.
Look(d) ==
    <<[f \in {"draw", "depthMask", "viewport", "DEPTH_TEST", "CULL_FACE", "ALPHA_TEST",
              "STENCIL_TEST", "SCISSOR_TEST"} |-> d.v[f]],
      \* The stencil's program has no colours to blend.
      IF d.what = "stencil" THEN "" ELSE IF d.v["BLEND"] THEN d.v.blendFunc ELSE "off",
      IF d.v["CULL_FACE"] THEN d.v.cullFace ELSE "both",
      IF d.v["ALPHA_TEST"] THEN d.v.alphaFunc ELSE "off",
      IF d.v["STENCIL_TEST"] THEN <<d.v.stencilFunc, d.v.stencilOp, d.v.stencilMask>> ELSE <<>>>>

\* What is drawn is drawn with what is its own, and from what is not drawn into.
DrawingIsSound == DrawnAsItself /\ NoFeedback

\* A scene looks the same whatever was drawn before it: a pass draws in the
\* settings in which it draws an empty scene that comes first, whatever jobs,
\* passes, scenes and frames came before, and its queues likewise.
LooksTheSame ==
    gl.drawn # <<>> =>
        LET job == Last(gl.drawn).job
            first == IF job = NoJob THEN alone ELSE Run(alone, JobScript(stage, job))
        IN /\ Len(gl.drawn) = Len(first.drawn)
           /\ \A i \in DOMAIN gl.drawn : Look(gl.drawn[i]) = Look(first.drawn[i])
=============================================================================
