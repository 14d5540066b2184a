---------------------------- MODULE RenderTargets ----------------------------
(* The textures and renderbuffers that the passes draw into, from the        *)
(* constructors of the passes on, while the window is resized and the debug  *)
(* menu changes the multisampling and the qualities.                         *)
(*                                                                           *)
(* A pass keeps the names of its objects in members ("handles"), makes them  *)
(* anew with CommonFunctions.cpp, and attaches them to its FrameBuffers,     *)
(* whose resources point to the handles.  Textures and renderbuffers have    *)
(* names of their own, and the library (external) gives a name again that    *)
(* was deleted.  The shadows' map, which is made once, is left out; one      *)
(* texture stands for those of a pass that are always treated alike.         *)
EXTENDS Integers, Sequences, FiniteSets, SequencesExt

CONSTANTS
    Sizes,      \* of the window
    Levels,     \* of multisampling, 0 for none
    Qualities   \* of the ambient occlusion and of the glow, 0 for none

VARIABLES
    mem,        \* what the library and the passes hold
    size,       \* m_ViewportSize
    msaa,       \* m_MSAA
    ssao, glow  \* m_Quality of SSAOPass and DrawBloomPass

vars == <<mem, size, msaa, ssao, glow>>

Handles == {"m_PickingTexture", "m_PickingDepth", "m_SSAOTexture", "m_GaussianTexture",
            "m_DepthStencil_horiz", "m_GaussianTexture_horiz", "m_GaussianTexture_vert",
            "m_CombinedTexture", "m_AntiAliasedTexture", "m_SceneTexture", "m_BloomTexture",
            "m_DepthBuffer", "m_ShieldBuffer"}
Buffers == {"picking", "ssao", "glow", "blurHoriz", "blurVert", "combined", "antialiased",
            "final", "shields"}
Kinds == {"texture", "renderbuffer"}

\* What was made with which size and samples (or quality).
Content(s, n) == [size |-> s, samples |-> n]
Dead == Content(0, 0)
Names == 1..Cardinality(Handles)

Nothing ==
    [live |-> [k \in Kinds |-> [n \in Names |-> Dead]],
     handle |-> [h \in Handles |-> 0],
     resources |-> [b \in Buffers |-> <<>>],    \* of a FrameBuffer, as <<handle, kind>>
     attached |-> [b \in Buffers |-> <<>>]]     \* what Generate attached, as <<kind, name>>

------------------------------------------------------------------------------
(* CommonFunctions and FrameBuffer. *)

\* The name 0 is ignored by the library.
Deleted(m, kind, h) ==
    IF m.handle[h] = 0 THEN m ELSE [m EXCEPT !.live[kind][m.handle[h]] = Dead]

Generated(m, kind, h, content) ==
    LET n == CHOOSE x \in Names : /\ m.live[kind][x] = Dead
                                  /\ \A y \in 1..(x - 1) : m.live[kind][y] # Dead
    IN [m EXCEPT !.live[kind][n] = content, !.handle[h] = n]

GenerateTexture(m, h, content) == Generated(Deleted(m, "texture", h), "texture", h, content)
GenerateRenderbuffer(m, h, content) ==
    Generated(Deleted(m, "renderbuffer", h), "renderbuffer", h, content)

DeleteTexture(m, h) == [Deleted(m, "texture", h) EXCEPT !.handle[h] = 0]

GenerateTextures(m, hs, content) ==
    FoldLeft(LAMBDA n, h : GenerateTexture(n, h, content), m, hs)

\* The names that the handles have now.
Attached(m, resources) ==
    FoldLeft(LAMBDA list, r : Append(list, <<r[2], m.handle[r[1]]>>), <<>>, resources)

\* Mutant: what is attached already is not attached again.
GenerateOnce(m, b, resources) ==
    IF m.attached[b] # <<>> THEN m
    ELSE [m EXCEPT !.resources[b] = @ \o resources,
                   !.attached[b] = Attached(m, resources)]

\* Resources are added to a FrameBuffer that has none, then all are attached by
\* the names the handles have now.
Generate(m, b, resources) ==
    LET added == IF m.attached[b] = <<>> THEN m.resources[b] \o resources ELSE m.resources[b]
    IN [m EXCEPT !.resources[b] = added,
                 !.attached[b] = Attached(m, added)]

\* ~FrameBuffer, with the destructors of its resources.
DeleteFrameBuffer(m, b) ==
    [FoldLeft(LAMBDA n, r : [Deleted(n, r[2], r[1]) EXCEPT !.handle[r[1]] = 0],
              m, m.resources[b])
        EXCEPT !.resources[b] = <<>>, !.attached[b] = <<>>]

Textures(hs) == [i \in DOMAIN hs |-> <<hs[i], "texture">>]

------------------------------------------------------------------------------
(* What the passes make, for a size of the window. *)

PickingTargets(m, s) ==
    Generate(GenerateTextures(m, <<"m_PickingTexture", "m_PickingDepth">>, Content(s, 0)),
             "picking", Textures(<<"m_PickingDepth", "m_PickingTexture">>))

\* Of SSAOPass and DrawBloomPass.
SSAOTargets(m, s, q) ==
    Generate(GenerateTexture(m, "m_SSAOTexture", Content(s, q)),
             "ssao", Textures(<<"m_SSAOTexture">>))
GlowTargets(m, s) ==
    Generate(GenerateTexture(m, "m_GaussianTexture", Content(s, 0)),
             "glow", Textures(<<"m_GaussianTexture">>))

\* Both Gaussian framebuffers share the one depth and stencil texture.
BlurTargets(m, s) ==
    LET horiz == Generate(GenerateTextures(m, <<"m_DepthStencil_horiz", "m_GaussianTexture_horiz">>,
                                           Content(s, 0)),
                          "blurHoriz",
                          Textures(<<"m_DepthStencil_horiz", "m_GaussianTexture_horiz">>))
        vert == Generate(GenerateTexture(horiz, "m_GaussianTexture_vert", Content(s, 0)),
                         "blurVert",
                         Textures(<<"m_DepthStencil_horiz", "m_GaussianTexture_vert">>))
    IN Generate(GenerateTexture(vert, "m_CombinedTexture", Content(s, 0)),
                "combined", Textures(<<"m_CombinedTexture">>))

FinalHandles == <<"m_SceneTexture", "m_BloomTexture", "m_DepthBuffer">>

Multisampled(m, s, level) ==
    LET made == Generate(GenerateTexture(m, "m_AntiAliasedTexture", Content(s, 0)),
                         "antialiased", Textures(<<"m_AntiAliasedTexture">>))
    IN FoldLeft(LAMBDA n, h : GenerateRenderbuffer(n, h, Content(s, level)), made, FinalHandles)

\* DrawFinalPass::InitializeFrameBuffers.
InitializeFrameBuffers(m, s, level) ==
    LET kind == IF level # 0 THEN "renderbuffer" ELSE "texture"
        made == GenerateTexture(
                    IF level # 0 THEN Multisampled(m, s, level)
                    ELSE GenerateTextures(m, FinalHandles, Content(s, 0)),
                    "m_ShieldBuffer", Content(s, 0))
    IN Generate(Generate(made, "final", [i \in 1..3 |-> <<FinalHandles[i], kind>>]),
                "shields", Textures(<<"m_ShieldBuffer">>))

\* Mutant: the final FrameBuffer is only deleted when the multisampling begins.
setMSAAOnly(m, s, old, new) ==
    IF old = new THEN m
    ELSE InitializeFrameBuffers(
            IF new = 0 THEN DeleteFrameBuffer(m, "antialiased")
            ELSE IF old = 0 THEN DeleteFrameBuffer(m, "final") ELSE m, s, new)

\* The FrameBuffers that DrawFinalPass::setMSAA deletes before it makes new ones.
setMSAA(m, s, old, new) ==
    IF old = new THEN m
    ELSE LET off == IF new = 0
                    THEN DeleteFrameBuffer(DeleteFrameBuffer(m, "antialiased"), "final") ELSE m
             on == IF new # 0 /\ old = 0 THEN DeleteFrameBuffer(off, "final") ELSE off
         IN InitializeFrameBuffers(on, s, new)

\* DrawFinalPass::OnWindowResize: MultiSampling() is never true, so with
\* multisampling every FrameBuffer is made anew.
FinalResized(m, s, level) ==
    LET dropped == IF level = 0 THEN m
                   ELSE DeleteFrameBuffer(DeleteFrameBuffer(DeleteFrameBuffer(m, "final"),
                                                            "shields"), "antialiased")
    IN InitializeFrameBuffers(dropped, s, level)

------------------------------------------------------------------------------
(* Renderer. *)

\* InitializeRenderPasses, with the configured level and qualities.
Init ==
    /\ size \in Sizes /\ msaa \in Levels /\ ssao \in Qualities /\ glow \in Qualities
    /\ mem = LET picking == PickingTargets(Nothing, size)
                 occluded == IF ssao = 0 THEN picking ELSE SSAOTargets(picking, size, ssao)
                 blurred == BlurTargets(occluded, size)
                 final == InitializeFrameBuffers(setMSAA(blurred, size, 0, msaa), size, msaa)
             IN IF glow = 0 THEN final ELSE GlowTargets(final, size)

\* updateFramebufferSize.
Resize(s) ==
    /\ size' = s
    /\ mem' = LET final == FinalResized(PickingTargets(mem, s), s, msaa)
                  glowing == IF glow = 0 THEN final ELSE GlowTargets(final, s)
                  occluded == IF ssao = 0 THEN glowing ELSE SSAOTargets(glowing, s, ssao)
              IN BlurTargets(occluded, s)
    /\ UNCHANGED <<msaa, ssao, glow>>

SetMSAA(level) ==
    /\ mem' = setMSAA(mem, size, msaa, level)
    /\ msaa' = level
    /\ UNCHANGED <<size, ssao, glow>>

\* ChangeQuality of SSAOPass and of DrawBloomPass: their FrameBuffers stay as they
\* are while there is no quality, attached to what is deleted.
ChangeSSAO(q) ==
    /\ q # ssao
    /\ mem' = IF q = 0 THEN DeleteTexture(mem, "m_SSAOTexture") ELSE SSAOTargets(mem, size, q)
    /\ ssao' = q
    /\ UNCHANGED <<size, msaa, glow>>

ChangeGlow(q) ==
    /\ q # glow
    /\ mem' = IF q = 0 THEN DeleteTexture(mem, "m_GaussianTexture") ELSE GlowTargets(mem, size)
    /\ glow' = q
    /\ UNCHANGED <<size, msaa, ssao>>

Next ==
    \/ \E s \in Sizes : Resize(s)
    \/ \E level \in Levels : SetMSAA(level)
    \/ \E q \in Qualities : ChangeSSAO(q)
    \/ \E q \in Qualities : ChangeGlow(q)

Spec == Init /\ [][Next]_vars

------------------------------------------------------------------------------
(* Properties. *)

\* The FrameBuffers a frame may draw into, and those it does not.
Drawn == {b \in Buffers : /\ b = "ssao" => ssao # 0
                          /\ b = "glow" => glow # 0
                          /\ b = "antialiased" => msaa # 0}

Due(b) ==
    Content(size, IF b = "final" THEN msaa ELSE IF b = "ssao" THEN ssao ELSE 0)

\* Whatever a frame draws into has its attachments: objects that exist, of the
\* window's size and with the samples of the setting, and the same ones that the
\* pass hands out for others to read, after any resizing and switching.
TargetsAreCurrent ==
    \A b \in Drawn :
        /\ mem.attached[b] # <<>>
        /\ \A i \in DOMAIN mem.attached[b] :
            LET kind == mem.attached[b][i][1]
                name == mem.attached[b][i][2]
            IN /\ name # 0 /\ mem.live[kind][name] = Due(b)
               /\ mem.handle[mem.resources[b][i][1]] = name

\* No object of the graphics card is lost, and none is deleted under the name of
\* another: those that exist are those that the handles of the FrameBuffers' kind
\* name, each once.
NothingIsLost ==
    \A kind \in Kinds :
        LET holders == {h \in Handles : /\ mem.handle[h] # 0
                                        /\ \E b \in Buffers : \E i \in DOMAIN mem.resources[b] :
                                              mem.resources[b][i] = <<h, kind>>}
        IN /\ {n \in Names : mem.live[kind][n] # Dead} = {mem.handle[h] : h \in holders}
           /\ \A h, k \in holders : mem.handle[h] = mem.handle[k] => h = k

\* What is drawn into is current, and nothing is kept but what is in use.
TargetsAreKept == TargetsAreCurrent /\ NothingIsLost
=============================================================================
