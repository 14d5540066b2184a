-------------------------------- MODULE Sound --------------------------------
(* SoundManager: the sounds of the entities, the announcer and the music, on *)
(* sources of the sound library (OpenAL, external), and the systems' events  *)
(* it plays them for (SoundSystem.cpp).                                      *)
(*                                                                           *)
(* The manager's Update handles the events published since its last one,     *)
(* then frees what has finished.  Volumes, positions, pitch and the files    *)
(* themselves are left out, and with them an emitter that is given another   *)
(* file while it plays (updateEmitters), which none but the editor can do.   *)
(* So are StopSound, PauseSound, ContinueSound, PlaySoundOnPosition and      *)
(* PlayBackgroundMusic, which nothing publishes, and ComponentAttached,      *)
(* which is never published.                                                 *)
(*                                                                           *)
(* Music and the cries of a queue are never freed.  What has stopped and is  *)
(* neither m_CurrentBGM nor m_CurrentBGMCombo nor an entity's no handler can *)
(* reach any more: the model lets go of it (Forget), where the program keeps *)
(* it for good.  So cameras may follow each other without end; that the      *)
(* library may run out of sources is not modelled.                           *)
EXTENDS Integers, Sequences, FiniteSets, SequencesExt

CONSTANTS
    Cameras,        \* those that are set: "menu", "pick", "end"
    MaxSounds,      \* bound on the sounds at a time that are not music
    MaxLives,       \* bound on the spawns of the local player
    MaxEvents,      \* bound on the events waiting for one Update
    MaxPresses,     \* bound on the presses of the editor's two buttons
    None

\* The music is on two, and a third while one takes another's place.  The library
\* gives any name not in use; as names tell nothing, music gets one of the last three.
Source == 1..MaxSounds + 3

VARIABLES
    al,             \* state of every source in the library, "none" if it has none
    kind,           \* what it was created for
    sources,        \* m_Sources: the sources of emitter entities, under one name
    emitters,       \* the emitter entities in the world
    owner,          \* the life of the player an emitter is a child of
    bgm, combo,     \* m_CurrentBGM, m_CurrentBGMCombo
    localPlayer,    \* m_LocalPlayer: the life it is an entity of, or None
    life, alive,    \* the local player's entity: which, and whether it exists
    presses,        \* presses of the editor's buttons so far
    events          \* published and not handled yet

vars == <<al, kind, sources, emitters, owner, bgm, combo, localPlayer, life, alive,
          presses, events>>

\* What an Update works on, with the events its handlers publish.
manager == [al |-> al, kind |-> kind, sources |-> sources, emitters |-> emitters,
            owner |-> owner, bgm |-> bgm, combo |-> combo, localPlayer |-> localPlayer,
            published |-> <<>>]

------------------------------------------------------------------------------
(* Sources. *)

Fresh(m, what) ==
    CHOOSE n \in Source : m.al[n] = "none" /\ (n > MaxSounds <=> what = "music")

\* Without the sources that are gone.
Without(m, Gone(_)) ==
    [m EXCEPT !.al = [n \in Source |-> IF Gone(n) THEN "none" ELSE @[n]],
              !.kind = [n \in Source |-> IF Gone(n) THEN "none" ELSE @[n]],
              !.owner = [n \in Source |-> IF Gone(n) THEN 0 ELSE @[n]],
              !.sources = {n \in @ : ~Gone(n)},
              !.emitters = {n \in @ : ~Gone(n)}]

\* What has stopped and can be reached by nothing any more.
Forget(m) ==
    Without(m, LAMBDA n : m.al[n] = "stopped" /\ n \notin m.sources \cup {m.bgm, m.combo})

\* createSource and playSound.
Created(m, what) ==
    LET n == Fresh(m, what) IN [m EXCEPT !.al[n] = "playing", !.kind[n] = what]

StoppedIfPlaying(m, n) ==
    IF n # None /\ m.al[n] = "playing" THEN [m EXCEPT !.al[n] = "stopped"] ELSE m

\* A new source with an emitter entity below the player of this life.
Emit(m, what, of) ==
    LET n == Fresh(m, what)
    IN [Created(m, what) EXCEPT !.sources = @ \cup {n}, !.emitters = @ \cup {n},
                                !.owner[n] = of]

------------------------------------------------------------------------------
(* Handlers.  A life ends between two Updates, so that alive is what it is   *)
(* for all of them.                                                          *)

\* The entity need not exist any more: the emitter is then nobody's child.
OnPlaySoundOnEntity(m, e) == Emit(m, "sfx", e.life)

\* On the listener that is the local player, if it is still there.
OnPlayAnnouncerVoice(m) ==
    IF alive /\ m.localPlayer = life THEN Emit(m, "announcer", life) ELSE m

OnPlayerSpawned(m, e) == [m EXCEPT !.localPlayer = e.life]

\* The source is kept nowhere: nothing frees it.
OnPlayQueueOnEntity(m) == Created(m, "queue")

\* The music before it is stopped, and kept nowhere either.
OnChangeBGM(m) ==
    LET quiet == StoppedIfPlaying(m, m.bgm)
    IN [Created(quiet, "music") EXCEPT !.bgm = Fresh(quiet, "music")]

Publishing(m, e) == [m EXCEPT !.published = Append(@, e)]

\* Mutant: a match's second track is begun without a look at the last one's.
OnSetCameraOnTop(m, e) ==
    CASE e.camera = "menu" ->
            Publishing(StoppedIfPlaying(m, m.combo), [type |-> "ChangeBGM"])
      [] e.camera = "pick" ->
            LET asked == Publishing(m, [type |-> "ChangeBGM"])
            IN [Created(asked, "music") EXCEPT !.combo = Fresh(asked, "music")]
      [] e.camera = "end" ->
            LET quiet == [m EXCEPT !.al[m.bgm] = "stopped"]
            IN [Created(quiet, "music") EXCEPT !.bgm = Fresh(quiet, "music")]

\* The second track goes on under the end screen.
OnSetCamera(m, e) ==
    CASE e.camera = "menu" ->
            Publishing(StoppedIfPlaying(m, m.combo), [type |-> "ChangeBGM"])
      [] e.camera = "pick" ->
            LET quiet == StoppedIfPlaying(Publishing(m, [type |-> "ChangeBGM"]), m.combo)
            IN [Created(quiet, "music") EXCEPT !.combo = Fresh(quiet, "music")]
      [] e.camera = "end" ->
            LET quiet == [m EXCEPT !.al[m.bgm] = "stopped"]
            IN [Created(quiet, "music") EXCEPT !.bgm = Fresh(quiet, "music")]

OnPause(m) ==
    [m EXCEPT !.al = [n \in Source |->
        IF n \in m.sources /\ @[n] = "playing" THEN "paused" ELSE @[n]]]

\* Every source of an entity plays, one that has finished from its beginning.
OnResume(m) ==
    [m EXCEPT !.al = [n \in Source |-> IF n \in m.sources THEN "playing" ELSE @[n]]]

Handle(m, e) ==
    CASE e.type = "PlaySoundOnEntity"  -> OnPlaySoundOnEntity(m, e)
      [] e.type = "PlayAnnouncerVoice" -> OnPlayAnnouncerVoice(m)
      [] e.type = "PlayerSpawned"      -> OnPlayerSpawned(m, e)
      [] e.type = "PlayQueueOnEntity"  -> OnPlayQueueOnEntity(m)
      [] e.type = "ChangeBGM"          -> OnChangeBGM(m)
      [] e.type = "SetCamera"          -> OnSetCamera(m, e)
      [] e.type = "Pause"              -> OnPause(m)
      [] e.type = "Resume"             -> OnResume(m)

\* Mutant: only sources whose entity is still there are looked at.
DeleteInactiveAlive(m) ==
    Without(m, LAMBDA n : n \in m.sources \cap m.emitters /\ m.al[n] = "stopped")

\* deleteInactiveEmitters: a source that has stopped goes with its entity, one
\* without its entity goes as it is.
DeleteInactiveEmitters(m) ==
    Without(m, LAMBDA n : n \in m.sources /\ (n \notin m.emitters \/ m.al[n] = "stopped"))

Become(m) ==
    /\ al' = m.al
    /\ kind' = m.kind
    /\ sources' = m.sources
    /\ emitters' = m.emitters
    /\ owner' = m.owner
    /\ bgm' = m.bgm
    /\ combo' = m.combo
    /\ localPlayer' = m.localPlayer
    /\ events' = m.published

RECURSIVE HandleAll(_, _)
HandleAll(m, es) ==
    IF es = <<>> THEN {m}
    ELSE UNION {HandleAll(n, Tail(es)) : n \in {Forget(h) : h \in {Handle(m, Head(es))}}}

Update ==
    /\ \E handled \in HandleAll(manager, events) :
          \E m \in {DeleteInactiveEmitters(n) : n \in {Forget(handled)}} : Become(m)
    /\ UNCHANGED <<life, alive, presses>>

------------------------------------------------------------------------------
(* The rest of the game between two Updates. *)

\* The sounds there are, and the events that may play more.
Sounding == {n \in Source : kind[n] \notin {"none", "music"}}
ToSound(es) ==
    SelectSeq(es, LAMBDA e : e.type \in {"PlaySoundOnEntity", "PlayAnnouncerVoice",
                                         "PlayQueueOnEntity"})

\* The bounds are kept here, so that an Update is always possible.
Publish(es) ==
    /\ Len(events \o es) <= MaxEvents
    /\ Cardinality(Sounding) + Len(ToSound(events \o es)) <= MaxSounds
    /\ events' = events \o es

sound == <<al, kind, sources, emitters, owner, bgm, combo, localPlayer>>

\* The local player is spawned, heard at once, and greeted by the announcer;
\* SoundSystem publishes the greeting when the spawn is handled.
Spawn ==
    /\ ~alive
    /\ life < MaxLives
    /\ life' = life + 1
    /\ alive' = TRUE
    /\ Publish(<<[type |-> "PlayerSpawned", life |-> life + 1],
                 [type |-> "PlayAnnouncerVoice"]>>)
    /\ UNCHANGED <<sound, presses>>

\* A step, a shot, a jump, the sound of dying.
MakeSound ==
    /\ alive
    /\ Publish(<<[type |-> "PlaySoundOnEntity", life |-> life]>>)
    /\ UNCHANGED <<sound, life, alive, presses>>

\* An enemy's hit: a cry from a queue of one.
OnPlayerDamage ==
    /\ alive
    /\ Publish(<<[type |-> "PlayQueueOnEntity"]>>)
    /\ UNCHANGED <<sound, life, alive, presses>>

\* A capture is announced to a player who is there.
OnCaptured ==
    /\ alive
    /\ Publish(<<[type |-> "PlayAnnouncerVoice"]>>)
    /\ UNCHANGED <<sound, life, alive, presses>>

\* The player's entity is deleted, with the emitters below it.
Die ==
    /\ alive
    /\ alive' = FALSE
    /\ emitters' = {n \in emitters : owner[n] # life}
    /\ UNCHANGED <<al, kind, sources, owner, bgm, combo, localPlayer, life, presses, events>>

\* The end screen's camera comes after another's music has begun.
SetCamera(camera) ==
    /\ camera = "end" => bgm # None
    /\ Publish(<<[type |-> "SetCamera", camera |-> camera]>>)
    /\ UNCHANGED <<sound, life, alive, presses>>

\* The editor's two buttons, Pause and Resume.
Press(button) ==
    /\ presses < MaxPresses
    /\ presses' = presses + 1
    /\ Publish(<<[type |-> button]>>)
    /\ UNCHANGED <<sound, life, alive>>

\* The library: a source that does not loop plays to its end.
Finish(n) ==
    /\ al[n] = "playing"
    /\ kind[n] # "music"
    /\ al' = [al EXCEPT ![n] = "stopped"]
    /\ UNCHANGED <<kind, sources, emitters, owner, bgm, combo, localPlayer, life, alive,
                   presses, events>>

------------------------------------------------------------------------------
Init ==
    /\ al = [n \in Source |-> "none"]
    /\ kind = [n \in Source |-> "none"]
    /\ sources = {}
    /\ emitters = {}
    /\ owner = [n \in Source |-> 0]
    /\ bgm = None
    /\ combo = None
    /\ localPlayer = None
    /\ life = 0
    /\ alive = FALSE
    /\ presses = 0
    /\ events = <<>>

Next ==
    \/ Update
    \/ Spawn
    \/ MakeSound
    \/ OnPlayerDamage
    \/ OnCaptured
    \/ Die
    \/ \E camera \in Cameras : SetCamera(camera)
    \/ \E button \in {"Pause", "Resume"} : Press(button)
    \/ \E n \in Source : Finish(n)

Spec == Init /\ [][Next]_vars

\* The game ticks for ever, and a sound that plays comes to its end.
FairSpec == Spec /\ WF_vars(Update) /\ \A n \in 1..MaxSounds : WF_vars(Finish(n))

------------------------------------------------------------------------------
(* Properties *)

TypeOK ==
    /\ al \in [Source -> {"none", "playing", "paused", "stopped"}]
    /\ kind \in [Source -> {"none", "sfx", "announcer", "queue", "music"}]
    /\ emitters \subseteq sources
    /\ bgm \in Source \cup {None}
    /\ combo \in Source \cup {None}

\* Music that nothing could stop any more is never left playing: a source that
\* loops is the current music or the match's second track, however many cameras
\* follow each other, one of a match after another while the second track plays
\* or two in one Update, and though a camera's music is changed an Update later.
OnlyCurrentMusicPlays ==
    \A n \in Source : kind[n] = "music" /\ al[n] = "playing" => n \in {bgm, combo}

\* Every sound of an entity is freed: when it has finished, or when its entity is
\* gone, even if the player it belongs to was deleted before it began, unless a
\* pause holds it.
SoundsAreFreed ==
    \A n \in 1..MaxSounds : n \in sources ~> (n \notin sources \/ al[n] = "paused")
==============================================================================
