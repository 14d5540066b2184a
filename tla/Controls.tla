------------------------------ MODULE Controls ------------------------------
(***************************************************************************)
(* From a player's keys to the dash of the assault class:                  *)
(*                                                                         *)
(*   InputManager           polls keys and buttons, publishes changes      *)
(*   Keyboard- and          add up, for every command, the values bound    *)
(*   MouseInputHandler      to the keys that are down                      *)
(*   InputProxy             publishes a command when its sum changes,      *)
(*                          or only if it became 0 while the GUI has the   *)
(*                          input                                          *)
(*   FirstPersonInput-      hears the commands, counts the movement keys   *)
(*   Controller             that are down, looks for double taps           *)
(*   PlayerMovementSystem   makes a controller for every life, and checks  *)
(*                          for a dash once a tick                         *)
(*                                                                         *)
(* A tick takes 1, times are integral. The bindings are what LoadBindings  *)
(* left; their values are integers, as those that are shipped, which       *)
(* floats add up exactly. Of the commands only those the dash depends on   *)
(* are here; jumping, crouching, the mouse's axes, and where a player      *)
(* moves to, are left out.                                                 *)
(* A dead player's controller is not updated, and never used again: the    *)
(* model lets it go on until the next life.                                *)
(***************************************************************************)
EXTENDS Integers, FiniteSets

CONSTANTS
  Key,                    (* keys and mouse buttons                          *)
  Binding,                (* of a key: the handler, the command, its value   *)
  CoolDownMaxTimer,       (* of the DashAbility component                    *)
  DoubleTapSensitivity,   (* m_AssaultDashDoubleTapSensitivityTimer          *)
  DoubleTapToDash,        (* Keyboard.DoubleTapToDash of Input.ini           *)
  MaxChanges,             (* bound: keys that change in one tick             *)
  MaxKeysDown             (* bound: how far the count of keys goes from 0    *)

Handler == {"keyboard", "mouse"}
Movement == {"Forward", "Right"}
Command == Movement \cup {"SpecialAbility"}

ASSUME ControlsAssumption ==
  /\ Binding \in [Key -> [handler : Handler, command : Command, value : Int \ {0}]]
  /\ CoolDownMaxTimer \in Nat \ {0}
  /\ DoubleTapSensitivity \in Nat
  /\ DoubleTapToDash \in BOOLEAN

(* InputManager polls an array of keys and one of buttons.                 *)
ASSUME KeysAssumption == IsFiniteSet(Key)

VARIABLES
  m_CurrentKeyState,      (* InputManager: keys down at this tick's poll     *)
  m_LastKeyState,         (* InputManager: keys down at the poll before      *)
  m_CommandValues,        (* of each handler: the sum for each command       *)
  m_LastCommandValues,    (* InputProxy: the values of the tick before       *)
  controller,             (* the player's FirstPersonInputController         *)
  coolDownTimer,          (* of the DashAbility component, not below 0       *)
  miscounted              (* history: the controller heard a command come    *)
                          (* from non-zero to non-zero, or from 0 to 0       *)

vars == <<m_CurrentKeyState, m_LastKeyState, m_CommandValues,
          m_LastCommandValues, controller, coolDownTimer, miscounted>>

NewController ==
  [movement |-> [c \in Movement |-> 0], numberOfMovementKeysDown |-> 0,
   movementKeyDown |-> FALSE, specialAbilityKeyDown |-> FALSE,
   shiftDashing |-> FALSE, doubleTapped |-> FALSE, validDoubleTap |-> FALSE,
   doubleTapDeltaTime |-> 0, tapDirection |-> "", currentDirection |-> ""]

Init ==
  /\ m_CurrentKeyState = {}
  /\ m_LastKeyState = {}
  /\ m_CommandValues = [h \in Handler |-> [c \in Command |-> 0]]
  /\ m_LastCommandValues = [c \in Command |-> 0]
  /\ controller = NewController
  /\ coolDownTimer = 0
  /\ miscounted = FALSE

-----------------------------------------------------------------------------
(* The devices. *)

(* OnKeyDown, OnMousePress: the value of the key's command grows by the    *)
(* value bound to the key; OnKeyUp, OnMouseRelease: it shrinks by it.      *)
OnKey(k, value) ==
  m_CommandValues' =
    [m_CommandValues EXCEPT ![Binding[k].handler][Binding[k].command] = @ + value]

(* InputManager::Update finds a key in another state than at the last poll *)
(* and publishes it; nothing else happens before a handler gets the event. *)
(* A key is polled once a tick.                                            *)
KeyChange(k) ==
  /\ (k \in m_CurrentKeyState) = (k \in m_LastKeyState)
  /\ Cardinality({j \in Key : (j \in m_CurrentKeyState) # (j \in m_LastKeyState)})
       < MaxChanges
  /\ \/ /\ k \notin m_CurrentKeyState
        /\ m_CurrentKeyState' = m_CurrentKeyState \cup {k}
        /\ OnKey(k, Binding[k].value)
     \/ /\ k \in m_CurrentKeyState
        /\ m_CurrentKeyState' = m_CurrentKeyState \ {k}
        /\ OnKey(k, -Binding[k].value)
  /\ UNCHANGED <<m_LastKeyState, m_LastCommandValues, controller, coolDownTimer,
                 miscounted>>

(* The value of a command, over all handlers; 0 from one that has not      *)
(* bound it.                                                               *)
CommandValue(c) == m_CommandValues["keyboard"][c] + m_CommandValues["mouse"][c]

(* Mutant: while the GUI has the input, releases are kept back, too. *)
PublishedUnlessSuppressed(suppressNewEvents) ==
  {c \in Command : CommandValue(c) # m_LastCommandValues[c] /\ ~suppressNewEvents}

(* Which commands InputProxy::Process publishes.                           *)
Published(suppressNewEvents) ==
  {c \in Command : /\ CommandValue(c) # m_LastCommandValues[c]
                   /\ suppressNewEvents => CommandValue(c) = 0}

-----------------------------------------------------------------------------
(* The controller. *)

SignOf(v) == IF v > 0 THEN 1 ELSE IF v < 0 THEN -1 ELSE 0

DirectionOf(c, v) ==
  IF c = "Right" THEN IF v > 0 THEN "Right" ELSE "Left"
                 ELSE IF v > 0 THEN "Forward" ELSE "Backward"

(* A movement command that is not 0 is taken for a key that was pressed.   *)
Pressed(ctl, c, v) ==
  [ctl EXCEPT
     !.movement = [@ EXCEPT ![c] = SignOf(v)],
     !.currentDirection = DirectionOf(c, v),
     !.numberOfMovementKeysDown = @ + 1,
     !.movementKeyDown = TRUE,
     !.validDoubleTap = IF /\ ctl.doubleTapDeltaTime < DoubleTapSensitivity
                           /\ ctl.tapDirection = DirectionOf(c, v)
                        THEN TRUE ELSE @]

(* Mutant: the count is tested before it goes down. *)
ReleasedTestedFirst(ctl, c) ==
  [ctl EXCEPT
     !.movement = [@ EXCEPT ![c] = 0],
     !.numberOfMovementKeysDown = @ - 1,
     !.movementKeyDown = IF ctl.numberOfMovementKeysDown = 0 THEN FALSE ELSE @,
     !.tapDirection = ctl.currentDirection,
     !.doubleTapDeltaTime = 0]

(* One that is 0 is taken for a key that was released.                     *)
Released(ctl, c) ==
  [ctl EXCEPT
     !.movement = [@ EXCEPT ![c] = 0],
     !.numberOfMovementKeysDown = @ - 1,
     !.movementKeyDown = IF ctl.numberOfMovementKeysDown = 1 THEN FALSE ELSE @,
     !.tapDirection = ctl.currentDirection,
     !.doubleTapDeltaTime = 0]

(* Mutant: m_ShiftDashing is only looked at when a movement key changes. *)
OnCommandOfMovement(ctl, c, v) ==
  IF c = "SpecialAbility"
  THEN [ctl EXCEPT !.specialAbilityKeyDown = v > 0]
  ELSE LET heard == IF v # 0 THEN Pressed(ctl, c, v) ELSE Released(ctl, c)
       IN [heard EXCEPT
             !.shiftDashing = heard.specialAbilityKeyDown /\ heard.movementKeyDown]

(* Every command that is heard decides anew whether the ability's key and  *)
(* a movement key are down.                                                *)
OnCommand(ctl, c, v) ==
  LET heard == IF c = "SpecialAbility"
               THEN [ctl EXCEPT !.specialAbilityKeyDown = v > 0]
               ELSE IF v # 0 THEN Pressed(ctl, c, v) ELSE Released(ctl, c)
  IN [heard EXCEPT !.shiftDashing = heard.specialAbilityKeyDown /\ heard.movementKeyDown]

Hear(ctl, c, published) ==
  IF c \in published THEN OnCommand(ctl, c, CommandValue(c)) ELSE ctl

(* The commands of a tick, in the order of the map they are kept in.       *)
HearAll(ctl, published) ==
  Hear(Hear(Hear(ctl, "Forward", published), "Right", published),
       "SpecialAbility", published)

(* AssaultDashCheck, with timer for the cooldown that is left: a dash by   *)
(* the ability's key comes first, then one by a double tap, which is       *)
(* forgotten if it cannot be carried out.                                  *)
ShiftDashes(ctl, timer) == ctl.shiftDashing /\ timer = 0
LooksForTaps(ctl, timer) == DoubleTapToDash /\ ~ShiftDashes(ctl, timer)
Dashes(ctl, timer) ==
  \/ ShiftDashes(ctl, timer)
  \/ LooksForTaps(ctl, timer) /\ ctl.validDoubleTap /\ timer = 0

AssaultDashCheck(ctl, timer) ==
  [ctl EXCEPT
     !.doubleTapped = Dashes(ctl, timer),
     !.validDoubleTap = IF LooksForTaps(ctl, timer) THEN FALSE ELSE @,
     !.doubleTapDeltaTime =
       IF ShiftDashes(ctl, timer) \/ (LooksForTaps(ctl, timer) /\ ctl.validDoubleTap)
       THEN 0
       ELSE IF @ < DoubleTapSensitivity THEN @ + 1 ELSE @]

-----------------------------------------------------------------------------
(* The tick. *)

(* Up to InputProxy::Process: every change becomes the last value, whether *)
(* it was published or not.                                                *)
ProcessInput ==
  /\ m_LastKeyState' = m_CurrentKeyState
  /\ m_LastCommandValues' = [c \in Command |-> CommandValue(c)]
  /\ UNCHANGED <<m_CurrentKeyState, m_CommandValues>>

(* A controller cannot tell a command that jumps between two values, or    *)
(* the release of a key whose press it did not hear, from other keys.      *)
Miscounts(ctl, published) ==
  \E c \in published \cap Movement :
    (CommandValue(c) # 0) = (ctl.movement[c] # 0)

(* The controller hears the commands, then the system checks for a dash.   *)
Tick(suppressNewEvents) ==
  LET published == Published(suppressNewEvents)
      heard == HearAll(controller, published)
      timer == IF coolDownTimer > 0 THEN coolDownTimer - 1 ELSE 0
  IN /\ ProcessInput
     /\ heard.numberOfMovementKeysDown \in -MaxKeysDown .. MaxKeysDown
     /\ controller' = AssaultDashCheck(heard, timer)
     /\ coolDownTimer' = IF Dashes(heard, timer) THEN CoolDownMaxTimer ELSE timer
     /\ miscounted' = (miscounted \/ Miscounts(controller, published))

(* OnPlayerSpawned: a controller for the new entity, with an ability that  *)
(* is ready. It was subscribed while the commands of this tick are         *)
(* processed, and hears none of them.                                      *)
Spawn ==
  /\ ProcessInput
  /\ controller' = AssaultDashCheck(NewController, 0)
  /\ coolDownTimer' = 0
  /\ miscounted' = FALSE

Next ==
  \/ \E k \in Key : KeyChange(k)
  \/ \E suppressNewEvents \in BOOLEAN : Tick(suppressNewEvents)
  \/ Spawn

Spec == Init /\ [][Next]_vars

-----------------------------------------------------------------------------
(* Properties. *)

Direction == {"", "Left", "Right", "Forward", "Backward"}

Motion == [Movement -> -1 .. 1]

Controller ==
  [movement : Motion, numberOfMovementKeysDown : Int,
   movementKeyDown : BOOLEAN, specialAbilityKeyDown : BOOLEAN,
   shiftDashing : BOOLEAN, doubleTapped : BOOLEAN, validDoubleTap : BOOLEAN,
   doubleTapDeltaTime : 0 .. DoubleTapSensitivity,
   tapDirection : Direction, currentDirection : Direction]

(* The handlers' sums, the controller and the timer have their types. *)
TypeOK ==
  /\ m_CurrentKeyState \subseteq Key
  /\ m_LastKeyState \subseteq Key
  /\ m_CommandValues \in [Handler -> [Command -> Int]]
  /\ m_LastCommandValues \in [Command -> Int]
  /\ controller \in Controller
  /\ coolDownTimer \in 0 .. CoolDownMaxTimer
  /\ miscounted \in BOOLEAN

(* Nobody walks on by himself: a player only moves in a direction while a  *)
(* key of it is down that no other cancels, whatever was pressed and       *)
(* released while the GUI had the input, in one tick, or before the        *)
(* player's life began. Each of the four layers keeps its own copy of what *)
(* is down; only releases are never suppressed (InputProxy.cpp:65).        *)
MotionNeedsKeys ==
  \A c \in Movement :
    controller.movement[c] # 0 =>
      /\ m_LastCommandValues[c] # 0
      /\ \E k \in m_LastKeyState : Binding[k].command = c

(* The controller counts commands and calls them keys                      *)
(* (m_NumberOfMovementKeysDown): the count is that of the directions the   *)
(* player moves in, and the flag that rests on it right, as long as no     *)
(* command jumped between two values and no press went unheard.            *)
KeysAreCounted ==
  ~miscounted =>
    /\ controller.numberOfMovementKeysDown =
         Cardinality({c \in Movement : controller.movement[c] # 0})
    /\ controller.movementKeyDown <=> (controller.numberOfMovementKeysDown > 0)

(* Whoever moves with the ability's key down dashes as soon as the ability *)
(* is ready: the flag m_ShiftDashing is only looked at after commands, the *)
(* cooldown in every tick.                                                 *)
DashesAreHeeded ==
  /\ ~miscounted
  /\ controller.specialAbilityKeyDown
  /\ \E c \in Movement : controller.movement[c] # 0
  => coolDownTimer > 0

=============================================================================
