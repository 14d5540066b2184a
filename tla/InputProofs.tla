---------------------------- MODULE InputProofs -----------------------------
(***************************************************************************)
(* What holds of the controls for any keys and bindings: the controller    *)
(* counts right until a command jumps or a press goes unheard, and whoever *)
(* it believes to hold the ability's key and to move has dashed. And no    *)
(* player moves without a key: every handler's value is the sum of what    *)
(* is bound to the keys that are down.                                     *)
(*                                                                         *)
(* And of what the mouse points at, for any world and any picture: what is *)
(* drawn is what is picked, whoever is solid can be hit, and clicks are    *)
(* meant.                                                                  *)
(***************************************************************************)
EXTENDS Controls, Picking, FiniteSetTheorems, WellFoundedInduction, TLAPS

(* How many directions the player moves in. *)
Moving(ctl) == Cardinality({c \in Movement : ctl.movement[c] # 0})

(* The count is that of the directions, and the flag follows it. *)
Counts(ctl) ==
  /\ ctl.numberOfMovementKeysDown = Moving(ctl)
  /\ ctl.movementKeyDown <=> (ctl.numberOfMovementKeysDown > 0)

(* The dash by the ability's key is armed while both keys are down. *)
Armed(ctl) ==
  ctl.shiftDashing <=> (ctl.specialAbilityKeyDown /\ ctl.movementKeyDown)

(* Nobody moves by a command that is 0. *)
MotionNeedsCommands ==
  \A c \in Movement : controller.movement[c] # 0 => m_LastCommandValues[c] # 0

(* The inductive invariant of the controls.                                *)
Inv ==
  /\ TypeOK
  /\ MotionNeedsCommands
  /\ Armed(controller)
  /\ ~miscounted => Counts(controller)
  /\ DashesAreHeeded

-----------------------------------------------------------------------------
(* The directions, one by one. *)
LEMMA MovingIs ==
  ASSUME NEW ctl \in Controller
  PROVE  Moving(ctl) = (IF ctl.movement["Forward"] # 0 THEN 1 ELSE 0)
                       + (IF ctl.movement["Right"] # 0 THEN 1 ELSE 0)
<1> DEFINE S == {c \in Movement : ctl.movement[c] # 0}
<1>1. Moving(ctl) = Cardinality(S)
  BY DEF Moving
<1>2. \A c : c \in S <=> c \in {"Forward", "Right"} /\ ctl.movement[c] # 0
  BY DEF Movement
<1> HIDE DEF S
<1>3. CASE ctl.movement["Forward"] # 0 /\ ctl.movement["Right"] # 0
  <2>1. S = {"Forward"} \cup {"Right"}
    BY <1>2, <1>3
  <2>2. /\ IsFiniteSet({"Forward"})
        /\ Cardinality({"Forward"}) = 1
    BY FS_Singleton
  <2>3. Cardinality({"Forward"} \cup {"Right"}) = 2
    BY <2>2, FS_AddElement
  <2>4. Cardinality(S) = 2
    BY <2>1, <2>3
  <2> QED BY <1>1, <1>3, <2>4
<1>4. CASE ctl.movement["Forward"] # 0 /\ ctl.movement["Right"] = 0
  <2>1. S = {"Forward"}
    BY <1>2, <1>4
  <2>2. Cardinality(S) = 1
    BY <2>1, FS_Singleton
  <2> QED BY <1>1, <1>4, <2>2
<1>5. CASE ctl.movement["Forward"] = 0 /\ ctl.movement["Right"] # 0
  <2>1. S = {"Right"}
    BY <1>2, <1>5
  <2>2. Cardinality(S) = 1
    BY <2>1, FS_Singleton
  <2> QED BY <1>1, <1>5, <2>2
<1>6. CASE ctl.movement["Forward"] = 0 /\ ctl.movement["Right"] = 0
  <2>1. S = {}
    BY <1>2, <1>6
  <2>2. Cardinality(S) = 0
    BY <2>1, FS_EmptySet
  <2> QED BY <1>1, <1>6, <2>2
<1> QED BY <1>3, <1>4, <1>5, <1>6

(* The fields a command may change, one after the other. *)
LEMMA FieldsChange ==
  ASSUME NEW ctl \in Controller
  PROVE  /\ \A m \in Motion, d \in Direction :
              /\ [ctl EXCEPT !.movement = m, !.currentDirection = d] \in Controller
              /\ [ctl EXCEPT !.movement = m, !.tapDirection = d] \in Controller
         /\ \A n \in Int : [ctl EXCEPT !.numberOfMovementKeysDown = n] \in Controller
         /\ \A t \in 0 .. DoubleTapSensitivity :
              [ctl EXCEPT !.doubleTapDeltaTime = t] \in Controller
<1>1. \A m \in Motion, d \in Direction :
        [ctl EXCEPT !.movement = m, !.currentDirection = d] \in Controller
  BY DEF Controller
<1>2. \A m \in Motion, d \in Direction :
        [ctl EXCEPT !.movement = m, !.tapDirection = d] \in Controller
  BY DEF Controller
<1>3. \A n \in Int : [ctl EXCEPT !.numberOfMovementKeysDown = n] \in Controller
  BY DEF Controller
<1>4. \A t \in 0 .. DoubleTapSensitivity :
        [ctl EXCEPT !.doubleTapDeltaTime = t] \in Controller
  BY DEF Controller
<1> QED BY <1>1, <1>2, <1>3, <1>4

(* What a press changes. *)
LEMMA PressedDoes ==
  ASSUME NEW ctl \in Controller, NEW c \in Movement, NEW v \in Int, v # 0
  PROVE  LET new == Pressed(ctl, c, v) IN
         /\ new \in Controller
         /\ new.movement[c] # 0
         /\ \A d \in Movement \ {c} : new.movement[d] = ctl.movement[d]
         /\ new.numberOfMovementKeysDown = ctl.numberOfMovementKeysDown + 1
         /\ new.movementKeyDown
         /\ new.specialAbilityKeyDown = ctl.specialAbilityKeyDown
<1>1. SignOf(v) \in -1 .. 1 /\ SignOf(v) # 0
  BY DEF SignOf
<1>2. DirectionOf(c, v) \in Direction
  BY DEF DirectionOf, Direction
<1>3. [ctl.movement EXCEPT ![c] = SignOf(v)] \in Motion
  BY <1>1 DEF Controller, Motion
<1>4. ctl.movement \in Motion
  BY DEF Controller
<1>5. Pressed(ctl, c, v) \in Controller
  <2> DEFINE m == [ctl.movement EXCEPT ![c] = SignOf(v)]
             d == DirectionOf(c, v)
             q == [ctl EXCEPT !.movement = m, !.currentDirection = d]
             p == [q EXCEPT !.numberOfMovementKeysDown = ctl.numberOfMovementKeysDown + 1]
             r == [p EXCEPT !.movementKeyDown = TRUE]
  <2>1. Pressed(ctl, c, v) \in {r, [r EXCEPT !.validDoubleTap = TRUE]}
    BY DEF Pressed, Controller
  <2>2. m \in Motion /\ d \in Direction
    BY <1>2, <1>3
  <2> HIDE DEF m, d
  <2>3. r \in Controller
    <3>1. q \in Controller
      BY <2>2, FieldsChange
    <3>2. ctl.numberOfMovementKeysDown + 1 \in Int
      BY DEF Controller
    <3> HIDE DEF q
    <3>3. p \in Controller
      BY <3>1, <3>2, FieldsChange
    <3> HIDE DEF p
    <3> QED BY <3>3 DEF Controller
  <2> HIDE DEF r
  <2>4. [r EXCEPT !.validDoubleTap = TRUE] \in Controller
    BY <2>3 DEF Controller
  <2> QED BY <2>1, <2>3, <2>4
<1>6. Pressed(ctl, c, v).movement = [ctl.movement EXCEPT ![c] = SignOf(v)]
  BY DEF Pressed, Controller
<1>7. /\ Pressed(ctl, c, v).numberOfMovementKeysDown = ctl.numberOfMovementKeysDown + 1
      /\ Pressed(ctl, c, v).specialAbilityKeyDown = ctl.specialAbilityKeyDown
      /\ Pressed(ctl, c, v).movementKeyDown = TRUE
  BY DEF Pressed, Controller
<1> QED BY <1>1, <1>4, <1>5, <1>6, <1>7 DEF Motion

(* What a release changes. *)
LEMMA ReleasedDoes ==
  ASSUME NEW ctl \in Controller, NEW c \in Movement
  PROVE  LET new == Released(ctl, c) IN
         /\ new \in Controller
         /\ new.movement[c] = 0
         /\ \A d \in Movement \ {c} : new.movement[d] = ctl.movement[d]
         /\ new.numberOfMovementKeysDown = ctl.numberOfMovementKeysDown - 1
         /\ new.movementKeyDown
              <=> (ctl.movementKeyDown /\ ctl.numberOfMovementKeysDown # 1)
         /\ new.specialAbilityKeyDown = ctl.specialAbilityKeyDown
<1>1. [ctl.movement EXCEPT ![c] = 0] \in Motion
  BY DEF Controller, Motion
<1>2. ctl.movement \in Motion
  BY DEF Controller
<1>3. Released(ctl, c) \in Controller
  <2> DEFINE m == [ctl.movement EXCEPT ![c] = 0]
             q == [ctl EXCEPT !.movement = m, !.tapDirection = ctl.currentDirection]
             p == [q EXCEPT !.numberOfMovementKeysDown = ctl.numberOfMovementKeysDown - 1]
             r == [p EXCEPT !.doubleTapDeltaTime = 0]
  <2>1. Released(ctl, c) \in {r, [r EXCEPT !.movementKeyDown = FALSE]}
    BY DEF Released, Controller
  <2>2. m \in Motion /\ 0 \in 0 .. DoubleTapSensitivity
    BY <1>1, ControlsAssumption
  <2> HIDE DEF m
  <2>3. r \in Controller
    <3>1. q \in Controller
      <4>1. ctl.currentDirection \in Direction
        BY DEF Controller
      <4> QED BY <2>2, <4>1, FieldsChange
    <3>2. ctl.numberOfMovementKeysDown - 1 \in Int
      BY DEF Controller
    <3> HIDE DEF q
    <3>3. p \in Controller
      BY <3>1, <3>2, FieldsChange
    <3> HIDE DEF p
    <3> QED BY <2>2, <3>3, FieldsChange
  <2> HIDE DEF r
  <2>4. [r EXCEPT !.movementKeyDown = FALSE] \in Controller
    BY <2>3 DEF Controller
  <2> QED BY <2>1, <2>3, <2>4
<1>4. Released(ctl, c).movement = [ctl.movement EXCEPT ![c] = 0]
  BY DEF Released, Controller
<1>5. /\ Released(ctl, c).numberOfMovementKeysDown = ctl.numberOfMovementKeysDown - 1
      /\ Released(ctl, c).specialAbilityKeyDown = ctl.specialAbilityKeyDown
  BY DEF Released, Controller
<1>6. Released(ctl, c).movementKeyDown =
        IF ctl.numberOfMovementKeysDown = 1 THEN FALSE ELSE ctl.movementKeyDown
  BY DEF Released, Controller
<1> QED BY <1>1, <1>2, <1>3, <1>4, <1>5, <1>6 DEF Motion

(* After any command the dash is armed or not, and nothing else changes. *)
LEMMA ArmingDoes ==
  ASSUME NEW ctl \in Controller
  PROVE  LET new == [ctl EXCEPT !.shiftDashing =
                       ctl.specialAbilityKeyDown /\ ctl.movementKeyDown] IN
         /\ new \in Controller
         /\ Armed(new)
         /\ new.movement = ctl.movement
         /\ new.numberOfMovementKeysDown = ctl.numberOfMovementKeysDown
         /\ new.movementKeyDown = ctl.movementKeyDown
         /\ new.specialAbilityKeyDown = ctl.specialAbilityKeyDown
<1>1. CASE ctl.specialAbilityKeyDown /\ ctl.movementKeyDown
  <2>1. [ctl EXCEPT !.shiftDashing = ctl.specialAbilityKeyDown /\ ctl.movementKeyDown]
          = [ctl EXCEPT !.shiftDashing = TRUE]
    BY <1>1
  <2>2. [ctl EXCEPT !.shiftDashing = TRUE] \in Controller
    BY DEF Controller
  <2> QED BY <1>1, <2>1, <2>2 DEF Armed, Controller
<1>2. CASE ~(ctl.specialAbilityKeyDown /\ ctl.movementKeyDown)
  <2>1. [ctl EXCEPT !.shiftDashing = ctl.specialAbilityKeyDown /\ ctl.movementKeyDown]
          = [ctl EXCEPT !.shiftDashing = FALSE]
    BY <1>2
  <2>2. [ctl EXCEPT !.shiftDashing = FALSE] \in Controller
    BY DEF Controller
  <2> QED BY <1>2, <2>1, <2>2 DEF Armed, Controller
<1> QED BY <1>1, <1>2

(* A movement command that is heard: it counts right, unless it miscounts. *)
LEMMA MovementIsHeard ==
  ASSUME NEW ctl \in Controller, NEW c \in Movement, NEW published,
         CommandValue(c) \in Int
  PROVE  LET new == Hear(ctl, c, published) IN
         /\ new \in Controller
         /\ Armed(ctl) => Armed(new)
         /\ \A d \in Movement \ {c} : new.movement[d] = ctl.movement[d]
         /\ c \notin published => new = ctl
         /\ c \in published => (new.movement[c] # 0 <=> CommandValue(c) # 0)
         /\ /\ Counts(ctl)
            /\ c \in published => ~((CommandValue(c) # 0) = (ctl.movement[c] # 0))
            => Counts(new)
<1> DEFINE v == CommandValue(c)
<1>0. c # "SpecialAbility"
  BY DEF Movement
<1>1. CASE c \notin published
  BY <1>1 DEF Hear
<1>2. CASE c \in published /\ v # 0
  <2> DEFINE pressed == Pressed(ctl, c, v)
             new == Hear(ctl, c, published)
  <2>1. /\ pressed \in Controller
        /\ pressed.movement[c] # 0
        /\ \A d \in Movement \ {c} : pressed.movement[d] = ctl.movement[d]
        /\ pressed.numberOfMovementKeysDown = ctl.numberOfMovementKeysDown + 1
        /\ pressed.movementKeyDown
    BY <1>2, PressedDoes
  <2>2. new = [pressed EXCEPT !.shiftDashing =
                 pressed.specialAbilityKeyDown /\ pressed.movementKeyDown]
    BY <1>0, <1>2 DEF Hear, OnCommand
  <2> HIDE DEF pressed, new
  <2>3. /\ new \in Controller
        /\ Armed(new)
        /\ new.movement = pressed.movement
        /\ new.numberOfMovementKeysDown = pressed.numberOfMovementKeysDown
        /\ new.movementKeyDown = pressed.movementKeyDown
    BY <2>1, <2>2, ArmingDoes
  <2>4. ASSUME Counts(ctl), ~((v # 0) = (ctl.movement[c] # 0))
        PROVE  Counts(new)
    <3>1. ctl.movement[c] = 0
      BY <1>2, <2>4
    <3>2. Moving(new) = Moving(ctl) + 1
      BY <2>1, <2>3, <3>1, MovingIs DEF Movement
    <3>3. Moving(ctl) \in {0, 1, 2}
      BY MovingIs
    <3> QED BY <2>1, <2>3, <2>4, <3>2, <3>3 DEF Counts
  <2> QED BY <1>2, <2>1, <2>3, <2>4 DEF new
<1>3. CASE c \in published /\ v = 0
  <2> DEFINE released == Released(ctl, c)
             new == Hear(ctl, c, published)
  <2>1. /\ released \in Controller
        /\ released.movement[c] = 0
        /\ \A d \in Movement \ {c} : released.movement[d] = ctl.movement[d]
        /\ released.numberOfMovementKeysDown = ctl.numberOfMovementKeysDown - 1
        /\ released.movementKeyDown
             <=> (ctl.movementKeyDown /\ ctl.numberOfMovementKeysDown # 1)
    BY ReleasedDoes
  <2>2. new = [released EXCEPT !.shiftDashing =
                 released.specialAbilityKeyDown /\ released.movementKeyDown]
    BY <1>0, <1>3 DEF Hear, OnCommand
  <2> HIDE DEF released, new
  <2>3. /\ new \in Controller
        /\ Armed(new)
        /\ new.movement = released.movement
        /\ new.numberOfMovementKeysDown = released.numberOfMovementKeysDown
        /\ new.movementKeyDown = released.movementKeyDown
    BY <2>1, <2>2, ArmingDoes
  <2>4. ASSUME Counts(ctl), ~((v # 0) = (ctl.movement[c] # 0))
        PROVE  Counts(new)
    <3>1. ctl.movement[c] # 0
      BY <1>3, <2>4
    <3>2. Moving(new) = Moving(ctl) - 1
      BY <2>1, <2>3, <3>1, MovingIs DEF Movement
    <3>3. Moving(ctl) \in {1, 2}
      BY <3>1, MovingIs DEF Movement
    <3> QED BY <2>1, <2>3, <2>4, <3>2, <3>3 DEF Counts
  <2> QED BY <1>3, <2>1, <2>3, <2>4 DEF new
<1> QED BY <1>1, <1>2, <1>3

(* The ability's command leaves the movement alone. *)
LEMMA AbilityIsHeard ==
  ASSUME NEW ctl \in Controller, NEW published,
         CommandValue("SpecialAbility") \in Int
  PROVE  LET new == Hear(ctl, "SpecialAbility", published) IN
         /\ new \in Controller
         /\ Armed(ctl) => Armed(new)
         /\ new.movement = ctl.movement
         /\ Counts(ctl) => Counts(new)
<1> DEFINE v == CommandValue("SpecialAbility")
           new == Hear(ctl, "SpecialAbility", published)
<1>1. CASE "SpecialAbility" \notin published
  BY <1>1 DEF Hear
<1>2. CASE "SpecialAbility" \in published
  <2> DEFINE used == [ctl EXCEPT !.specialAbilityKeyDown = v > 0]
  <2>1. used \in Controller
    <3>1. (v > 0) \in BOOLEAN
      OBVIOUS
    <3>2. \A b \in BOOLEAN : [ctl EXCEPT !.specialAbilityKeyDown = b] \in Controller
      BY DEF Controller
    <3> QED BY <3>1, <3>2
  <2>2. /\ used.movement = ctl.movement
        /\ used.numberOfMovementKeysDown = ctl.numberOfMovementKeysDown
        /\ used.movementKeyDown = ctl.movementKeyDown
    BY DEF Controller
  <2>3. new = [used EXCEPT !.shiftDashing =
                 used.specialAbilityKeyDown /\ used.movementKeyDown]
    BY <1>2 DEF Hear, OnCommand
  <2> HIDE DEF used, new
  <2>4. /\ new \in Controller
        /\ Armed(new)
        /\ new.movement = used.movement
        /\ new.numberOfMovementKeysDown = used.numberOfMovementKeysDown
        /\ new.movementKeyDown = used.movementKeyDown
    BY <2>1, <2>3, ArmingDoes
  <2> QED BY <2>2, <2>4 DEF Counts, Moving, new
<1> QED BY <1>1, <1>2

(* The check for a dash changes nothing of what was heard but the taps. *)
LEMMA CheckIsDone ==
  ASSUME NEW ctl \in Controller, NEW timer
  PROVE  LET new == AssaultDashCheck(ctl, timer) IN
         /\ new \in Controller
         /\ new.movement = ctl.movement
         /\ new.numberOfMovementKeysDown = ctl.numberOfMovementKeysDown
         /\ new.movementKeyDown = ctl.movementKeyDown
         /\ new.specialAbilityKeyDown = ctl.specialAbilityKeyDown
         /\ new.shiftDashing = ctl.shiftDashing
<1> DEFINE b == Dashes(ctl, timer)
           l == LooksForTaps(ctl, timer)
           k == IF l THEN FALSE ELSE ctl.validDoubleTap
           t == IF ShiftDashes(ctl, timer) \/ (l /\ ctl.validDoubleTap) THEN 0
                ELSE IF ctl.doubleTapDeltaTime < DoubleTapSensitivity
                     THEN ctl.doubleTapDeltaTime + 1 ELSE ctl.doubleTapDeltaTime
<1>1. b \in BOOLEAN
  BY DEF Dashes
<1>2. k \in BOOLEAN
  BY DEF Controller
<1>3. t \in 0 .. DoubleTapSensitivity
  <2>1. ctl.doubleTapDeltaTime \in 0 .. DoubleTapSensitivity
    BY DEF Controller
  <2> QED BY <2>1, ControlsAssumption
<1>4. AssaultDashCheck(ctl, timer) =
        [ctl EXCEPT !.doubleTapped = b, !.validDoubleTap = k, !.doubleTapDeltaTime = t]
  BY DEF AssaultDashCheck
<1> HIDE DEF b, k, t
<1>5. \A d \in BOOLEAN, v \in BOOLEAN, s \in 0 .. DoubleTapSensitivity :
        LET new == [ctl EXCEPT !.doubleTapped = d, !.validDoubleTap = v,
                               !.doubleTapDeltaTime = s] IN
        /\ new \in Controller
        /\ new.movement = ctl.movement
        /\ new.numberOfMovementKeysDown = ctl.numberOfMovementKeysDown
        /\ new.movementKeyDown = ctl.movementKeyDown
        /\ new.specialAbilityKeyDown = ctl.specialAbilityKeyDown
        /\ new.shiftDashing = ctl.shiftDashing
  BY DEF Controller
<1> DEFINE new == [ctl EXCEPT !.doubleTapped = b, !.validDoubleTap = k,
                              !.doubleTapDeltaTime = t]
<1>6. /\ new \in Controller
      /\ new.movement = ctl.movement
      /\ new.numberOfMovementKeysDown = ctl.numberOfMovementKeysDown
      /\ new.movementKeyDown = ctl.movementKeyDown
      /\ new.specialAbilityKeyDown = ctl.specialAbilityKeyDown
      /\ new.shiftDashing = ctl.shiftDashing
  BY <1>1, <1>2, <1>3, <1>5
<1> HIDE DEF new
<1> QED BY <1>4, <1>6 DEF new

LEMMA ValuesAreIntegers ==
  ASSUME TypeOK, NEW c \in Command
  PROVE  CommandValue(c) \in Int
BY DEF TypeOK, CommandValue, Handler

-----------------------------------------------------------------------------
(* The invariant. *)

LEMMA InitEstablishes == Init => Inv
<1> SUFFICES ASSUME Init PROVE Inv
  OBVIOUS
<1>1. NewController \in Controller
  BY ControlsAssumption DEF NewController, Controller, Motion, Direction
<1>2. TypeOK
  <2>1. 0 \in 0 .. CoolDownMaxTimer
    BY ControlsAssumption
  <2>2. /\ m_CommandValues \in [Handler -> [Command -> Int]]
        /\ m_LastCommandValues \in [Command -> Int]
    BY DEF Init
  <2>3. /\ m_CurrentKeyState \subseteq Key
        /\ m_LastKeyState \subseteq Key
        /\ controller \in Controller
        /\ coolDownTimer \in 0 .. CoolDownMaxTimer
        /\ miscounted \in BOOLEAN
    BY <1>1, <2>1 DEF Init
  <2> QED BY <2>2, <2>3 DEF TypeOK
<1>3. MotionNeedsCommands /\ Armed(controller) /\ DashesAreHeeded
  BY DEF Init, MotionNeedsCommands, Armed, DashesAreHeeded, NewController
<1>4. Counts(controller)
  <2>1. /\ NewController.movement["Forward"] = 0
        /\ NewController.movement["Right"] = 0
        /\ NewController.numberOfMovementKeysDown = 0
        /\ NewController.movementKeyDown = FALSE
    BY DEF NewController, Movement
  <2>2. Moving(NewController) = 0
    BY <1>1, <2>1, MovingIs
  <2>3. Counts(NewController)
    BY <2>1, <2>2 DEF Counts
  <2> QED BY <2>3 DEF Init
<1> QED BY <1>2, <1>3, <1>4 DEF Inv

LEMMA KeyChangeKeeps ==
  ASSUME Inv, NEW k \in Key, KeyChange(k)
  PROVE  Inv'
<1>1. TypeOK'
  <2>1. m_CommandValues' \in [Handler -> [Command -> Int]]
    <3>1. /\ Binding[k].handler \in Handler
          /\ Binding[k].command \in Command
          /\ Binding[k].value \in Int
      BY ControlsAssumption
    <3>2. ASSUME NEW value \in Int, OnKey(k, value)
          PROVE  m_CommandValues' \in [Handler -> [Command -> Int]]
      BY <3>1, <3>2 DEF OnKey, Inv, TypeOK
    <3>3. -Binding[k].value \in Int
      BY <3>1
    <3> QED BY <3>1, <3>2, <3>3 DEF KeyChange
  <2>2. m_CurrentKeyState' \subseteq Key
    BY DEF Inv, TypeOK, KeyChange
  <2> QED BY <2>1, <2>2 DEF Inv, TypeOK, KeyChange
<1> QED
  BY <1>1 DEF Inv, MotionNeedsCommands, Armed, Counts, Moving, DashesAreHeeded, KeyChange

(* What a tick does to the keyboard's side. *)
LEMMA InputIsProcessed ==
  ASSUME TypeOK, ProcessInput
  PROVE  /\ m_CurrentKeyState' \subseteq Key
         /\ m_LastKeyState' \subseteq Key
         /\ m_CommandValues' \in [Handler -> [Command -> Int]]
         /\ m_LastCommandValues' \in [Command -> Int]
         /\ \A c \in Command : m_LastCommandValues'[c] = CommandValue(c)
BY ValuesAreIntegers DEF TypeOK, ProcessInput

LEMMA TickKeeps ==
  ASSUME Inv, NEW suppressNewEvents \in BOOLEAN, Tick(suppressNewEvents)
  PROVE  Inv'
<1> DEFINE P == Published(suppressNewEvents)
           one == Hear(controller, "Forward", P)
           two == Hear(one, "Right", P)
           heard == Hear(two, "SpecialAbility", P)
           timer == IF coolDownTimer > 0 THEN coolDownTimer - 1 ELSE 0
<1>1. /\ ProcessInput
      /\ controller' = AssaultDashCheck(heard, timer)
      /\ coolDownTimer' = IF Dashes(heard, timer) THEN CoolDownMaxTimer ELSE timer
      /\ miscounted' = (miscounted \/ Miscounts(controller, P))
  BY DEF Tick, HearAll
<1>2. \A c \in Command : CommandValue(c) \in Int
  BY ValuesAreIntegers DEF Inv
<1>3. /\ "Forward" \in Movement
      /\ "Right" \in Movement
      /\ "SpecialAbility" \in Command
      /\ Movement \subseteq Command
      /\ \A c \in Movement : c = "Forward" \/ c = "Right"
  BY DEF Movement, Command
<1>4. controller \in Controller /\ Armed(controller)
  BY DEF Inv, TypeOK
<1>5. ASSUME ~miscounted'
      PROVE  /\ Counts(controller)
             /\ \A c \in Movement :
                  c \in P => ~((CommandValue(c) # 0) = (controller.movement[c] # 0))
  BY <1>1, <1>5 DEF Inv, Miscounts
<1> HIDE DEF P
<1>6. /\ one \in Controller
      /\ Armed(one)
      /\ one.movement["Right"] = controller.movement["Right"]
      /\ "Forward" \notin P => one.movement["Forward"] = controller.movement["Forward"]
      /\ "Forward" \in P =>
           (one.movement["Forward"] # 0 <=> CommandValue("Forward") # 0)
      /\ ~miscounted' => Counts(one)
  BY <1>2, <1>3, <1>4, <1>5, MovementIsHeard
<1> HIDE DEF one
<1>7. /\ two \in Controller
      /\ Armed(two)
      /\ two.movement["Forward"] = one.movement["Forward"]
      /\ "Right" \notin P => two.movement["Right"] = one.movement["Right"]
      /\ "Right" \in P => (two.movement["Right"] # 0 <=> CommandValue("Right") # 0)
      /\ ~miscounted' => Counts(two)
  BY <1>2, <1>3, <1>5, <1>6, MovementIsHeard
<1> HIDE DEF two
<1>8. /\ heard \in Controller
      /\ Armed(heard)
      /\ heard.movement = two.movement
      /\ ~miscounted' => Counts(heard)
  BY <1>2, <1>3, <1>7, AbilityIsHeard
<1> HIDE DEF heard
<1>9. /\ controller' \in Controller
      /\ controller'.movement = heard.movement
      /\ controller'.numberOfMovementKeysDown = heard.numberOfMovementKeysDown
      /\ controller'.movementKeyDown = heard.movementKeyDown
      /\ controller'.specialAbilityKeyDown = heard.specialAbilityKeyDown
      /\ controller'.shiftDashing = heard.shiftDashing
  BY <1>1, <1>8, CheckIsDone
<1>10. timer \in 0 .. CoolDownMaxTimer
  BY ControlsAssumption DEF Inv, TypeOK
<1> HIDE DEF timer
<1>11. TypeOK'
  <2>1. coolDownTimer' \in 0 .. CoolDownMaxTimer
    BY <1>1, <1>10, ControlsAssumption
  <2>2. miscounted' \in BOOLEAN
    BY <1>1
  <2> QED BY <1>1, <1>9, <2>1, <2>2, InputIsProcessed DEF Inv, TypeOK
<1>12. MotionNeedsCommands'
  <2> SUFFICES ASSUME NEW c \in Movement, controller'.movement[c] # 0
               PROVE  CommandValue(c) # 0
    BY <1>1, <1>3, InputIsProcessed DEF MotionNeedsCommands, Inv
  <2>1. CASE c \in P
    BY <1>3, <1>6, <1>7, <1>8, <1>9, <2>1
  <2>2. CASE c \notin P
    <3>1. controller.movement[c] # 0
      BY <1>3, <1>6, <1>7, <1>8, <1>9, <2>2
    <3>2. m_LastCommandValues[c] # 0
      BY <3>1 DEF Inv, MotionNeedsCommands
    <3>3. CommandValue(c) = m_LastCommandValues[c] \/ CommandValue(c) # 0
      BY <1>3, <2>2 DEF P, Published
    <3> QED BY <3>2, <3>3
  <2> QED BY <2>1, <2>2
<1>13. Armed(controller')
  BY <1>8, <1>9 DEF Armed
<1>14. ~miscounted' => Counts(controller')
  BY <1>8, <1>9 DEF Counts, Moving
<1>15. DashesAreHeeded'
  <2> SUFFICES ASSUME ~miscounted', controller'.specialAbilityKeyDown,
                      NEW c \in Movement, controller'.movement[c] # 0
               PROVE  coolDownTimer' > 0
    BY DEF DashesAreHeeded
  <2>1. controller'.movementKeyDown
    <3>1. Moving(controller') > 0
      BY <1>3, <1>9, MovingIs
    <3> QED BY <1>14, <3>1 DEF Counts
  <2>2. heard.shiftDashing
    BY <1>9, <1>13, <2>1 DEF Armed
  <2>3. timer = 0 => Dashes(heard, timer)
    BY <2>2 DEF Dashes, ShiftDashes
  <2> QED BY <1>1, <1>10, <2>3, ControlsAssumption
<1> QED
  BY <1>11, <1>12, <1>13, <1>14, <1>15 DEF Inv, Armed, Counts, Moving

LEMMA SpawnKeeps ==
  ASSUME Inv, Spawn
  PROVE  Inv'
<1>1. NewController \in Controller
  BY ControlsAssumption DEF NewController, Controller, Motion, Direction
<1>2. /\ controller' \in Controller
      /\ controller'.movement = NewController.movement
      /\ controller'.numberOfMovementKeysDown = NewController.numberOfMovementKeysDown
      /\ controller'.movementKeyDown = NewController.movementKeyDown
      /\ controller'.specialAbilityKeyDown = NewController.specialAbilityKeyDown
      /\ controller'.shiftDashing = NewController.shiftDashing
  BY <1>1, CheckIsDone DEF Spawn
<1>3. TypeOK'
  <2>1. 0 \in 0 .. CoolDownMaxTimer
    BY ControlsAssumption
  <2>2. coolDownTimer' \in 0 .. CoolDownMaxTimer /\ miscounted' \in BOOLEAN
    BY <2>1 DEF Spawn
  <2>3. TypeOK /\ ProcessInput
    BY DEF Inv, Spawn
  <2> QED BY <1>2, <2>2, <2>3, InputIsProcessed DEF TypeOK
<1>4. \A c \in Movement : controller'.movement[c] = 0
  BY <1>2 DEF NewController
<1>5. MotionNeedsCommands' /\ DashesAreHeeded'
  BY <1>4 DEF MotionNeedsCommands, DashesAreHeeded
<1>6. Armed(controller')
  BY <1>2 DEF Armed, NewController
<1>7. Counts(controller')
  <2>1. Moving(controller') = 0
    BY <1>2, <1>4, MovingIs DEF Movement
  <2> QED BY <1>2, <2>1 DEF Counts, NewController
<1> QED BY <1>3, <1>5, <1>6, <1>7 DEF Inv, Armed, Counts, Moving

(* The inductive invariant: motion follows the proxy's values, the dash is *)
(* armed by the two flags, and both are right unless something went by     *)
(* unheard.                                                                *)
THEOREM Invariance == Spec => []Inv
<1>1. Inv /\ [Next]_vars => Inv'
  <2> SUFFICES ASSUME Inv, [Next]_vars PROVE Inv'
    OBVIOUS
  <2>1. CASE \E k \in Key : KeyChange(k)
    BY <2>1, KeyChangeKeeps
  <2>2. CASE \E suppressNewEvents \in BOOLEAN : Tick(suppressNewEvents)
    BY <2>2, TickKeeps
  <2>3. CASE Spawn
    BY <2>3, SpawnKeeps
  <2>4. CASE UNCHANGED vars
    BY <2>4 DEF vars, Inv, TypeOK, MotionNeedsCommands, Armed, Counts, Moving,
                DashesAreHeeded
  <2> QED BY <2>1, <2>2, <2>3, <2>4 DEF Next
<1> QED BY <1>1, InitEstablishes, PTL DEF Spec

(* The controls have their types for any keys, bindings and timers. *)
THEOREM TypeCorrect == Spec => []TypeOK
BY Invariance, PTL DEF Inv

(* Nobody moves by a command that InputProxy has at 0: the releases that   *)
(* Process lets pass are enough to stop every player.                      *)
THEOREM MotionAlwaysNeedsCommands == Spec => []MotionNeedsCommands
BY Invariance, PTL DEF Inv

(* The count of movement keys is right for any bindings and any order of   *)
(* presses, as long as no command jumped or went unheard.                  *)
THEOREM KeysAreAlwaysCounted == Spec => []KeysAreCounted
<1>1. Inv => KeysAreCounted
  BY DEF Inv, KeysAreCounted, Counts, Moving
<1> QED BY <1>1, Invariance, PTL

(* Whoever moves with the ability's key down is cooling down from a dash.  *)
THEOREM DashesAreAlwaysHeeded == Spec => []DashesAreHeeded
BY Invariance, PTL DEF Inv

-----------------------------------------------------------------------------
(* What the handlers' sums are sums of. *)

(* What a key that is down adds to a handler's value of a command. *)
Weight(h, c) ==
  [k \in Key |-> IF Binding[k].handler = h /\ Binding[k].command = c
                   THEN Binding[k].value ELSE 0]

(* sum gives every set of keys the sum of their weights. *)
SumsUp(sum, weight, K) ==
  /\ sum \in [SUBSET K -> Int]
  /\ sum[{}] = 0
  /\ \A S \in SUBSET K : \A k \in K \ S : sum[S \cup {k}] = sum[S] + weight[k]

(* Every handler's value is the sum of the values of the keys that are     *)
(* down, ...                                                               *)
ValuesAreSums ==
  \A h \in Handler, c \in Command : \A sum :
    SumsUp(sum, Weight(h, c), Key) => m_CommandValues[h][c] = sum[m_CurrentKeyState]

(* ... and at the proxy there was no value without a key.                  *)
ValuesNeedKeys ==
  \A c \in Command :
    m_LastCommandValues[c] # 0 => \E k \in m_LastKeyState : Binding[k].command = c

(* A set of keys that has a property that none of its parts has.           *)
LEMMA SmallestExists ==
  ASSUME NEW T \in SUBSET (SUBSET Key), T # {}
  PROVE  \E S \in T : \A R \in T : R \subseteq S => R = S
<1>1. IsWellFoundedOn(StrictSubsetOrdering(Key), FiniteSubsetsOf(Key))
  BY FS_StrictSubsetOrderingWellFounded
<1>2. FiniteSubsetsOf(Key) = SUBSET Key
  BY FS_FiniteSubsetsOfFinite, KeysAssumption
<1>3. \E S \in T : \A R \in T : ~(<<R, S>> \in StrictSubsetOrdering(Key))
  BY <1>1, <1>2, WFMin, Zenon
<1>4. PICK S \in T : \A R \in T : ~(<<R, S>> \in StrictSubsetOrdering(Key))
  BY <1>3
<1>5. ASSUME NEW R \in T, R \subseteq S, R # S PROVE FALSE
  <2>1. <<R, S>> \in StrictSubsetOrdering(Key)
    BY <1>5 DEF StrictSubsetOrdering
  <2> QED BY <1>4, <2>1
<1> QED BY <1>5

(* Sums exist: those of a set of keys are made from those without a key.   *)
LEMMA SumsExist ==
  ASSUME NEW weight \in [Key -> Int]
  PROVE  \E sum : SumsUp(sum, weight, Key)
<1> DEFINE T == {L \in SUBSET Key : ~ \E sum : SumsUp(sum, weight, L)}
<1>1. ASSUME T # {} PROVE FALSE
  <2>0. T \in SUBSET (SUBSET Key)
    OBVIOUS
  <2>a. \E L \in T : \A R \in T : R \subseteq L => R = L
    <3> HIDE DEF T
    <3> QED BY <1>1, <2>0, SmallestExists
  <2>1. PICK L \in T : \A R \in T : R \subseteq L => R = L
    BY <2>a
  <2>2. CASE L = {}
    <3> DEFINE sum == [S \in SUBSET {} |-> 0]
    <3>1. SumsUp(sum, weight, {})
      BY DEF SumsUp
    <3> QED BY <2>1, <2>2, <3>1
  <2>3. CASE L # {}
    <3>1. PICK k \in L : TRUE
      BY <2>3
    <3> DEFINE R == L \ {k}
    <3>2. R \in SUBSET Key /\ R \notin T
      BY <2>1, <3>1
    <3>3. PICK part : SumsUp(part, weight, R)
      BY <3>2
    <3> DEFINE sum == [S \in SUBSET L |->
                         IF k \in S THEN part[S \ {k}] + weight[k] ELSE part[S]]
    <3>4. weight[k] \in Int /\ part \in [SUBSET R -> Int] /\ part[{}] = 0
      BY <2>1, <3>1, <3>3 DEF SumsUp
    <3>5. ASSUME NEW S \in SUBSET L
          PROVE  /\ k \in S => sum[S] = part[S \ {k}] + weight[k]
                 /\ k \notin S => sum[S] = part[S]
                 /\ part[S \ {k}] \in Int
                 /\ k \notin S => S \ {k} = S
      <4>1. S \ {k} \in SUBSET R
        OBVIOUS
      <4>2. part[S \ {k}] \in Int
        BY <3>4, <4>1
      <4> QED BY <4>2
    <3>6. sum \in [SUBSET L -> Int]
      <4>1. \A S \in SUBSET L :
              (IF k \in S THEN part[S \ {k}] + weight[k] ELSE part[S]) \in Int
        BY <3>4, <3>5
      <4> QED BY <4>1
    <3>7. sum[{}] = 0
      BY <3>4, <3>5
    <3>8. ASSUME NEW S \in SUBSET L, NEW j \in L \ S
          PROVE  sum[S \cup {j}] = sum[S] + weight[j]
      <4>0. S \cup {j} \in SUBSET L /\ weight[j] \in Int
        BY <2>1
      <4> HIDE DEF sum
      <4>1. CASE j = k
        <5>1. (S \cup {j}) \ {k} = S /\ k \notin S /\ k \in S \cup {j}
          BY <3>8, <4>1
        <5>2. sum[S] = part[S]
          BY <3>5, <5>1
        <5>3. sum[S \cup {j}] = part[S] + weight[k]
          BY <3>5, <4>0, <5>1
        <5> QED BY <4>1, <5>2, <5>3
      <4>2. CASE j # k
        <5>1. /\ S \ {k} \in SUBSET R /\ j \in R \ (S \ {k})
              /\ (S \cup {j}) \ {k} = (S \ {k}) \cup {j}
              /\ k \in S \cup {j} <=> k \in S
          BY <3>8, <4>2
        <5>2. part[(S \ {k}) \cup {j}] = part[S \ {k}] + weight[j]
          BY <3>3, <5>1 DEF SumsUp
        <5>3. CASE k \in S
          <6>1. sum[S \cup {j}] = part[(S \ {k}) \cup {j}] + weight[k]
            BY <3>5, <4>0, <5>1, <5>3
          <6>2. sum[S] = part[S \ {k}] + weight[k] /\ part[S \ {k}] \in Int
            BY <3>5, <5>3
          <6> QED BY <3>4, <4>0, <5>2, <6>1, <6>2
        <5>4. CASE k \notin S
          <6>1. sum[S \cup {j}] = part[S \cup {j}] /\ sum[S] = part[S] /\ S \ {k} = S
            BY <3>5, <4>0, <5>1, <5>4
          <6> QED BY <5>2, <6>1
        <5> QED BY <5>3, <5>4
      <4> QED BY <4>1, <4>2
    <3>9. SumsUp(sum, weight, L)
      BY <3>6, <3>7, <3>8 DEF SumsUp
    <3> QED BY <2>1, <3>9
  <2> QED BY <2>2, <2>3
<1> QED BY <1>1

(* The sum over keys that weigh nothing is 0.                              *)
LEMMA NothingSumsToZero ==
  ASSUME NEW weight, NEW sum, SumsUp(sum, weight, Key),
         NEW S \in SUBSET Key, \A k \in S : weight[k] = 0
  PROVE  sum[S] = 0
<1> DEFINE T == {R \in SUBSET S : sum[R] # 0}
<1>1. ASSUME T # {} PROVE FALSE
  <2>0. T \in SUBSET (SUBSET Key)
    OBVIOUS
  <2>a. \E R \in T : \A Q \in T : Q \subseteq R => Q = R
    <3> HIDE DEF T
    <3> QED BY <1>1, <2>0, SmallestExists
  <2>1. PICK R \in T : \A Q \in T : Q \subseteq R => Q = R
    BY <2>a
  <2>2. R # {}
    BY <2>1 DEF SumsUp
  <2>3. PICK k \in R : TRUE
    BY <2>2
  <2>4. R \ {k} \notin T /\ R \ {k} \in SUBSET S
    BY <2>1, <2>3
  <2>5. sum[R \ {k}] = 0
    BY <2>4
  <2>6. (R \ {k}) \cup {k} = R /\ k \in Key \ (R \ {k}) /\ R \ {k} \in SUBSET Key
    BY <2>1, <2>3
  <2>7. sum[R] = sum[R \ {k}] + weight[k]
    BY <2>6 DEF SumsUp
  <2>8. weight[k] = 0
    BY <2>1, <2>3
  <2> QED BY <2>1, <2>5, <2>7, <2>8
<1>2. S \in SUBSET S
  OBVIOUS
<1> QED BY <1>1, <1>2

(* A handler without a key of a command that is down has its value at 0.   *)
LEMMA ValueNeedsKey ==
  ASSUME TypeOK, ValuesAreSums, NEW c \in Command, CommandValue(c) # 0
  PROVE  \E k \in m_CurrentKeyState : Binding[k].command = c
<1> SUFFICES ASSUME \A k \in m_CurrentKeyState : Binding[k].command # c
             PROVE  FALSE
  OBVIOUS
<1>1. ASSUME NEW h \in Handler PROVE m_CommandValues[h][c] = 0
  <2>1. Weight(h, c) \in [Key -> Int]
    BY ControlsAssumption DEF Weight
  <2>2. PICK sum : SumsUp(sum, Weight(h, c), Key)
    BY <2>1, SumsExist
  <2>3. m_CommandValues[h][c] = sum[m_CurrentKeyState]
    BY <2>2 DEF ValuesAreSums
  <2>4. m_CurrentKeyState \in SUBSET Key
    BY DEF TypeOK
  <2>5. \A k \in m_CurrentKeyState : Weight(h, c)[k] = 0
    BY <2>4 DEF Weight
  <2> QED BY <2>2, <2>3, <2>4, <2>5, NothingSumsToZero
<1> QED BY <1>1 DEF CommandValue, Handler

(* A press adds the value bound to the key, a release takes it away.       *)
LEMMA KeyChangeKeepsSums ==
  ASSUME TypeOK, ValuesAreSums, NEW k \in Key, KeyChange(k)
  PROVE  ValuesAreSums'
<1> SUFFICES ASSUME NEW h \in Handler, NEW c \in Command, NEW sum,
                    SumsUp(sum, Weight(h, c), Key)
             PROVE  m_CommandValues'[h][c] = sum[m_CurrentKeyState']
  BY DEF ValuesAreSums
<1>1. m_CommandValues[h][c] = sum[m_CurrentKeyState] /\ m_CommandValues[h][c] \in Int
  BY DEF ValuesAreSums, TypeOK
<1>2. /\ Binding[k].handler \in Handler /\ Binding[k].command \in Command
      /\ Binding[k].value \in Int
  BY ControlsAssumption
<1>3. m_CurrentKeyState \in SUBSET Key
  BY DEF TypeOK
<1>4. ASSUME NEW value \in Int, OnKey(k, value)
      PROVE  m_CommandValues'[h][c] =
               IF Binding[k].handler = h /\ Binding[k].command = c
                 THEN m_CommandValues[h][c] + value ELSE m_CommandValues[h][c]
  BY <1>2, <1>4 DEF OnKey, TypeOK
<1>5. Weight(h, c)[k] = IF Binding[k].handler = h /\ Binding[k].command = c
                          THEN Binding[k].value ELSE 0
  BY DEF Weight
<1>6. CASE /\ k \notin m_CurrentKeyState
           /\ m_CurrentKeyState' = m_CurrentKeyState \cup {k}
           /\ OnKey(k, Binding[k].value)
  <2>1. sum[m_CurrentKeyState \cup {k}] = sum[m_CurrentKeyState] + Weight(h, c)[k]
    BY <1>3, <1>6 DEF SumsUp
  <2> QED BY <1>1, <1>2, <1>4, <1>5, <1>6, <2>1
<1>7. CASE /\ k \in m_CurrentKeyState
           /\ m_CurrentKeyState' = m_CurrentKeyState \ {k}
           /\ OnKey(k, -Binding[k].value)
  <2> DEFINE S == m_CurrentKeyState \ {k}
  <2>1. S \in SUBSET Key /\ k \in Key \ S /\ S \cup {k} = m_CurrentKeyState
    BY <1>3, <1>7
  <2>2. sum[m_CurrentKeyState] = sum[S] + Weight(h, c)[k] /\ sum[S] \in Int
    BY <2>1 DEF SumsUp
  <2>3. m_CurrentKeyState' = S
    BY <1>7
  <2> HIDE DEF S
  <2>4. -Binding[k].value \in Int
    BY <1>2
  <2>5. m_CommandValues'[h][c] =
          IF Binding[k].handler = h /\ Binding[k].command = c
            THEN m_CommandValues[h][c] + (-Binding[k].value) ELSE m_CommandValues[h][c]
    BY <1>4, <1>7, <2>4
  <2>6. CASE Binding[k].handler = h /\ Binding[k].command = c
    <3>1. m_CommandValues'[h][c] = sum[m_CurrentKeyState] + (-Binding[k].value)
      BY <1>1, <2>5, <2>6
    <3>2. sum[m_CurrentKeyState] = sum[S] + Binding[k].value
      BY <1>5, <2>2, <2>6
    <3>3. \A n, v \in Int : (n + v) + (-v) = n
      OBVIOUS
    <3>4. (sum[S] + Binding[k].value) + (-Binding[k].value) = sum[S]
      BY <1>2, <2>2, <3>3, Zenon
    <3>5. m_CommandValues'[h][c] = sum[S]
      BY <3>1, <3>2, <3>4, Zenon
    <3> QED BY <2>3, <3>5, Zenon
  <2>7. CASE ~(Binding[k].handler = h /\ Binding[k].command = c)
    <3>1. m_CommandValues'[h][c] = sum[m_CurrentKeyState]
      BY <1>1, <2>5, <2>7
    <3>2. sum[m_CurrentKeyState] = sum[S]
      BY <1>5, <2>2, <2>7
    <3> QED BY <2>3, <3>1, <3>2, Zenon
  <2> QED BY <2>6, <2>7
<1> QED BY <1>6, <1>7 DEF KeyChange

(* A tick copies the values and the keys together.                         *)
LEMMA ProcessInputKeepsKeys ==
  ASSUME TypeOK, ValuesAreSums, ProcessInput
  PROVE  ValuesAreSums' /\ ValuesNeedKeys'
<1>1. ValuesAreSums'
  BY DEF ValuesAreSums, ProcessInput
<1>2. ASSUME NEW c \in Command, m_LastCommandValues'[c] # 0
      PROVE  \E k \in m_LastKeyState' : Binding[k].command = c
  <2>1. CommandValue(c) # 0
    BY <1>2 DEF ProcessInput
  <2> QED BY <2>1, ValueNeedsKey DEF ProcessInput
<1> QED BY <1>1, <1>2 DEF ValuesNeedKeys

(* No step leaves a value without the keys it is the sum of.               *)
LEMMA StepKeepsKeys ==
  ASSUME Inv, ValuesAreSums, ValuesNeedKeys, [Next]_vars
  PROVE  ValuesAreSums' /\ ValuesNeedKeys'
<1>0. TypeOK
  BY DEF Inv
<1>1. ASSUME NEW k \in Key, KeyChange(k) PROVE ValuesAreSums' /\ ValuesNeedKeys'
  BY <1>0, <1>1, KeyChangeKeepsSums DEF KeyChange, ValuesNeedKeys
<1>2. ASSUME ProcessInput PROVE ValuesAreSums' /\ ValuesNeedKeys'
  BY <1>0, <1>2, ProcessInputKeepsKeys
<1>3. CASE UNCHANGED vars
  BY <1>3 DEF vars, ValuesAreSums, ValuesNeedKeys
<1> QED BY <1>1, <1>2, <1>3 DEF Next, Tick, Spawn

(* Nobody walks on by himself: who moves in a direction has a key of it    *)
(* down, and the keys of it that are down do not cancel, for any keys and  *)
(* bindings, whatever was pressed and released while the GUI had the input *)
(* or before the player's life began.                                      *)
THEOREM MotionAlwaysNeedsKeys == Spec => []MotionNeedsKeys
<1>1. Init => ValuesAreSums /\ ValuesNeedKeys
  BY DEF Init, ValuesAreSums, ValuesNeedKeys, SumsUp
<1>2. Inv /\ (ValuesAreSums /\ ValuesNeedKeys) /\ [Next]_vars
        => (ValuesAreSums /\ ValuesNeedKeys)'
  BY StepKeepsKeys
<1>3. Inv /\ ValuesNeedKeys => MotionNeedsKeys
  BY DEF Inv, MotionNeedsCommands, ValuesNeedKeys, MotionNeedsKeys, Command
<1> QED BY <1>1, <1>2, <1>3, Invariance, PTL DEF Spec

(***************************************************************************)
(* The picture.                                                            *)
(***************************************************************************)

(* Colours in the order they are given in.                                 *)
Colour == (0 .. Limit + 1) \X (Nat \ {0})
Before(c, d) == c[2] < d[2] \/ (c[2] = d[2] /\ c[1] < d[1])

(* Whom they are given to: an entity of the game or of the editor.         *)
Pickables == {"game", "editor"} \X (Entity \cup Range(Widgets))

(* The colours given are those before the counter, each to one entity, and *)
(* the picture shows whom they were given to.                              *)
PictureInv(p) ==
  /\ p.counter \in Colour
  /\ DOMAIN p.colours \subseteq Pickables
  /\ DOMAIN p.owners = {c \in Colour : Before(c, p.counter)}
  /\ \A k \in DOMAIN p.colours :
       p.colours[k] \in DOMAIN p.owners /\ p.owners[p.colours[k]] = k
  /\ \A c \in DOMAIN p.owners :
       p.owners[c] \in DOMAIN p.colours /\ p.colours[p.owners[c]] = c
  /\ \A t \in p.picture : t.key \in DOMAIN p.colours /\ t.texel = Texel(p.colours[t.key])
  /\ \A k \in DOMAIN p.colours : \E t \in p.picture : t.key = k

(* An empty picture is one.                                                *)
LEMMA NothingIsAPicture == PictureInv(NothingPainted)
<1>1. /\ NothingPainted.counter = <<0, 1>> /\ NothingPainted.picture = {}
      /\ NothingPainted.owners = <<>> /\ NothingPainted.colours = <<>>
  BY DEF NothingPainted
<1>2. DOMAIN <<>> = {}
  OBVIOUS
<1>3. <<0, 1>> \in Colour
  BY PickingAssumption DEF Colour
<1>4. \A c \in Colour : ~Before(c, <<0, 1>>)
  BY DEF Colour, Before
<1> QED BY <1>1, <1>2, <1>3, <1>4 DEF PictureInv

(* What the next colour is after.                                          *)
LEMMA FollowingIsNext ==
  ASSUME NEW c \in Colour
  PROVE  /\ Following(c) \in Colour
         /\ \A d \in Colour : Before(d, Following(c)) <=> (Before(d, c) \/ d = c)
<1>1. Following(c) \in Colour
  BY PickingAssumption DEF Colour, Following
<1>2. ASSUME NEW d \in Colour
      PROVE  Before(d, Following(c)) <=> (Before(d, c) \/ d = c)
  <2>1. /\ c[1] \in 0 .. Limit + 1 /\ c[2] \in Nat \ {0} /\ c = <<c[1], c[2]>>
        /\ d[1] \in 0 .. Limit + 1 /\ d[2] \in Nat \ {0} /\ d = <<d[1], d[2]>>
    BY <1>2 DEF Colour
  <2>2. d = c <=> (d[1] = c[1] /\ d[2] = c[2])
    BY <2>1
  <2>3. Limit \in Nat
    BY PickingAssumption
  <2>4. CASE c[1] > Limit
    <3>1. Following(c)[1] = 0 /\ Following(c)[2] = c[2] + 1
      BY <2>4 DEF Following
    <3>2. c[1] = Limit + 1
      BY <2>1, <2>3, <2>4
    <3> QED BY <2>1, <2>2, <2>3, <3>1, <3>2 DEF Before
  <2>5. CASE ~(c[1] > Limit)
    <3>1. Following(c)[1] = c[1] + 1 /\ Following(c)[2] = c[2]
      BY <2>5 DEF Following
    <3> QED BY <2>1, <2>2, <2>3, <3>1 DEF Before
  <2> QED BY <2>4, <2>5
<1> QED BY <1>1, <1>2

(* Painting keeps it, and shows what was painted.                          *)
LEMMA PaintIsAPicture ==
  ASSUME NEW p, NEW key \in Pickables, PictureInv(p)
  PROVE  /\ PictureInv(Paint(p, key))
         /\ p.picture \subseteq Paint(p, key).picture
         /\ \E t \in Paint(p, key).picture : t.key = key
<1> DEFINE known == key \in DOMAIN p.colours
           c == IF known THEN p.colours[key] ELSE p.counter
           q == Paint(p, key)
<1>1. /\ q.counter = (IF known THEN p.counter ELSE Following(p.counter))
      /\ q.colours = With(p.colours, key, c)
      /\ q.owners = With(p.owners, c, key)
      /\ q.picture = p.picture \cup {[key |-> key, texel |-> Texel(c)]}
  BY DEF Paint
<1>2. ~Before(p.counter, p.counter)
  BY DEF Before, PictureInv, Colour
<1>3. ~known => c \notin DOMAIN p.owners
  BY <1>2 DEF PictureInv
<1>4. known => c \in DOMAIN p.owners /\ p.owners[c] = key
  BY DEF PictureInv
<1> HIDE DEF known, c, q
<1>5. /\ DOMAIN q.colours = DOMAIN p.colours \cup {key} /\ q.colours[key] = c
      /\ \A k \in DOMAIN p.colours : k # key => q.colours[k] = p.colours[k]
  <2> DEFINE w == With(p.colours, key, c)
  <2>1. /\ DOMAIN w = DOMAIN p.colours \cup {key} /\ w[key] = c
        /\ \A k \in DOMAIN p.colours : k # key => w[k] = p.colours[k]
    BY DEF With
  <2>2. q.colours = w
    BY <1>1
  <2> HIDE DEF w
  <2> QED BY <2>1, <2>2
<1>6. /\ DOMAIN q.owners = DOMAIN p.owners \cup {c} /\ q.owners[c] = key
      /\ \A d \in DOMAIN p.owners : d # c => q.owners[d] = p.owners[d]
  <2> DEFINE w == With(p.owners, c, key)
  <2>1. /\ DOMAIN w = DOMAIN p.owners \cup {c} /\ w[c] = key
        /\ \A d \in DOMAIN p.owners : d # c => w[d] = p.owners[d]
    BY DEF With
  <2>2. q.owners = w
    BY <1>1
  <2> HIDE DEF w
  <2> QED BY <2>1, <2>2
<1>7. known <=> key \in DOMAIN p.colours
  BY DEF known
<1>8. known => c = p.colours[key]
  BY DEF c
<1>9. ~known => c = p.counter
  BY DEF c
<1>10. q.counter \in Colour /\ DOMAIN q.colours \subseteq Pickables
  BY <1>1, <1>5, FollowingIsNext DEF PictureInv
<1>11. DOMAIN q.owners = {d \in Colour : Before(d, q.counter)}
  <2>1. CASE known
    BY <2>1, <1>1, <1>4, <1>6 DEF PictureInv
  <2>2. CASE ~known
    BY <2>2, <1>1, <1>6, <1>9, FollowingIsNext DEF PictureInv
  <2> QED BY <2>1, <2>2
<1>12. \A k \in DOMAIN q.colours :
         q.colours[k] \in DOMAIN q.owners /\ q.owners[q.colours[k]] = k
  <2>1. ASSUME NEW k \in DOMAIN q.colours, k # key
        PROVE  q.colours[k] \in DOMAIN q.owners /\ q.owners[q.colours[k]] = k
    <3>1. k \in DOMAIN p.colours /\ q.colours[k] = p.colours[k]
      BY <2>1, <1>5
    <3>2. p.colours[k] \in DOMAIN p.owners /\ p.owners[p.colours[k]] = k
      BY <3>1 DEF PictureInv
    <3>3. p.colours[k] # c
      BY <3>2, <2>1, <1>3, <1>4
    <3> QED BY <3>1, <3>2, <3>3, <1>6
  <2> QED BY <2>1, <1>5, <1>6
<1>13. \A d \in DOMAIN q.owners :
         q.owners[d] \in DOMAIN q.colours /\ q.colours[q.owners[d]] = d
  <2>1. ASSUME NEW d \in DOMAIN q.owners, d # c
        PROVE  q.owners[d] \in DOMAIN q.colours /\ q.colours[q.owners[d]] = d
    <3>1. d \in DOMAIN p.owners /\ q.owners[d] = p.owners[d]
      BY <2>1, <1>6
    <3>2. p.owners[d] \in DOMAIN p.colours /\ p.colours[p.owners[d]] = d
      BY <3>1 DEF PictureInv
    <3>3. p.owners[d] # key
      BY <3>2, <2>1, <1>7, <1>8
    <3> QED BY <3>1, <3>2, <3>3, <1>5
  <2> QED BY <2>1, <1>5, <1>6
<1>14. \A t \in q.picture : t.key \in DOMAIN q.colours /\ t.texel = Texel(q.colours[t.key])
  <2>1. ASSUME NEW t \in p.picture
        PROVE  t.key \in DOMAIN q.colours /\ t.texel = Texel(q.colours[t.key])
    <3>1. t.key \in DOMAIN p.colours /\ t.texel = Texel(p.colours[t.key])
      BY <2>1 DEF PictureInv
    <3>2. q.colours[t.key] = p.colours[t.key]
      BY <3>1, <1>5, <1>7, <1>8
    <3> QED BY <3>1, <3>2, <1>5
  <2> DEFINE n == [key |-> key, texel |-> Texel(c)]
  <2>2. n.key = key /\ n.texel = Texel(c)
    OBVIOUS
  <2>3. n.key \in DOMAIN q.colours /\ n.texel = Texel(q.colours[n.key])
    BY <2>2, <1>5
  <2>4. \A t \in q.picture : t \in p.picture \/ t = n
    BY <1>1
  <2> QED BY <2>1, <2>3, <2>4
<1>15. \E t \in q.picture : t.key = key
  <2> DEFINE n == [key |-> key, texel |-> Texel(c)]
  <2>1. n.key = key /\ n \in q.picture
    BY <1>1
  <2> QED BY <2>1
<1>16. \A k \in DOMAIN q.colours : \E t \in q.picture : t.key = k
  <2>1. ASSUME NEW k \in DOMAIN q.colours, k # key
        PROVE  \E t \in q.picture : t.key = k
    <3>1. k \in DOMAIN p.colours
      BY <2>1, <1>5
    <3> QED BY <3>1, <1>1 DEF PictureInv
  <2> QED BY <2>1, <1>15
<1>17. PictureInv(q)
  BY <1>10, <1>11, <1>12, <1>13, <1>14, <1>16 DEF PictureInv
<1>18. p.picture \subseteq q.picture
  BY <1>1
<1> QED BY <1>15, <1>17, <1>18 DEF q

(***************************************************************************)
(* The loop.                                                               *)
(***************************************************************************)

(* The least of some numbers.                                              *)
LEMMA LeastExists ==
  ASSUME NEW T \in SUBSET Nat, T # {}
  PROVE  \E n \in T : \A m \in T : ~(m < n)
<1>1. PICK n \in T : \A m \in T : <<m, n>> \notin OpToRel(<, Nat)
  BY NatLessThanWellFounded, WFMin, Zenon
<1>2. \A m \in T : m < n => <<m, n>> \in OpToRel(<, Nat)
  BY DEF OpToRel
<1> QED BY <1>1, <1>2

(* The pictures after each turn, up to the nth.                            *)
Painted(after, turns, n) ==
  after = [i \in 0 .. n |->
             IF i = 0 THEN ClearPicking
             ELSE IF turns[i].painted THEN Paint(after[i - 1], turns[i].key)
             ELSE after[i - 1]]

(* They are there, ...                                                     *)
LEMMA PaintedExists ==
  ASSUME NEW turns, NEW n \in Nat
  PROVE  \E after : Painted(after, turns, n)
<1> DEFINE T == {m \in Nat : ~ \E after : Painted(after, turns, m)}
<1>1. ASSUME T # {} PROVE FALSE
  <2>1. \E m \in T : \A l \in T : ~(l < m)
    <3>1. T \in SUBSET Nat
      OBVIOUS
    <3> HIDE DEF T
    <3> QED BY <1>1, <3>1, LeastExists
  <2>2. PICK m \in T : \A l \in T : ~(l < m)
    BY <2>1
  <2>3. CASE m = 0
    <3> DEFINE f == [i \in 0 .. 0 |-> ClearPicking]
    <3>1. Painted(f, turns, 0)
      BY DEF Painted
    <3> QED BY <2>2, <2>3, <3>1
  <2>4. CASE m # 0
    <3>1. m \in Nat /\ m - 1 \in Nat /\ m - 1 < m
      BY <2>2, <2>4
    <3>2. m - 1 \notin T
      BY <2>2, <3>1
    <3>3. PICK f : Painted(f, turns, m - 1)
      BY <3>1, <3>2
    <3> HIDE DEF T
    <3> DEFINE g == [i \in 0 .. m |->
                       IF i < m THEN f[i]
                       ELSE IF turns[m].painted THEN Paint(f[m - 1], turns[m].key)
                       ELSE f[m - 1]]
    <3>4. ASSUME NEW i \in 0 .. m
          PROVE  g[i] = IF i = 0 THEN ClearPicking
                        ELSE IF turns[i].painted THEN Paint(g[i - 1], turns[i].key)
                        ELSE g[i - 1]
      <4>1. CASE i < m
        <5>1. i \in 0 .. m - 1 /\ g[i] = f[i]
          BY <4>1, <3>1
        <5>2. f[i] = IF i = 0 THEN ClearPicking
                     ELSE IF turns[i].painted THEN Paint(f[i - 1], turns[i].key)
                     ELSE f[i - 1]
          BY <5>1, <3>3 DEF Painted
        <5>3. i # 0 => g[i - 1] = f[i - 1]
          BY <4>1, <3>1
        <5> HIDE DEF g
        <5> QED BY <5>1, <5>2, <5>3
      <4>2. CASE i = m
        <5>1. i # 0 /\ g[i - 1] = f[i - 1]
          BY <4>2, <3>1
        <5>2. g[i] = IF turns[m].painted THEN Paint(f[m - 1], turns[m].key) ELSE f[m - 1]
          BY <4>2, <3>1
        <5> HIDE DEF g
        <5> QED BY <4>2, <5>1, <5>2
      <4> QED BY <4>1, <4>2, <3>1
    <3>5. Painted(g, turns, m)
      <4>1. g = [i \in 0 .. m |-> g[i]]
        OBVIOUS
      <4> HIDE DEF g
      <4> QED BY <3>4, <4>1 DEF Painted
    <3>6. m \notin T
      BY <3>5 DEF T
    <3> QED BY <2>2, <3>6
  <2> QED BY <2>3, <2>4
<1> QED BY <1>1

(* ... each is a picture, ...                                              *)
LEMMA PaintedArePictures ==
  ASSUME NEW turns, NEW n \in Nat, \A j \in 1 .. n : turns[j].key \in Pickables,
         NEW after, Painted(after, turns, n)
  PROVE  \A i \in 0 .. n :
           /\ PictureInv(after[i])
           /\ \A j \in 1 .. i : turns[j].painted =>
                \E t \in after[i].picture : t.key = turns[j].key
<1> DEFINE Good(i) == /\ PictureInv(after[i])
                      /\ \A j \in 1 .. i : turns[j].painted =>
                           \E t \in after[i].picture : t.key = turns[j].key
           T == {i \in 0 .. n : ~Good(i)}
<1>1. ASSUME T # {} PROVE FALSE
  <2>1. \E m \in T : \A l \in T : ~(l < m)
    <3>1. T \in SUBSET Nat
      OBVIOUS
    <3> HIDE DEF T
    <3> QED BY <1>1, <3>1, LeastExists
  <2>2. PICK m \in T : \A l \in T : ~(l < m)
    BY <2>1
  <2>3. m \in 0 .. n /\ ~Good(m)
    BY <2>2
  <2>4. after[m] = IF m = 0 THEN ClearPicking
                   ELSE IF turns[m].painted THEN Paint(after[m - 1], turns[m].key)
                   ELSE after[m - 1]
    BY <2>3 DEF Painted
  <2>5. CASE m = 0
    <3>1. after[m] = NothingPainted
      BY <2>4, <2>5 DEF ClearPicking
    <3> QED BY <2>3, <2>5, <3>1, NothingIsAPicture
  <2>6. CASE m # 0
    <3>1. m - 1 \in 0 .. n /\ m - 1 < m
      BY <2>3, <2>6
    <3>2. Good(m - 1)
      BY <2>2, <3>1
    <3>0. turns[m].key \in Pickables
      BY <2>3, <2>6
    <3>3. \A j \in 1 .. m : j = m \/ j \in 1 .. m - 1
      BY <2>3
    <3>4. CASE turns[m].painted
      <4>1. after[m] = Paint(after[m - 1], turns[m].key)
        BY <2>4, <2>6, <3>4
      <4>2. /\ PictureInv(after[m])
            /\ after[m - 1].picture \subseteq after[m].picture
            /\ \E t \in after[m].picture : t.key = turns[m].key
        BY <3>0, <3>2, <4>1, PaintIsAPicture
      <4>3. ASSUME NEW j \in 1 .. m, turns[j].painted
            PROVE  \E t \in after[m].picture : t.key = turns[j].key
        BY <4>2, <4>3, <3>2, <3>3
      <4> QED BY <2>3, <4>2, <4>3
    <3>5. CASE ~turns[m].painted
      <4>1. after[m] = after[m - 1]
        BY <2>4, <2>6, <3>5
      <4>2. ASSUME NEW j \in 1 .. m, turns[j].painted
            PROVE  \E t \in after[m].picture : t.key = turns[j].key
        BY <4>1, <4>2, <3>2, <3>3, <3>5
      <4> QED BY <2>3, <3>2, <4>1, <4>2
    <3> QED BY <3>4, <3>5
  <2> QED BY <2>5, <2>6
<1>2. \A i \in 0 .. n : Good(i)
  BY <1>1
<1> QED BY <1>2

(* ... and the last is what is painted.                                    *)
LEMMA PaintingIsAPicture ==
  ASSUME NEW turns, Len(turns) \in Nat, \A j \in 1 .. Len(turns) : turns[j].key \in Pickables
  PROVE  /\ PictureInv(Painting(turns))
         /\ \A j \in 1 .. Len(turns) : turns[j].painted =>
              \E t \in Painting(turns).picture : t.key = turns[j].key
<1> DEFINE n == Len(turns)
           after == CHOOSE f : Painted(f, turns, n)
<1>1. Painted(after, turns, n)
  BY PaintedExists
<1>2. Painting(turns) = after[n]
  BY DEF Painting, Painted
<1> HIDE DEF after
<1>3. n \in 0 .. n
  OBVIOUS
<1> QED BY <1>1, <1>2, <1>3, PaintedArePictures
(***************************************************************************)
(* The frame.                                                              *)
(***************************************************************************)

(* A sequence made of a set has all of it.                                 *)
LEMMA AllAreQueued ==
  ASSUME NEW S, IsFiniteSet(S), NEW q \in SetToSeqs(S)
  PROVE  q \in Seq(S) /\ \A x \in S : \E i \in DOMAIN q : q[i] = x
<1> DEFINE n == Cardinality(S)
<1>1. n \in Nat
  BY FS_CardinalityType
<1>2. q \in [1 .. n -> S] /\ \A i, j \in 1 .. n : i # j => q[i] # q[j]
  BY DEF SetToSeqs
<1> HIDE DEF n
<1>3. q \in Injection(1 .. n, S)
  BY <1>2 DEF Injection, IsInjective
<1>4. IsFiniteSet(1 .. n) /\ Cardinality(1 .. n) = n
  <2>1. 1 \in Int /\ n \in Int
    BY <1>1
  <2>2. /\ IsFiniteSet(1 .. n)
        /\ Cardinality(1 .. n) = IF 1 > n THEN 0 ELSE n - 1 + 1
    BY <2>1, FS_Interval
  <2> QED BY <1>1, <2>2
<1>5. q \in Surjection(1 .. n, S)
  BY <1>3, <1>4, FS_Injection DEF n
<1>6. \A x \in S : \E i \in 1 .. n : q[i] = x
  BY <1>5 DEF Surjection
<1> QED BY <1>1, <1>2, <1>6

(* The jobs of the queues of models.                                       *)
Job == Entity \X (1 .. 3)

(* Where a job is queued.                                                  *)
Queued(queue, e) == \E i \in DOMAIN queue : queue[i][1] = e

(* What was seen and is solid is in its queue.                             *)
SolidAreQueued(f, gone) ==
  \A e \in f.seen \ gone : "Shield" \notin Has[e] =>
    Queued(IF IsShielded(e) THEN f.shielded ELSE f.opaque, e)

(* The types of a frame, ...                                               *)
FrameTypeOK(f) ==
  /\ f.ready \in BOOLEAN
  /\ f.opaque \in Seq(Job)
  /\ f.shielded \in Seq(Job)
  /\ f.sprites \in Seq(Entity)
  /\ f.seen \in SUBSET Entity

(* ... of what may be no entity, ...                                       *)
MaybeEntity == Entity \cup {None}

(* ... and of the rest.                                                    *)
WorldTypeOK ==
  /\ world \in [alive : SUBSET Entity, unborn : SUBSET Entity, shown : SUBSET Entity,
                faded : SUBSET Entity, changes : Nat]
  /\ told \in [camera : MaybeEntity, player : MaybeEntity]
  /\ view \in [camera : MaybeEntity, player : MaybeEntity]
  /\ button \in [pick : MaybeEntity, locked : BOOLEAN]

(* What a frame made transparent had faded, or has glass.                  *)
FadedInv == transparent \subseteq everFaded /\ everFaded \subseteq Entity

(* The inductive invariant of the picking.                                 *)
PickingInv ==
  /\ WorldTypeOK
  /\ FadedInv
  /\ FrameTypeOK(frame)
  /\ frame.ready => SolidAreQueued(frame, everFaded)
  /\ PictureInv(pass)

(* With nothing put together the frame is in order.                        *)
LEMMA NoFrameIsAFrame == FrameTypeOK(NoFrame) /\ ~NoFrame.ready
<1>1. /\ NoFrame.ready = FALSE /\ NoFrame.opaque = <<>> /\ NoFrame.shielded = <<>>
      /\ NoFrame.sprites = <<>> /\ NoFrame.seen = {}
  BY DEF NoFrame
<1>2. \A S : <<>> \in Seq(S)
  OBVIOUS
<1> QED BY <1>1, <1>2 DEF FrameTypeOK

(* At first there is no frame and nothing painted.                         *)
LEMMA PickingInitially == PickingInit => PickingInv
<1> SUFFICES ASSUME PickingInit PROVE PickingInv
  OBVIOUS
<1>1. WorldTypeOK
  BY PickingAssumption DEF PickingInit, WorldTypeOK, MaybeEntity
<1>2. FadedInv
  BY DEF PickingInit, FadedInv
<1>3. FrameTypeOK(frame) /\ ~frame.ready
  BY NoFrameIsAFrame DEF PickingInit
<1>4. PictureInv(pass)
  BY NothingIsAPicture DEF PickingInit
<1> QED BY <1>1, <1>2, <1>3, <1>4 DEF PickingInv

(* The queues that are filled have what is solid.                          *)
LEMMA QueuesAreFilled ==
  ASSUME NEW models \in SUBSET Entity, NEW gone,
         transparent \subseteq gone,
         {e \in models : e \in world.faded \/ \E g \in 1 .. Groups[e] : <<e, g>> \in Glass}
           \subseteq gone,
         NEW opaque \in SetToSeqs(OpaqueJobs(models)
                                    \ {job \in OpaqueJobs(models) : IsShielded(job[1])}),
         NEW shielded \in SetToSeqs({job \in OpaqueJobs(models) : IsShielded(job[1])}),
         NEW f, f.seen = models, f.opaque = opaque, f.shielded = shielded
  PROVE  opaque \in Seq(Job) /\ shielded \in Seq(Job) /\ SolidAreQueued(f, gone)
<1> DEFINE jobs == OpaqueJobs(models)
           behind == {job \in jobs : IsShielded(job[1])}
<1>1. jobs \subseteq Job
  BY DEF OpaqueJobs, Job
<1>2. IsFiniteSet(Job)
  <2>1. IsFiniteSet(1 .. 3)
    <3>1. 1 \in Int /\ 3 \in Int
      OBVIOUS
    <3> QED BY <3>1, FS_Interval
  <2> QED BY <2>1, PickingAssumption, FS_Product DEF Job
<1>3. \A e \in models : \A g \in 1 .. 3 :
        g <= Groups[e] /\ "Shield" \notin Has[e] /\ ~Transparent(e, g) => <<e, g>> \in jobs
  BY DEF OpaqueJobs
<1>4. jobs \ behind \subseteq Job /\ behind \subseteq Job
  BY <1>1
<1> HIDE DEF jobs
<1>5. IsFiniteSet(jobs \ behind) /\ IsFiniteSet(behind)
  <2> HIDE DEF behind
  <2> QED BY <1>2, <1>4, FS_Subset
<1>6. /\ opaque \in Seq(jobs \ behind)
      /\ \A x \in jobs \ behind : \E i \in DOMAIN opaque : opaque[i] = x
  <2>1. opaque \in SetToSeqs(jobs \ behind)
    BY DEF jobs
  <2> DEFINE rest == jobs \ behind
  <2> HIDE DEF rest
  <2> QED BY <1>5, <2>1, AllAreQueued DEF rest
<1>7. /\ shielded \in Seq(behind)
      /\ \A x \in behind : \E i \in DOMAIN shielded : shielded[i] = x
  <2>1. shielded \in SetToSeqs(behind)
    BY DEF jobs
  <2> HIDE DEF behind
  <2> QED BY <1>5, <2>1, AllAreQueued
<1>8. opaque \in Seq(Job) /\ shielded \in Seq(Job)
  <2> HIDE DEF behind
  <2> QED BY <1>4, <1>6, <1>7
<1>9. ASSUME NEW e \in models \ gone, "Shield" \notin Has[e]
      PROVE  Queued(IF IsShielded(e) THEN shielded ELSE opaque, e)
  <2>1. e \in Entity /\ Groups[e] \in 1 .. 3
    BY <1>9, PickingAssumption
  <2>2. ~Transparent(e, 1)
    <3>1. 1 \in 1 .. Groups[e] /\ \A h \in 1 .. 1 : h = 1
      BY <2>1
    <3>2. e \notin transparent \cup world.faded /\ <<e, 1>> \notin Glass
      BY <1>9, <3>1
    <3> QED BY <3>1, <3>2 DEF Transparent
  <2>3. <<e, 1>> \in jobs
    BY <1>3, <1>9, <2>1, <2>2
  <2>4. CASE IsShielded(e)
    <3>1. <<e, 1>> \in behind
      BY <2>3, <2>4
    <3>2. PICK i \in DOMAIN shielded : shielded[i] = <<e, 1>>
      BY <1>7, <3>1
    <3> QED BY <2>4, <3>2 DEF Queued
  <2>5. CASE ~IsShielded(e)
    <3>1. <<e, 1>> \in jobs \ behind
      BY <2>3, <2>5
    <3>2. PICK i \in DOMAIN opaque : opaque[i] = <<e, 1>>
      BY <1>6, <3>1
    <3> QED BY <2>5, <3>2 DEF Queued
  <2> QED BY <2>4, <2>5
<1>10. SolidAreQueued(f, gone)
  BY <1>9 DEF SolidAreQueued
<1> QED BY <1>8, <1>10

(* Update puts a frame together in which the solid are queued.             *)
LEMMA UpdateKeeps == ASSUME PickingInv, Update PROVE PickingInv'
<1>1. WorldTypeOK'
  BY DEF PickingInv, WorldTypeOK, Update, Latest, MaybeEntity
<1>2. PICK models \in SUBSET {e \in Visible(view') : "Model" \in Has[e]} :
        LET jobs == OpaqueJobs(models)
            shielded == {job \in jobs : IsShielded(job[1])}
        IN /\ transparent' = transparent \cup MadeTransparent(models)
           /\ everFaded' = everFaded \cup
                {e \in models : e \in world.faded \/ \E g \in 1..Groups[e] : <<e, g>> \in Glass}
           /\ \E opaque \in SetToSeqs(jobs \ shielded), others \in SetToSeqs(shielded),
                 sprites \in SetToSeqs(SpriteJobs(view')) :
                frame' = [ready |-> TRUE, opaque |-> opaque, shielded |-> others,
                          sprites |-> sprites, seen |-> models]
  BY DEF Update
<1>3. PICK opaque \in SetToSeqs(OpaqueJobs(models)
                                  \ {job \in OpaqueJobs(models) : IsShielded(job[1])}),
           others \in SetToSeqs({job \in OpaqueJobs(models) : IsShielded(job[1])}),
           sprites \in SetToSeqs(SpriteJobs(view')) :
        frame' = [ready |-> TRUE, opaque |-> opaque, shielded |-> others,
                  sprites |-> sprites, seen |-> models]
  BY <1>2
<1>4. Visible(view') \subseteq Entity
  BY DEF Visible, PickingInv, WorldTypeOK
<1>5. models \in SUBSET Entity
  BY <1>4
<1>6. FadedInv'
  <2>1. MadeTransparent(models) \subseteq everFaded'
    <3>1. ASSUME NEW e \in MadeTransparent(models) PROVE e \in everFaded'
      <4>1. e \in models /\ Transparent(e, Groups[e])
        BY <3>1 DEF MadeTransparent
      <4>2. CASE e \in transparent
        BY <4>2, <1>2 DEF PickingInv, FadedInv
      <4>3. CASE e \in world.faded \/ \E g \in 1..Groups[e] : <<e, g>> \in Glass
        BY <4>1, <4>3, <1>2
      <4> QED BY <4>1, <4>2, <4>3 DEF Transparent
    <3> QED BY <3>1
  <2> QED BY <2>1, <1>2, <1>5 DEF PickingInv, FadedInv
<1>7. /\ frame'.ready = TRUE /\ frame'.opaque = opaque /\ frame'.shielded = others
      /\ frame'.sprites = sprites /\ frame'.seen = models
  BY <1>3
<1>8. opaque \in Seq(Job) /\ others \in Seq(Job) /\ SolidAreQueued(frame', everFaded')
  <2>1. transparent \subseteq everFaded'
    BY <1>2 DEF PickingInv, FadedInv
  <2>2. {e \in models : e \in world.faded \/ \E g \in 1 .. Groups[e] : <<e, g>> \in Glass}
          \subseteq everFaded'
    BY <1>2
  <2> QED BY <1>5, <1>7, <2>1, <2>2, QueuesAreFilled
<1>9. sprites \in Seq(Entity)
  <2>1. SpriteJobs(view') \in SUBSET Entity
    BY <1>4 DEF SpriteJobs
  <2>2. IsFiniteSet(SpriteJobs(view'))
    BY <2>1, PickingAssumption, FS_Subset
  <2>3. sprites \in Seq(SpriteJobs(view'))
    BY <2>2, AllAreQueued
  <2> QED BY <2>1, <2>3
<1>10. FrameTypeOK(frame)'
  BY <1>5, <1>7, <1>8, <1>9 DEF FrameTypeOK
<1>11. PictureInv(pass)'
  BY DEF PickingInv, Update, PictureInv
<1> QED BY <1>1, <1>6, <1>8, <1>10, <1>11 DEF PickingInv, SolidAreQueued

(* The turns of a loop are among those of several.                         *)
Among(q, turns) == \A i \in DOMAIN q : \E j \in 1 .. Len(turns) : turns[j] = q[i]

(* The turns of four loops, one after the other.                           *)
LEMMA TurnsFollow ==
  ASSUME NEW S, NEW a \in Seq(S), NEW b \in Seq(S), NEW c \in Seq(S), NEW d \in Seq(S),
         NEW turns, turns = a \o b \o c \o d
  PROVE  turns \in Seq(S) /\ Len(turns) \in Nat /\ Among(a, turns) /\ Among(b, turns)
<1>1. (c \o d) \in Seq(S) /\ (b \o c) \in Seq(S) /\ (a \o b) \in Seq(S)
  OBVIOUS
<1>2. (a \o b \o c) \in Seq(S)
  BY <1>1
<1>3. turns \in Seq(S)
  BY <1>2
<1>4. Len(turns) = Len(a) + Len(b) + Len(c) + Len(d)
  BY <1>1, <1>2
<1>5. /\ Len(a) \in Nat /\ DOMAIN a = 1 .. Len(a) /\ Len(b) \in Nat /\ DOMAIN b = 1 .. Len(b)
      /\ Len(c) \in Nat /\ Len(d) \in Nat
  OBVIOUS
<1>6. ASSUME NEW i \in 1 .. Len(a) + Len(b) PROVE turns[i] = (a \o b)[i]
  <2>1. i \in 1 .. Len(a \o b) /\ i \in 1 .. Len(a \o b \o c)
    BY <1>1, <1>5
  <2>2. turns[i] = (a \o b \o c)[i]
    BY <1>2, <2>1
  <2>3. (a \o b \o c)[i] = (a \o b)[i]
    BY <1>1, <2>1
  <2> QED BY <2>2, <2>3
<1>7. ASSUME NEW i \in DOMAIN a PROVE \E j \in 1 .. Len(turns) : turns[j] = a[i]
  <2>1. i \in 1 .. Len(a) + Len(b) /\ i \in 1 .. Len(turns)
    BY <1>4, <1>5
  <2>2. (a \o b)[i] = a[i]
    OBVIOUS
  <2> QED BY <1>6, <2>1, <2>2
<1>8. ASSUME NEW i \in DOMAIN b PROVE \E j \in 1 .. Len(turns) : turns[j] = b[i]
  <2>1. Len(a) + i \in 1 .. Len(a) + Len(b) /\ Len(a) + i \in 1 .. Len(turns)
    BY <1>4, <1>5
  <2>2. (a \o b)[Len(a) + i] = b[i]
    BY <1>5
  <2> QED BY <1>6, <2>1, <2>2
<1>9. Len(turns) \in Nat
  BY <1>4, <1>5
<1> QED BY <1>3, <1>7, <1>8, <1>9 DEF Among

(* The turns of a frame.                                                   *)
Turns == [key : Pickables, painted : BOOLEAN]

(* The turns have their types.                                             *)
LEMMA TurnsAreSequences ==
  ASSUME FrameTypeOK(frame)
  PROVE  /\ OpaqueTurns \in Seq(Turns) /\ DOMAIN OpaqueTurns = DOMAIN frame.opaque
         /\ ShieldedTurns \in Seq(Turns) /\ DOMAIN ShieldedTurns = DOMAIN frame.shielded
         /\ SpriteTurns \in Seq(Turns) /\ WidgetTurns \in Seq(Turns)
<1>1. ASSUME NEW e \in Entity \cup Range(Widgets), NEW scene \in {"game", "editor"}, NEW painted \in BOOLEAN
      PROVE  Turn(scene, e, painted) \in Turns
  BY DEF Turn, Turns, Pickables
<1>2. /\ \A e : Pickable(e) \in BOOLEAN
      /\ \A e : IsButton(e) \in BOOLEAN
      /\ "game" \in {"game", "editor"} /\ "editor" \in {"game", "editor"}
  <2>1. \A e : Pickable(e) \in BOOLEAN
    BY Zenon DEF Pickable
  <2>2. ASSUME NEW e PROVE IsButton(e) \in BOOLEAN
    <3>1. IsButton(e) = TRUE \/ IsButton(e) = FALSE
      BY DEF IsButton
    <3> QED BY <3>1, Zenon
  <2>3. "game" \in {"game", "editor"} /\ "editor" \in {"game", "editor"}
    OBVIOUS
  <2> QED BY <2>1, <2>2, <2>3, Zenon
<1> DEFINE T == Turns
<1> HIDE DEF T
<1>3. ASSUME NEW q, NEW n \in Nat, q = [i \in 1 .. n |-> q[i]], \A i \in 1 .. n : q[i] \in T
      PROVE  q \in Seq(T)
  BY <1>3
<1>4. ASSUME NEW S, NEW q \in Seq(S)
      PROVE  Len(q) \in Nat /\ DOMAIN q = 1 .. Len(q) /\ \A i \in DOMAIN q : q[i] \in S
  OBVIOUS
<1>5. OpaqueTurns \in Seq(T) /\ DOMAIN OpaqueTurns = DOMAIN frame.opaque
  <2>1. /\ Len(frame.opaque) \in Nat /\ DOMAIN frame.opaque = 1 .. Len(frame.opaque)
        /\ \A i \in DOMAIN frame.opaque : frame.opaque[i] \in Job
    BY <1>4 DEF FrameTypeOK
  <2>2. \A i \in DOMAIN frame.opaque : frame.opaque[i][1] \in Entity
    BY <2>1 DEF Job
  <2>3. OpaqueTurns = [i \in 1 .. Len(frame.opaque) |-> OpaqueTurns[i]]
    BY <2>1 DEF OpaqueTurns
  <2>4. \A i \in 1 .. Len(frame.opaque) : OpaqueTurns[i] \in T
    BY <1>1, <1>2, <2>1, <2>2 DEF OpaqueTurns, T
  <2>5. DOMAIN OpaqueTurns = DOMAIN frame.opaque
    BY DEF OpaqueTurns
  <2> QED BY <1>3, <2>1, <2>3, <2>4, <2>5
<1>6. ShieldedTurns \in Seq(T) /\ DOMAIN ShieldedTurns = DOMAIN frame.shielded
  <2>1. /\ Len(frame.shielded) \in Nat /\ DOMAIN frame.shielded = 1 .. Len(frame.shielded)
        /\ \A i \in DOMAIN frame.shielded : frame.shielded[i] \in Job
    BY <1>4 DEF FrameTypeOK
  <2>2. \A i \in DOMAIN frame.shielded : frame.shielded[i][1] \in Entity
    BY <2>1 DEF Job
  <2>3. ShieldedTurns = [i \in 1 .. Len(frame.shielded) |-> ShieldedTurns[i]]
    BY <2>1 DEF ShieldedTurns
  <2>4. \A i \in 1 .. Len(frame.shielded) : ShieldedTurns[i] \in T
    BY <1>1, <1>2, <2>1, <2>2 DEF ShieldedTurns, T
  <2>5. DOMAIN ShieldedTurns = DOMAIN frame.shielded
    BY DEF ShieldedTurns
  <2> QED BY <1>3, <2>1, <2>3, <2>4, <2>5
<1>7. SpriteTurns \in Seq(T)
  <2>1. /\ Len(frame.sprites) \in Nat /\ DOMAIN frame.sprites = 1 .. Len(frame.sprites)
        /\ \A i \in DOMAIN frame.sprites : frame.sprites[i] \in Entity
    BY <1>4 DEF FrameTypeOK
  <2>2. SpriteTurns = [i \in 1 .. Len(frame.sprites) |-> SpriteTurns[i]]
    BY <2>1 DEF SpriteTurns
  <2>3. \A i \in 1 .. Len(frame.sprites) : SpriteTurns[i] \in T
    BY <1>1, <1>2, <2>1 DEF SpriteTurns, T
  <2> QED BY <1>3, <2>1, <2>2, <2>3
<1>8. WidgetTurns \in Seq(T)
  <2>1. /\ Len(Widgets) \in Nat /\ DOMAIN Widgets = 1 .. Len(Widgets)
        /\ \A i \in DOMAIN Widgets : Widgets[i] \in Range(Widgets)
    BY <1>4, PickingAssumption
  <2>2. WidgetTurns = [i \in 1 .. Len(Widgets) |-> WidgetTurns[i]]
    BY <2>1 DEF WidgetTurns
  <2>3. \A i \in 1 .. Len(Widgets) : WidgetTurns[i] \in T
    BY <1>1, <1>2, <2>1 DEF WidgetTurns, T
  <2> QED BY <1>3, <2>1, <2>2, <2>3
<1> QED BY <1>5, <1>6, <1>7, <1>8 DEF T

(* What a frame is drawn as.                                               *)
LEMMA DrawnIsAPicture ==
  ASSUME PickingInv, Draw
  PROVE  /\ PictureInv(pass')
         /\ \A e \in frame.seen \ everFaded :
              "Shield" \notin Has[e] /\ (IsShielded(e) \/ "Unpickable" \notin Has[e])
                => \E p \in pass'.picture : p.key = <<"game", e>>
<1> DEFINE turns == OpaqueTurns \o ShieldedTurns \o SpriteTurns \o WidgetTurns
<1>1. pass' = Painting(turns) /\ frame.ready
  BY DEF Draw
<1>2. /\ OpaqueTurns \in Seq(Turns) /\ DOMAIN OpaqueTurns = DOMAIN frame.opaque
      /\ ShieldedTurns \in Seq(Turns) /\ DOMAIN ShieldedTurns = DOMAIN frame.shielded
      /\ SpriteTurns \in Seq(Turns) /\ WidgetTurns \in Seq(Turns)
  BY TurnsAreSequences DEF PickingInv
<1>3. /\ Len(turns) \in Nat /\ \A j \in 1 .. Len(turns) : turns[j].key \in Pickables
      /\ \A i \in DOMAIN OpaqueTurns : \E j \in 1 .. Len(turns) : turns[j] = OpaqueTurns[i]
      /\ \A i \in DOMAIN ShieldedTurns : \E j \in 1 .. Len(turns) : turns[j] = ShieldedTurns[i]
  <2> DEFINE T == Turns
  <2> HIDE DEF T
  <2>1. /\ OpaqueTurns \in Seq(T) /\ ShieldedTurns \in Seq(T)
        /\ SpriteTurns \in Seq(T) /\ WidgetTurns \in Seq(T)
    BY <1>2 DEF T
  <2>2. turns = OpaqueTurns \o ShieldedTurns \o SpriteTurns \o WidgetTurns
    OBVIOUS
  <2> HIDE DEF turns
  <2>3. turns \in Seq(T) /\ Len(turns) \in Nat /\ Among(OpaqueTurns, turns) /\ Among(ShieldedTurns, turns)
    BY <2>1, <2>2, TurnsFollow
  <2>4. \A j \in 1 .. Len(turns) : turns[j] \in T
    BY <2>3
  <2>5. \A j \in 1 .. Len(turns) : turns[j].key \in Pickables
    BY <2>4 DEF T, Turns
  <2> QED BY <2>3, <2>5 DEF Among
<1> HIDE DEF turns
<1>4. /\ PictureInv(pass')
      /\ \A j \in 1 .. Len(turns) : turns[j].painted =>
           \E p \in pass'.picture : p.key = turns[j].key
  BY <1>1, <1>3, PaintingIsAPicture
<1>5. ASSUME NEW e \in frame.seen \ everFaded, "Shield" \notin Has[e],
             IsShielded(e) \/ "Unpickable" \notin Has[e]
      PROVE  \E p \in pass'.picture : p.key = <<"game", e>>
  <2>1. Queued(IF IsShielded(e) THEN frame.shielded ELSE frame.opaque, e)
    BY <1>1, <1>5 DEF PickingInv, SolidAreQueued
  <2>2. CASE IsShielded(e)
    <3>1. PICK i \in DOMAIN frame.shielded : frame.shielded[i][1] = e
      BY <2>1, <2>2 DEF Queued
    <3>2. ShieldedTurns[i].painted /\ ShieldedTurns[i].key = <<"game", e>>
      BY <3>1 DEF ShieldedTurns, Turn
    <3>3. PICK j \in 1 .. Len(turns) : turns[j] = ShieldedTurns[i]
      BY <1>2, <1>3, <3>1
    <3>4. turns[j].painted /\ turns[j].key = <<"game", e>>
      BY <3>2, <3>3
    <3> QED BY <1>4, <3>4
  <2>3. CASE ~IsShielded(e)
    <3>1. PICK i \in DOMAIN frame.opaque : frame.opaque[i][1] = e
      BY <2>1, <2>3 DEF Queued
    <3>2. OpaqueTurns[i].painted /\ OpaqueTurns[i].key = <<"game", e>>
      BY <1>5, <2>3, <3>1 DEF OpaqueTurns, Turn, Pickable
    <3>3. PICK j \in 1 .. Len(turns) : turns[j] = OpaqueTurns[i]
      BY <1>2, <1>3, <3>1
    <3>4. turns[j].painted /\ turns[j].key = <<"game", e>>
      BY <3>2, <3>3
    <3> QED BY <1>4, <3>4
  <2> QED BY <2>2, <2>3
<1> QED BY <1>4, <1>5

(* Draw leaves a picture.                                                  *)
LEMMA DrawKeeps == ASSUME PickingInv, Draw PROVE PickingInv'
<1>1. WorldTypeOK'
  BY DEF PickingInv, WorldTypeOK, Draw
<1>2. FadedInv'
  BY DEF PickingInv, FadedInv, Draw
<1>3. frame' = NoFrame
  BY DEF Draw
<1>4. FrameTypeOK(frame') /\ ~frame'.ready
  BY <1>3, NoFrameIsAFrame
<1>5. PictureInv(pass')
  BY DrawnIsAPicture
<1> QED BY <1>1, <1>2, <1>4, <1>5 DEF PickingInv, FrameTypeOK, PictureInv

(* What leaves the frame and the picture alone keeps them.                 *)
LEMMA FrameAndPictureKept ==
  ASSUME PickingInv, WorldTypeOK', UNCHANGED <<transparent, frame, pass, everFaded>>
  PROVE  PickingInv'
<1>1. FadedInv'
  BY DEF PickingInv, FadedInv
<1>2. FrameTypeOK(frame)' /\ PictureInv(pass)'
  BY DEF PickingInv, FrameTypeOK, PictureInv
<1>3. (frame.ready => SolidAreQueued(frame, everFaded))'
  BY DEF PickingInv, SolidAreQueued
<1> QED BY <1>1, <1>2, <1>3 DEF PickingInv

(* What is under the mouse is alive, and the picture shows it there.       *)
LEMMA UnderIsShown ==
  ASSUME PickingInv, NEW texel \in Pixels, NEW type, Under(texel, type)
  PROVE  /\ Pick(texel)[2] \in world.alive
         /\ \E p \in pass.picture : p.key = <<"game", Pick(texel)[2]>> /\ p.texel = texel
<1>1. /\ Pick(texel)[1] = "game" /\ Pick(texel)[2] \in world.alive
  BY DEF Under
<1>2. texel \in DOMAIN pass.owners /\ Pick(texel) = pass.owners[texel]
  <2>1. <<None, None>>[1] # "game"
    BY PickingAssumption
  <2> QED BY <1>1, <2>1 DEF Pick
<1>3. texel \in Colour
  BY <1>2 DEF PickingInv, PictureInv
<1>4. texel # Nowhere
  BY <1>3 DEF Colour, Nowhere
<1>5. PICK t \in pass.picture : t.texel = texel
  BY <1>4 DEF Pixels
<1>6. t.key \in DOMAIN pass.colours /\ texel = Texel(pass.colours[t.key])
  BY <1>5 DEF PickingInv, PictureInv
<1>7. PICK p \in pass.picture : p.key = pass.owners[texel]
  BY <1>2 DEF PickingInv, PictureInv
<1>8. p.texel = Texel(texel)
  <2>1. p.texel = Texel(pass.colours[pass.owners[texel]])
    BY <1>7 DEF PickingInv, PictureInv
  <2>2. pass.colours[pass.owners[texel]] = texel
    BY <1>2 DEF PickingInv, PictureInv
  <2> QED BY <2>1, <2>2
<1>9. Texel(texel) = texel
  <2>1. pass.colours[t.key] \in Colour
    BY <1>6 DEF PickingInv, PictureInv
  <2> DEFINE c == pass.colours[t.key]
  <2>2. texel[1] <= Limit /\ texel[2] <= Limit
    BY <1>6, <2>1, PickingAssumption DEF Colour, Texel, Held
  <2>3. texel = <<texel[1], texel[2]>> /\ texel[1] \in Nat /\ texel[2] \in Nat
    BY <1>3, PickingAssumption DEF Colour
  <2> QED BY <2>2, <2>3, PickingAssumption DEF Texel, Held
<1>10. pass.owners[texel] = <<"game", Pick(texel)[2]>>
  <2>1. pass.owners[texel] \in Pickables
    BY <1>2 DEF PickingInv, PictureInv
  <2> QED BY <1>1, <1>2, <2>1 DEF Pickables
<1> QED BY <1>1, <1>7, <1>8, <1>9, <1>10

(* The button that is pressed is one of the world.                         *)
LEMMA PressKeeps ==
  ASSUME PickingInv, NEW texel \in Pixels, OnMousePress(texel) PROVE PickingInv'
<1>1. Pick(texel)[2] \in world.alive
  BY UnderIsShown DEF OnMousePress
<1>2. WorldTypeOK'
  BY <1>1 DEF PickingInv, WorldTypeOK, OnMousePress, MaybeEntity
<1> QED BY <1>2, FrameAndPictureKept DEF OnMousePress

(* Entities come, go and change.                                           *)
LEMMA EntitiesKeep ==
  ASSUME PickingInv, NEW e \in Entity,
         DeleteEntity(e) \/ CreateEntity(e) \/ SetVisible(e) \/ Fade(e)
  PROVE  PickingInv'
<1> DEFINE Worlds == [alive : SUBSET Entity, unborn : SUBSET Entity, shown : SUBSET Entity,
                      faded : SUBSET Entity, changes : Nat]
<1>0. world \in Worlds
  BY DEF PickingInv, WorldTypeOK
<1>1. ASSUME NEW w \in Worlds, Changes(w) PROVE PickingInv'
  <2>1. world' \in Worlds
    BY <1>1 DEF Changes
  <2>2. WorldTypeOK'
    BY <1>1, <2>1 DEF Changes, PickingInv, WorldTypeOK
  <2> QED BY <1>1, <2>2, FrameAndPictureKept DEF Changes
<1>2. CASE DeleteEntity(e)
  <2>1. [world EXCEPT !.alive = {d \in @ : e \notin Line(d)}] \in Worlds
    BY <1>0
  <2> QED BY <1>1, <1>2, <2>1 DEF DeleteEntity
<1>3. CASE CreateEntity(e)
  <2>1. [world EXCEPT !.alive = @ \cup {e}, !.unborn = @ \ {e}] \in Worlds
    BY <1>0
  <2> QED BY <1>1, <1>3, <2>1 DEF CreateEntity
<1>4. CASE SetVisible(e)
  <2>1. [world EXCEPT !.shown = IF e \in @ THEN @ \ {e} ELSE @ \cup {e}] \in Worlds
    BY <1>0
  <2> QED BY <1>1, <1>4, <2>1 DEF SetVisible
<1>5. CASE Fade(e)
  <2>1. [world EXCEPT !.faded = IF e \in @ THEN @ \ {e} ELSE @ \cup {e}] \in Worlds
    BY <1>0
  <2> QED BY <1>1, <1>5, <2>1 DEF Fade
<1> QED BY <1>2, <1>3, <1>4, <1>5

(* Every step keeps the invariant.                                         *)
LEMMA PickingStep ==
  ASSUME PickingInv, [PickingNext]_pickingVars PROVE PickingInv'
<1>1. CASE Update
  BY <1>1, UpdateKeeps
<1>2. CASE Draw
  BY <1>2, DrawKeeps
<1>3. ASSUME NEW texel \in Pixels, OnMousePress(texel) PROVE PickingInv'
  BY <1>3, PressKeeps
<1>4. ASSUME NEW texel \in Pixels, OnMouseRelease(texel) PROVE PickingInv'
  <2>1. WorldTypeOK'
    BY <1>4 DEF PickingInv, WorldTypeOK, OnMouseRelease
  <2> QED BY <1>4, <2>1, FrameAndPictureKept DEF OnMouseRelease
<1>5. ASSUME NEW locked \in BOOLEAN, LocksMouse(locked) PROVE PickingInv'
  <2>1. WorldTypeOK'
    BY <1>5 DEF PickingInv, WorldTypeOK, LocksMouse
  <2> QED BY <1>5, <2>1, FrameAndPictureKept DEF LocksMouse
<1>6. ASSUME NEW e \in Entity,
             DeleteEntity(e) \/ CreateEntity(e) \/ SetVisible(e) \/ Fade(e)
      PROVE  PickingInv'
  BY <1>6, EntitiesKeep
<1>7. ASSUME NEW e \in Entity, SetCamera(e) \/ PlayerSpawned(e) PROVE PickingInv'
  <2>1. WorldTypeOK'
    BY <1>7 DEF PickingInv, WorldTypeOK, SetCamera, PlayerSpawned, MaybeEntity
  <2> QED BY <1>7, <2>1, FrameAndPictureKept DEF SetCamera, PlayerSpawned
<1>8. CASE UNCHANGED pickingVars
  <2>1. WorldTypeOK'
    BY <1>8 DEF PickingInv, WorldTypeOK, pickingVars
  <2> QED BY <1>8, <2>1, FrameAndPictureKept DEF pickingVars
<1> QED BY <1>1, <1>2, <1>3, <1>4, <1>5, <1>6, <1>7, <1>8 DEF PickingNext

(* It always holds.                                                        *)
LEMMA PickingIsInvariant == PickingSpec => []PickingInv
BY PickingInitially, PickingStep, PTL DEF PickingSpec

(* The entities are those there are, and the colours are those painted.    *)
THEOREM PickingIsTyped == PickingSpec => []PickingTypeOK
<1>1. ASSUME PickingInv PROVE PickingTypeOK
  <2>1. DOMAIN pass.colours = {p.key : p \in pass.picture}
    BY <1>1 DEF PickingInv, PictureInv
  <2>2. /\ world.alive \cup world.unborn \subseteq Entity
        /\ view \in [camera : Entity \cup {None}, player : Entity \cup {None}]
        /\ button.pick \in Entity \cup {None}
    BY <1>1 DEF PickingInv, WorldTypeOK, MaybeEntity
  <2>3. transparent \cup everFaded \subseteq Entity
    BY <1>1 DEF PickingInv, FadedInv
  <2> QED BY <2>1, <2>2, <2>3 DEF PickingTypeOK
<1> QED BY <1>1, PickingIsInvariant, PTL

(* What is drawn is what is picked, with a colour that fits.               *)
LEMMA PickedFromInv == PickingInv => PickedAsDrawn
<1> SUFFICES ASSUME PickingInv, NEW t \in pass.picture, pass.colours[t.key][2] <= Limit
             PROVE  Pick(t.texel) = IF pass.colours[t.key][1] > Limit
                                    THEN pass.owners[<<Limit, pass.colours[t.key][2]>>]
                                    ELSE t.key
  BY DEF PickedAsDrawn
<1> DEFINE c == pass.colours[t.key]
<1>1. /\ t.texel = Texel(c) /\ c \in DOMAIN pass.owners /\ pass.owners[c] = t.key
      /\ DOMAIN pass.owners = {d \in Colour : Before(d, pass.counter)}
      /\ pass.counter \in Colour /\ c[2] <= Limit
  BY DEF PickingInv, PictureInv
<1> HIDE DEF c
<1>2. /\ c \in Colour /\ Before(c, pass.counter) /\ Limit \in Nat
      /\ c[1] \in 0 .. Limit + 1 /\ c[2] \in Nat \ {0} /\ c = <<c[1], c[2]>>
      /\ pass.counter[1] \in 0 .. Limit + 1 /\ pass.counter[2] \in Nat
  BY <1>1, PickingAssumption DEF Colour
<1>3. CASE c[1] > Limit
  <2>1. t.texel = <<Limit, c[2]>>
    BY <1>1, <1>2, <1>3 DEF Texel, Held
  <2>2. <<Limit, c[2]>> \in Colour /\ Before(<<Limit, c[2]>>, pass.counter)
    BY <1>2, <1>3 DEF Colour, Before
  <2> QED BY <1>1, <1>3, <2>1, <2>2 DEF Pick, c
<1>4. CASE ~(c[1] > Limit)
  <2>1. t.texel = c
    BY <1>1, <1>2, <1>4 DEF Texel, Held
  <2> QED BY <1>1, <1>4, <2>1 DEF Pick, c
<1> QED BY <1>3, <1>4

(* Where an entity is painted it is picked, however many there are, ...    *)
THEOREM WhatIsDrawnIsPicked == PickingSpec => []PickedAsDrawn
BY PickingIsInvariant, PickedFromInv, PTL

(* ... whoever is seen and solid is painted, ...                           *)
THEOREM WhoIsSolidIsHit == PickingSpec => TheSolidAreHit
<1>1. ASSUME PickingInv, [PickingNext]_pickingVars
      PROVE  [frame.ready /\ ~frame'.ready =>
                \A e \in frame.seen \ everFaded :
                  "Shield" \notin Has[e] /\ (IsShielded(e) \/ "Unpickable" \notin Has[e])
                    => \E p \in pass'.picture : p.key = <<"game", e>>]_pickingVars
  <2> SUFFICES ASSUME frame.ready, ~frame'.ready, frame' # frame
               PROVE  \A e \in frame.seen \ everFaded :
                        "Shield" \notin Has[e] /\ (IsShielded(e) \/ "Unpickable" \notin Has[e])
                          => \E p \in pass'.picture : p.key = <<"game", e>>
    OBVIOUS
  <2>1. Draw
    BY <1>1 DEF PickingNext, pickingVars, Update, OnMousePress, OnMouseRelease, LocksMouse,
                DeleteEntity, CreateEntity, SetVisible, Fade, Changes, SetCamera, PlayerSpawned
  <2> QED BY <1>1, <2>1, DrawnIsAPicture
<1> QED BY <1>1, PickingIsInvariant, PTL DEF PickingSpec, TheSolidAreHit

(* ... and a button is told of when it is there and under the mouse, and   *)
(* clicked when it is the one that was pressed.                            *)
THEOREM ClicksAreAlwaysMeant == PickingSpec => ClicksAreMeant
<1> DEFINE Meant ==
      \A i \in DOMAIN said'.events :
        LET s == said'.events[i]
        IN said' # said /\ s.is # "Released" =>
            /\ s.entity \in world.alive
            /\ \E p \in pass.picture : p.key = <<"game", s.entity>> /\ p.texel = said'.at
            /\ s.is = "Clicked" => s.entity = button.pick
<1>1. ASSUME PickingInv, [PickingNext]_pickingVars PROVE [Meant]_pickingVars
  <2> SUFFICES ASSUME said' # said PROVE Meant
    OBVIOUS
  <2>1. \/ Update
        \/ \E texel \in Pixels : OnMousePress(texel) \/ OnMouseRelease(texel)
    BY <1>1 DEF PickingNext, pickingVars, Draw, LocksMouse,
                DeleteEntity, CreateEntity, SetVisible, Fade, Changes, SetCamera, PlayerSpawned
  <2>2. CASE Update
    <3>1. said'.events = <<>>
      BY <2>2 DEF Update, Silence
    <3> QED BY <3>1
  <2>3. ASSUME NEW texel \in Pixels, OnMousePress(texel) PROVE Meant
    <3> DEFINE e == Pick(texel)[2]
    <3>1. /\ e \in world.alive
          /\ \E p \in pass.picture : p.key = <<"game", e>> /\ p.texel = texel
      BY <1>1, <2>3, UnderIsShown DEF OnMousePress
    <3>2. /\ said'.at = texel /\ Len(said'.events) = 1 /\ DOMAIN said'.events = {1}
          /\ said'.events[1].entity = e /\ said'.events[1].is # "Clicked"
      BY <2>3 DEF OnMousePress, Event
    <3> HIDE DEF e
    <3> QED BY <3>1, <3>2
  <2>4. ASSUME NEW texel \in Pixels, OnMouseRelease(texel) PROVE Meant
    <3> DEFINE e == Pick(texel)[2]
               clicked == Under(texel, "Button") /\ e = button.pick
               first == IF Under(texel, "InputCmdButton") THEN Event("InputCommand", e)
                        ELSE Event("Released", button.pick)
               second == Event("Clicked", button.pick)
    <3>1. /\ said'.at = texel
          /\ said'.events = <<first>> \o (IF clicked THEN <<second>> ELSE <<>>)
      BY <2>4 DEF OnMouseRelease
    <3>2. /\ first.is # "Released" => /\ Under(texel, "InputCmdButton") /\ first.entity = e
                                      /\ first.is # "Clicked"
          /\ second.entity = button.pick
      BY DEF Event
    <3>3. (Under(texel, "InputCmdButton") \/ Under(texel, "Button")) =>
            /\ e \in world.alive
            /\ \E p \in pass.picture : p.key = <<"game", e>> /\ p.texel = texel
      BY <1>1, UnderIsShown
    <3> HIDE DEF e, first, second
    <3>4. /\ \A i \in DOMAIN said'.events : i = 1 \/ (i = 2 /\ clicked)
          /\ said'.events[1] = first /\ (clicked => said'.events[2] = second)
      <4> HIDE DEF clicked
      <4> QED BY <3>1
    <3>5. ASSUME NEW i \in DOMAIN said'.events, said'.events[i].is # "Released"
          PROVE  /\ said'.events[i].entity \in world.alive
                 /\ \E p \in pass.picture :
                      p.key = <<"game", said'.events[i].entity>> /\ p.texel = said'.at
                 /\ said'.events[i].is = "Clicked" => said'.events[i].entity = button.pick
      <4>1. CASE i = 1
        BY <3>1, <3>2, <3>3, <3>4, <3>5, <4>1
      <4>2. CASE i = 2 /\ clicked
        BY <3>1, <3>2, <3>3, <3>4, <4>2
      <4> QED BY <3>4, <4>1, <4>2
    <3> QED BY <3>5
  <2> QED BY <2>1, <2>2, <2>3, <2>4
<1> QED BY <1>1, PickingIsInvariant, PTL DEF PickingSpec, ClicksAreMeant
=============================================================================
