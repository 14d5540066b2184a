---------------------------- MODULE CapturePoint ----------------------------
(***************************************************************************)
(* The capture points of a match, as CapturePointSystem                    *)
(* (src/Game/Systems/CapturePointSystem.cpp) runs them on the server: the  *)
(* points stand in a line between the homes of the two teams; a team takes *)
(* the point next to its territory by standing on it alone until the       *)
(* point's timer is passed, and wins with the home of the other; then the  *)
(* Server (src/Engine/Network/Server.cpp) loads the map anew.              *)
(*                                                                         *)
(* A tick is: the Server; the handlers of the system; one UpdateComponent  *)
(* for each point, in the order of the component pool.                     *)
(*                                                                         *)
(* Abstracted: models, colours, and the contents of the Captured event.    *)
(* Environment: players are hurt, healed, deleted and respawned, enter and *)
(* leave points (one at a time: the points are apart) as they please.      *)
(***************************************************************************)
EXTENDS Integers, Sequences, FiniteSets

CONSTANTS
  NumPoints,       (* the number of points of the map                      *)
  PoolOrder,       (* the order in which the pool iterates over them       *)
  First,           (* the team whose home is point 0                       *)
  Player,          (* the player entities                                  *)
  TeamOf,          (* their teams                                          *)
  MaxTimer,        (* CapturePointMaxTimer of every point                  *)
  DeltaTimes,      (* how long a tick may last                             *)
  ResetCountdown   (* CapturePointGameMode.ResetCountdown                  *)

Point == 0 .. NumPoints - 1
Team == {"Red", "Blue"}
Neutral == "Spectator"

ASSUME PointAssumption ==
  /\ NumPoints \in Nat \ {0, 1}
  /\ PoolOrder \in [1 .. NumPoints -> Point]
  /\ \A c \in Point : \E i \in 1 .. NumPoints : PoolOrder[i] = c
  /\ First \in Team
  /\ IsFiniteSet(Player)
  /\ TeamOf \in [Player -> Team]
  /\ MaxTimer \in Nat \ {0}
  /\ DeltaTimes \subseteq Nat
  /\ ResetCountdown \in Nat

VARIABLES
  phase,           (* whose turn it is in the tick                         *)
  position,        (* the next point UpdateComponent is called for         *)
  dt,              (* how long the tick lasts                              *)
  events,          (* the types of the events of the tick                  *)
  published,       (* the types of the events of the next tick             *)
  owner,           (* Team of the points                                   *)
  captureTimer,    (* CapturePoint.CaptureTimer: Red is +, Blue is -       *)
  condition,       (* of the players                                       *)
  touches,         (* m_ETriggerTouchVector                                *)
  found,           (* the keys of m_CapturePointNumberToEntityMap          *)
  numberOfPoints,  (* m_NumberOfCapturePoints                              *)
  winnerWasFound,  (* m_WinnerWasFound                                     *)
  resetTimers,     (* m_ResetTimers                                        *)
  recentlyCaptured,(* m_RecentlyCapturedNeedNextCapturePointNow            *)
  gameIsOver,      (* Server::m_GameIsOver                                 *)
  countdown,       (* CapturePointGameMode.ResetCountdown                  *)
  winner           (* history: the team the last Win named, on this map    *)

vars == <<phase, position, dt, events, published, owner, captureTimer,
          condition, touches, found, numberOfPoints, winnerWasFound,
          resetTimers, recentlyCaptured, gameIsOver, countdown, winner>>

schedule == <<phase, position, dt>>
system == <<found, numberOfPoints, winnerWasFound, resetTimers, recentlyCaptured>>
server == <<gameIsOver, countdown>>

(* Of a player's Health, the code tells apart what (int) makes zero:       *)
(* "healthy" is 1 or more, "faint" between 0 and 1, "dead" between -1 and  *)
(* 0, and "overkilled" -1 or less. A "deleted" player has no components.   *)
Condition == {"healthy", "faint", "dead", "overkilled", "deleted"}
Dead == {"dead", "overkilled"}

Back == CHOOSE t \in Team : t # First
Home(t) == IF t = First THEN 0 ELSE NumPoints - 1
Opponent(t) == IF t = "Red" THEN "Blue" ELSE "Red"
Sign(t) == IF t = "Red" THEN 1 ELSE -1
Magnitude(x) == IF x < 0 THEN -x ELSE x
Full(t) == Sign(t) * MaxTimer

InitialOwner ==
  [c \in Point |-> IF c = 0 THEN First ELSE IF c = NumPoints - 1 THEN Back ELSE Neutral]

InitialTimer ==
  [c \in Point |-> IF InitialOwner[c] = Neutral THEN 0 ELSE Full(InitialOwner[c])]

EventType == {"Captured", "Win", "Reset"}

(* The types of the variables and the ranges of those the code keeps       *)
(* within one: the keys of the map (which operator[] adds to), the phase.  *)
TypeOK ==
  /\ phase \in {"server", "handlers", "update"}
  /\ position \in 1 .. NumPoints + 1
  /\ dt \in DeltaTimes \cup {0}
  /\ events \subseteq EventType
  /\ published \subseteq EventType
  /\ owner \in [Point -> Team \cup {Neutral}]
  /\ captureTimer \in [Point -> Int]
  /\ condition \in [Player -> Condition]
  /\ touches \subseteq Player \X Point
  /\ found \subseteq -1 .. NumPoints
  /\ numberOfPoints \in {0, NumPoints}
  /\ winnerWasFound \in BOOLEAN
  /\ resetTimers \in BOOLEAN
  /\ recentlyCaptured \in BOOLEAN
  /\ gameIsOver \in BOOLEAN
  /\ countdown \in Int
  /\ winner \in Team \cup {Neutral}

Init ==
  /\ phase = "server"
  /\ position = 1
  /\ dt = 0
  /\ events = {}
  /\ published = {}
  /\ owner = InitialOwner
  /\ captureTimer = InitialTimer
  /\ condition = [p \in Player |-> "healthy"]
  /\ touches = {}
  /\ found = {}
  /\ numberOfPoints = 0
  /\ winnerWasFound = FALSE
  /\ resetTimers = FALSE
  /\ recentlyCaptured = FALSE
  /\ gameIsOver = FALSE
  /\ countdown = ResetCountdown
  /\ winner = Neutral

-----------------------------------------------------------------------------
(* The Server's part of the tick. *)

(* A mutant: the win is forgotten after the tick that tells of it. *)
OnWinForgotten == "Win" \in events

OnWin == gameIsOver \/ "Win" \in events

(* Server::Update while nobody has won: it processes its events and does   *)
(* no more.                                                                *)
ServerUpdate(d) ==
  /\ phase = "server"
  /\ ~OnWin
  /\ phase' = "handlers"
  /\ dt' = d
  /\ UNCHANGED <<position, events, published, owner, captureTimer, condition,
                 touches, system, server, winner>>

(* The countdown after a win goes on. *)
CountDown(d) ==
  /\ phase = "server"
  /\ OnWin
  /\ countdown - d >= 0
  /\ gameIsOver' = TRUE
  /\ countdown' = countdown - d
  /\ phase' = "handlers"
  /\ dt' = d
  /\ UNCHANGED <<position, events, published, owner, captureTimer, condition,
                 touches, system, winner>>

(* Server::resetMap: the world is deleted and read from the file again. *)
ResetMap(d) ==
  /\ phase = "server"
  /\ OnWin
  /\ countdown - d < 0
  /\ gameIsOver' = FALSE
  /\ published' = published \cup {"Reset"}
  /\ owner' = InitialOwner
  /\ captureTimer' = InitialTimer
  /\ countdown' = ResetCountdown
  /\ condition' = [p \in Player |-> "deleted"]
  /\ winner' = Neutral
  /\ phase' = "handlers"
  /\ dt' = d
  /\ UNCHANGED <<position, events, touches, system>>

-----------------------------------------------------------------------------
(* The players, moved by other systems. *)

Present(p) == condition[p] # "deleted"

(* HealthSystem damages a living player. *)
IsDamaged(p) ==
  /\ phase = "handlers"
  /\ condition[p] \in {"healthy", "faint"}
  /\ \E h \in {"faint", "dead", "overkilled"} : condition' = [condition EXCEPT ![p] = h]
  /\ UNCHANGED <<schedule, events, published, owner, captureTimer, touches,
                 system, server, winner>>

(* HealthSystem applies a pickup, to a dead player too. *)
IsHealed(p) ==
  /\ phase = "handlers"
  /\ Present(p)
  /\ condition[p] # "healthy"
  /\ condition' = [condition EXCEPT ![p] = "healthy"]
  /\ UNCHANGED <<schedule, events, published, owner, captureTimer, touches,
                 system, server, winner>>

(* PlayerDeathSystem deletes a dead player. *)
IsDeleted(p) ==
  /\ phase = "handlers"
  /\ condition[p] \in Dead
  /\ condition' = [condition EXCEPT ![p] = "deleted"]
  /\ UNCHANGED <<schedule, events, published, owner, captureTimer, touches,
                 system, server, winner>>

(* A new entity takes the name of a deleted one once nothing refers to it: *)
(* the world never uses an id twice.                                       *)
IsSpawned(p) ==
  /\ phase = "handlers"
  /\ ~Present(p)
  /\ "Reset" \notin events \cup published
  /\ \A c \in Point : <<p, c>> \notin touches
  /\ condition' = [condition EXCEPT ![p] = "healthy"]
  /\ UNCHANGED <<schedule, events, published, owner, captureTimer, touches,
                 system, server, winner>>

-----------------------------------------------------------------------------
(* The handlers of the system. *)

OnReset ==
  /\ phase = "handlers"
  /\ "Reset" \in events
  /\ events' = events \ {"Reset"}
  /\ found' = {}
  /\ numberOfPoints' = 0
  /\ winnerWasFound' = FALSE
  /\ resetTimers' = FALSE
  /\ recentlyCaptured' = FALSE
  /\ touches' = {}
  /\ UNCHANGED <<schedule, published, owner, captureTimer, condition, server, winner>>

OnCaptured ==
  /\ phase = "handlers"
  /\ "Captured" \in events
  /\ events' = events \ {"Captured"}
  /\ resetTimers' = TRUE
  /\ UNCHANGED <<schedule, published, owner, captureTimer, condition, touches,
                 found, numberOfPoints, winnerWasFound, recentlyCaptured, server,
                 winner>>

(* Published by TriggerSystem when a player is inside the trigger of a     *)
(* point and was not; the player may be gone when the event arrives.       *)
OnTriggerTouch(p, c) ==
  /\ phase = "handlers"
  /\ \A d \in Point : <<p, d>> \notin touches
  /\ touches' = touches \cup {<<p, c>>}
  /\ UNCHANGED <<schedule, events, published, owner, captureTimer, condition,
                 system, server, winner>>

OnTriggerLeave(p, c) ==
  /\ phase = "handlers"
  /\ <<p, c>> \in touches
  /\ touches' = touches \ {<<p, c>>}
  /\ UNCHANGED <<schedule, events, published, owner, captureTimer, condition,
                 system, server, winner>>

(* The system has processed its events: the pool is iterated over. *)
BeginUpdate ==
  /\ phase = "handlers"
  /\ events \cap {"Reset", "Captured"} = {}
  /\ phase' = "update"
  /\ position' = 1
  /\ UNCHANGED <<dt, events, published, owner, captureTimer, condition, touches,
                 system, server, winner>>

-----------------------------------------------------------------------------
(* UpdateComponent, for the point under way. *)

Current == PoolOrder[position]

Advance ==
  /\ phase = "update"
  /\ position <= NumPoints
  /\ position' = position + 1
  /\ UNCHANGED <<phase, dt>>

(* The map is over: the points stand still. *)
Idle ==
  /\ Advance
  /\ winnerWasFound
  /\ UNCHANGED <<events, published, owner, captureTimer, condition, touches,
                 system, server, winner>>

(* The map of points is begun again while point 0 is not in it. *)
Forgets == numberOfPoints # 0 /\ 0 \notin found
FoundBefore == IF Forgets THEN {} ELSE found

(* The number of points is known from the visit of Back's home on. *)
NumberNow ==
  IF numberOfPoints # 0 /\ ~Forgets THEN numberOfPoints
  ELSE IF Current = NumPoints - 1 THEN NumPoints ELSE 0

AllFound == NumberNow # 0 /\ NumberNow <= Cardinality(FoundBefore)

(* Not all points have been visited yet. *)
Collect ==
  /\ Advance
  /\ ~winnerWasFound
  /\ ~AllFound
  /\ numberOfPoints' = NumberNow
  /\ found' = FoundBefore \cup {Current}
  /\ UNCHANGED <<events, published, owner, captureTimer, condition, touches,
                 winnerWasFound, resetTimers, recentlyCaptured, server, winner>>

(* Seen from the home of team t, d is further away than c. *)
Beyond(t, d, c) == IF t = First THEN d > c ELSE d < c

(* The point of t that is the furthest from its home. *)
IsFrontier(t, c) ==
  /\ owner[c] = t
  /\ \A d \in Point : Beyond(t, d, c) => owner[d] # t

(* nextPossibleCapturePoint[t], as the set of its value: the point beyond  *)
(* the frontier, which may be off the map, or -1 if t has lost all points. *)
NextPossible(t) ==
  IF \E c \in Point : owner[c] = t
  THEN {c + (IF t = First THEN 1 ELSE -1) : c \in {d \in Point : IsFrontier(t, d)}}
  ELSE {-1}

IsNext(c) == \E t \in Team : c \in NextPossible(t)

(* The timers of the points nobody can take next are full again. *)
Settled ==
  [c \in Point |-> IF resetTimers /\ ~IsNext(c) /\ owner[c] # Neutral
                   THEN Full(owner[c]) ELSE captureTimer[c]]

(* (int)Health is not zero. *)
IsCounted(p) == condition[p] \in {"healthy", "overkilled"}

Standing(t, c) == {p \in Player : TeamOf[p] = t /\ <<p, c>> \in touches /\ IsCounted(p)}

StandsAlone(t, c) == Standing(t, c) # {} /\ Standing(Opponent(t), c) = {}

(* A mutant: any point of the others may be taken. *)
CanCaptureAnywhere(t, c) == owner[c] # t

CanCapture(t, c) == c \in NextPossible(t)

(* A mutant: the timer stops at the ends. *)
MovedClamped(t, c) ==
  LET step == Sign(t) * Cardinality(Standing(t, c)) * dt
      sum == Settled[c] + step
  IN  IF owner[c] # t /\ ~CanCapture(t, c) THEN Settled[c]
      ELSE IF Magnitude(sum) > MaxTimer THEN Full(t) ELSE sum

(* The timer of point c after team t stood alone on it for the tick. *)
Moved(t, c) ==
  LET step == Sign(t) * Cardinality(Standing(t, c)) * dt
      attacked == owner[c] # t /\ CanCapture(t, c)
      restored == owner[c] = t /\ Sign(t) * Settled[c] < MaxTimer
  IN  IF attacked \/ restored THEN Settled[c] + step ELSE Settled[c]

IsTaken(t, c) == Magnitude(Moved(t, c)) > MaxTimer /\ CanCapture(t, c)

Stalemate(c) ==
  /\ \A t \in Team : ~StandsAlone(t, c)
  /\ captureTimer' = Settled
  /\ recentlyCaptured' = FALSE
  /\ UNCHANGED owner

Contest(t, c) ==
  /\ StandsAlone(t, c)
  /\ ~IsTaken(t, c)
  /\ captureTimer' = [Settled EXCEPT ![c] = Moved(t, c)]
  /\ recentlyCaptured' = FALSE
  /\ UNCHANGED owner

Capture(t, c) ==
  /\ StandsAlone(t, c)
  /\ IsTaken(t, c)
  /\ captureTimer' =
       [Settled EXCEPT ![c] = IF Moved(t, c) > 0 THEN MaxTimer ELSE -MaxTimer]
  /\ recentlyCaptured' = TRUE
  /\ owner' = [owner EXCEPT ![c] = t]

(* A home the other team owned when the call began decides the match. *)
IsLost(c) == \E t \in Team : c = Home(t) /\ owner[c] # t

(* A mutant: the home just captured is looked at. *)
CheckForWinnerAtOnce(c) ==
  IF \E t \in Team : c = Home(t) /\ owner'[c] # t
  THEN winner' = owner'[c] /\ winnerWasFound' = TRUE
  ELSE UNCHANGED <<winner, winnerWasFound>>

CheckForWinner(c) ==
  IF IsLost(c) THEN winner' = owner[c] /\ winnerWasFound' = TRUE
               ELSE UNCHANGED <<winner, winnerWasFound>>

Announced(c) ==
  (IF recentlyCaptured THEN {"Captured"} ELSE {}) \cup (IF IsLost(c) THEN {"Win"} ELSE {})

UpdatePoint ==
  /\ Advance
  /\ ~winnerWasFound
  /\ AllFound
  /\ \/ Stalemate(Current)
     \/ \E t \in Team : Contest(t, Current) \/ Capture(t, Current)
  /\ CheckForWinner(Current)
  /\ published' = published \cup Announced(Current)
  /\ numberOfPoints' = NumberNow
  /\ found' = FoundBefore \cup
       (IF recentlyCaptured THEN UNION {NextPossible(t) : t \in Team} ELSE {})
  /\ resetTimers' = FALSE
  /\ touches' = {x \in touches : ~(x[2] = Current /\ ~Present(x[1]))}
  /\ UNCHANGED <<events, condition, server>>

(* EventBroker::Swap and Clear. *)
EndTick ==
  /\ phase = "update"
  /\ position = NumPoints + 1
  /\ phase' = "server"
  /\ position' = 1
  /\ dt' = 0
  /\ events' = published
  /\ published' = {}
  /\ UNCHANGED <<owner, captureTimer, condition, touches, system, server, winner>>

-----------------------------------------------------------------------------
UpdateComponent == Idle \/ Collect \/ UpdatePoint

Tick ==
  \/ \E d \in DeltaTimes : ServerUpdate(d) \/ CountDown(d) \/ ResetMap(d)
  \/ OnReset
  \/ OnCaptured
  \/ BeginUpdate
  \/ UpdateComponent
  \/ EndTick

Players ==
  \/ \E p \in Player : IsDamaged(p) \/ IsHealed(p) \/ IsDeleted(p) \/ IsSpawned(p)
  \/ \E p \in Player, c \in Point : OnTriggerTouch(p, c) \/ OnTriggerLeave(p, c)

Next == Tick \/ Players

(* The game loop never stops; players owe nothing. *)
Spec == Init /\ [][Next]_vars /\ WF_vars(Tick)

-----------------------------------------------------------------------------
(* Properties. *)

(* The points a team owns reach from its home without a gap, in whatever   *)
(* order the players attack and the pool iterates: nothing but the next    *)
(* possible capture point is ever taken.                                   *)
TerritoryIsContiguous ==
  \A c, d \in Point :
    /\ owner[c] = First /\ d < c => owner[d] = First
    /\ owner[c] = Back /\ d > c => owner[d] = Back

(* The team a Win event names owns every point until the map is reset:     *)
(* nobody takes a point back in the calls between the capture of a home    *)
(* and the one that publishes the win.                                     *)
WinnerOwnsEverything == winner # Neutral => \A c \in Point : owner[c] = winner

(* The capture that decides the match is announced before the system falls *)
(* silent: a capture is published by the call after it, and there is no    *)
(* such call once the winner is found.                                     *)
LastCaptureIsAnnounced == winnerWasFound => ~recentlyCaptured

(* With every capture announced and answered by OnCaptured, a point that   *)
(* neither team can take next has lost the progress of former attacks.     *)
IsAnswered ==
  /\ ~recentlyCaptured
  /\ ~resetTimers
  /\ "Captured" \notin events \cup published

TimersAreSettled ==
  IsAnswered =>
    \A c \in Point : owner[c] # Neutral /\ ~IsNext(c) => captureTimer[c] = Full(owner[c])

(* The match goes on: no team stands alone for ever on the point it may    *)
(* take next.                                                              *)
SiegesSucceed ==
  \A t \in Team, c \in Point : []<>~(StandsAlone(t, c) /\ CanCapture(t, c))

(* A home that is lost ends the match, and the next one begins with the    *)
(* points as the map file has them.                                        *)
LostHomesEndTheMatch ==
  (\E c \in Point : IsLost(c)) ~> (owner = InitialOwner /\ ~winnerWasFound)

(* "//RED = +, BLUE = -" (CapturePointSystem.cpp:151): a team takes a      *)
(* point by moving its timer to its own end. It need not: defenders        *)
(* overshoot their end, and the attacker is then given the point at once.  *)
CapturesAreEarned ==
  [][\A c \in Point : owner'[c] # owner[c] => captureTimer'[c] = Full(owner'[c])]_vars

(* "check how many players are standing inside and are healthy"            *)
(* (CapturePointSystem.cpp:161), "check if player is dead" (176): a point  *)
(* is taken by the living. The code compares (int)Health with zero, and    *)
(* the health of a dead player is negative.                                *)
DeadDoNotCapture ==
  [][\A c \in Point : \A t \in Team :
       phase = "update" /\ owner'[c] = t /\ owner[c] # t
         => \E p \in Standing(t, c) : condition[p] \notin Dead]_vars
=============================================================================
