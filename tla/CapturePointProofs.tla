------------------------- MODULE CapturePointProofs -------------------------
(***************************************************************************)
(* Proofs about the capture points, for every number of points and of      *)
(* players, every order of the pool and every length of the ticks: what    *)
(* the teams own is contiguous, a winner owns everything, the last capture *)
(* is announced, and the timers settle.                                    *)
(***************************************************************************)
EXTENDS CapturePoint, FiniteSetTheorems, TLAPS

Pending == events \cup published

(* The handlers are done before the points are updated; a tick begins with *)
(* nothing published.                                                      *)
TickInv ==
  /\ phase = "update" => events \cap {"Captured", "Reset"} = {}
  /\ phase = "server" => published = {}

HomesAreOwned == \A t \in Team : owner[Home(t)] # Neutral

(* From the win to the Reset event the map is the winner's; from then to   *)
(* its handling it is the fresh one, and the system stands still.          *)
MatchInv ==
  /\ winner # Neutral => winnerWasFound /\ "Reset" \notin Pending
  /\ "Reset" \in Pending =>
       winnerWasFound /\ owner = InitialOwner /\ captureTimer = InitialTimer
  /\ "Reset" \in events => "Reset" \notin published
  /\ gameIsOver \/ "Win" \in published => winner # Neutral
  /\ phase = "server" /\ "Win" \in events => winner # Neutral

Inv ==
  /\ TypeOK
  /\ TickInv
  /\ HomesAreOwned
  /\ MatchInv
  /\ TerritoryIsContiguous
  /\ WinnerOwnsEverything
  /\ LastCaptureIsAnnounced
  /\ TimersAreSettled

-----------------------------------------------------------------------------
(* Constants. *)

LEMMA Teams ==
  /\ Back \in Team
  /\ Back # First
  /\ \A t \in Team : t = First \/ t = Back
  /\ First \in Team
  /\ Neutral \notin Team
  /\ \A t \in Team : Opponent(t) \in Team /\ Opponent(t) # t
<1>1. \E t \in Team : t # First
  BY DEF Team
<1>2. Back \in Team /\ Back # First
  BY <1>1 DEF Back
<1> QED
  BY <1>2, PointAssumption DEF Team, Neutral, Opponent

LEMMA Homes ==
  /\ NumPoints \in Nat /\ NumPoints >= 2
  /\ 0 \in Point /\ NumPoints - 1 \in Point
  /\ \A t \in Team : Home(t) \in Point
  /\ Home(First) = 0 /\ Home(Back) = NumPoints - 1
BY PointAssumption, Teams DEF Point, Home

LEMMA FullIsInt == \A t \in Team : Full(t) \in Int /\ Sign(t) * Full(t) = MaxTimer
BY PointAssumption DEF Full, Sign, Team

LEMMA InitialMap ==
  /\ InitialOwner \in [Point -> Team \cup {Neutral}]
  /\ InitialTimer \in [Point -> Int]
  /\ \A t \in Team : InitialOwner[Home(t)] # Neutral
  /\ \A c, d \in Point :
       /\ InitialOwner[c] = First /\ d < c => InitialOwner[d] = First
       /\ InitialOwner[c] = Back /\ d > c => InitialOwner[d] = Back
  /\ \A c \in Point : InitialOwner[c] # Neutral => InitialTimer[c] = Full(InitialOwner[c])
<1>1. /\ InitialOwner \in [Point -> Team \cup {Neutral}]
      /\ \A t \in Team : InitialOwner[Home(t)] # Neutral
  BY Teams, Homes DEF InitialOwner
<1>2. \A c \in Point : InitialOwner[c] # Neutral => InitialOwner[c] \in Team
  BY <1>1
<1>3. InitialTimer \in [Point -> Int]
  BY <1>2, FullIsInt DEF InitialTimer
<1>4. ASSUME NEW c \in Point, NEW d \in Point
      PROVE  /\ InitialOwner[c] = First /\ d < c => InitialOwner[d] = First
             /\ InitialOwner[c] = Back /\ d > c => InitialOwner[d] = Back
  <2>1. /\ InitialOwner[c] = First => c = 0
        /\ InitialOwner[c] = Back => c = NumPoints - 1
    BY Teams DEF InitialOwner
  <2> QED
    BY <2>1, Homes DEF Point
<1> QED
  BY <1>1, <1>3, <1>4 DEF InitialTimer

-----------------------------------------------------------------------------
(* The line of points. *)

(* What a team may take next lies beyond a point it owns and is not its    *)
(* own.                                                                    *)
LEMMA NextIsBeyond ==
  ASSUME TypeOK, NEW t \in Team, NEW c \in Point, CanCapture(t, c)
  PROVE  /\ owner[c] # t
         /\ t = First => c - 1 \in Point /\ owner[c - 1] = First
         /\ t = Back => c + 1 \in Point /\ owner[c + 1] = Back
<1>1. c # -1
  BY DEF Point
<1>2. PICK f \in Point : IsFrontier(t, f) /\ c = f + (IF t = First THEN 1 ELSE -1)
  BY <1>1 DEF CanCapture, NextPossible
<1>3. f \in Int /\ c \in Int
  BY Homes DEF Point
<1>4. CASE t = First
  <2>1. c = f + 1
    BY <1>2, <1>4
  <2>2. owner[c] # First
    BY <1>2, <1>3, <1>4, <2>1 DEF IsFrontier, Beyond
  <2> QED
    BY <1>2, <1>3, <1>4, <2>1, <2>2, Teams DEF IsFrontier
<1>5. CASE t # First
  <2>1. c = f - 1
    BY <1>2, <1>3, <1>5
  <2>2. owner[c] # t
    BY <1>2, <1>3, <1>5, <2>1 DEF IsFrontier, Beyond
  <2> QED
    BY <1>2, <1>3, <1>5, <2>1, <2>2 DEF IsFrontier
<1> QED
  BY <1>4, <1>5

(* The team that holds the home of the other has nothing left to take. *)
LEMMA LoserOwnsNothing ==
  ASSUME TypeOK, HomesAreOwned, TerritoryIsContiguous,
         NEW c \in Point, IsLost(c)
  PROVE  /\ owner[c] \in Team
         /\ \A d \in Point : owner[d] = owner[c]
         /\ \A t \in Team, d \in Point : ~CanCapture(t, d)
<1>1. PICK u \in Team : c = Home(u) /\ owner[c] # u
  BY DEF IsLost
<1>2. owner[c] \in Team
  BY <1>1 DEF TypeOK, HomesAreOwned
<1>3. \A d \in Point : owner[d] = owner[c]
  <2>1. CASE u = First
    <3>1. c = 0 /\ owner[c] = Back
      BY <1>1, <1>2, <2>1, Teams, Homes
    <3> QED
      BY <3>1, Homes DEF TerritoryIsContiguous, Point
  <2>2. CASE u = Back
    <3>1. c = NumPoints - 1 /\ owner[c] = First
      BY <1>1, <1>2, <2>2, Teams, Homes
    <3> QED
      BY <3>1, Homes DEF TerritoryIsContiguous, Point
  <2> QED
    BY <2>1, <2>2, Teams
<1>4. ASSUME NEW t \in Team, NEW d \in Point, CanCapture(t, d)
      PROVE  FALSE
  <2>1. owner[d] # t
    BY <1>4, NextIsBeyond
  <2>2. \E e \in Point : owner[e] = t
    BY <1>4, NextIsBeyond, Teams
  <2> QED
    BY <1>3, <2>1, <2>2
<1> QED
  BY <1>2, <1>3, <1>4

(* Taking the next point keeps the territories contiguous. *)
LEMMA CaptureKeepsContiguity ==
  ASSUME TypeOK, TerritoryIsContiguous, NEW t \in Team, NEW c \in Point,
         CanCapture(t, c), owner' = [owner EXCEPT ![c] = t]
  PROVE  TerritoryIsContiguous'
<1>1. /\ \A d \in Point : d \in Int
      /\ owner' \in [Point -> Team \cup {Neutral}]
      /\ owner'[c] = t
      /\ \A d \in Point \ {c} : owner'[d] = owner[d]
  BY Homes DEF TypeOK, Point
<1>2. CASE t = First
  <2>1. c - 1 \in Point /\ owner[c - 1] = First
    BY <1>2, NextIsBeyond
  <2>2. ASSUME NEW a \in Point, NEW b \in Point, owner'[a] = First, b < a
        PROVE  owner'[b] = First
    <3>1. CASE a = c
      <4>1. b = c - 1 \/ b < c - 1
        BY <1>1, <2>2, <3>1
      <4> QED
        BY <1>1, <2>1, <2>2, <3>1, <4>1 DEF TerritoryIsContiguous
    <3>2. CASE a # c
      <4>1. owner[b] = First
        BY <1>1, <2>2, <3>2 DEF TerritoryIsContiguous
      <4> QED
        BY <1>1, <1>2, <4>1
    <3> QED
      BY <3>1, <3>2
  <2>3. ASSUME NEW a \in Point, NEW b \in Point, owner'[a] = Back, b > a
        PROVE  owner'[b] = Back
    <3>1. a # c /\ owner[a] = Back
      BY <1>1, <1>2, <2>3, Teams
    <3>2. owner[b] = Back
      BY <2>3, <3>1 DEF TerritoryIsContiguous
    <3>3. CASE b = c
      <4>1. a = c - 1 \/ a < c - 1
        BY <1>1, <2>3, <3>3
      <4>2. owner[c - 1] = Back
        BY <1>1, <2>1, <3>1, <4>1 DEF TerritoryIsContiguous
      <4> QED
        BY <2>1, <4>2, Teams
    <3> QED
      BY <1>1, <3>2, <3>3
  <2> QED
    BY <2>2, <2>3 DEF TerritoryIsContiguous
<1>3. CASE t = Back
  <2>1. c + 1 \in Point /\ owner[c + 1] = Back
    BY <1>3, NextIsBeyond
  <2>2. ASSUME NEW a \in Point, NEW b \in Point, owner'[a] = Back, b > a
        PROVE  owner'[b] = Back
    <3>1. CASE a = c
      <4>1. b = c + 1 \/ b > c + 1
        BY <1>1, <2>2, <3>1
      <4> QED
        BY <1>1, <2>1, <2>2, <3>1, <4>1 DEF TerritoryIsContiguous
    <3>2. CASE a # c
      <4>1. owner[b] = Back
        BY <1>1, <2>2, <3>2 DEF TerritoryIsContiguous
      <4> QED
        BY <1>1, <1>3, <4>1
    <3> QED
      BY <3>1, <3>2
  <2>3. ASSUME NEW a \in Point, NEW b \in Point, owner'[a] = First, b < a
        PROVE  owner'[b] = First
    <3>1. a # c /\ owner[a] = First
      BY <1>1, <1>3, <2>3, Teams
    <3>2. owner[b] = First
      BY <2>3, <3>1 DEF TerritoryIsContiguous
    <3>3. CASE b = c
      <4>1. a = c + 1 \/ a > c + 1
        BY <1>1, <2>3, <3>3
      <4>2. owner[c + 1] = First
        BY <1>1, <2>1, <3>1, <4>1 DEF TerritoryIsContiguous
      <4> QED
        BY <2>1, <4>2, Teams
    <3> QED
      BY <1>1, <3>2, <3>3
  <2> QED
    BY <2>2, <2>3 DEF TerritoryIsContiguous
<1> QED
  BY <1>2, <1>3, Teams

-----------------------------------------------------------------------------
(* The invariant is inductive. *)

LEMMA NextKept ==
  ASSUME owner' = owner
  PROVE  /\ \A t \in Team, c \in Point : IsFrontier(t, c)' <=> IsFrontier(t, c)
         /\ \A c \in Point : IsNext(c)' <=> IsNext(c)
BY DEF IsNext, NextPossible, IsFrontier

LEMMA InitInv == Init => Inv
<1> SUFFICES ASSUME Init PROVE Inv
  OBVIOUS
<1>1. TypeOK
  <2>1. owner \in [Point -> Team \cup {Neutral}] /\ captureTimer \in [Point -> Int]
    BY InitialMap DEF Init
  <2>2. condition \in [Player -> Condition]
    BY DEF Init, Condition
  <2>3. position \in 1 .. NumPoints + 1 /\ countdown \in Int
    BY Homes, PointAssumption DEF Init
  <2> QED
    BY <2>1, <2>2, <2>3 DEF Init, TypeOK
<1>2. TickInv /\ LastCaptureIsAnnounced /\ WinnerOwnsEverything /\ MatchInv
  BY DEF Init, TickInv, LastCaptureIsAnnounced, WinnerOwnsEverything,
         MatchInv, Pending, OnWin
<1>3. HomesAreOwned /\ TerritoryIsContiguous /\ TimersAreSettled
  BY InitialMap DEF Init, HomesAreOwned, TerritoryIsContiguous, TimersAreSettled
<1> QED
  BY <1>1, <1>2, <1>3 DEF Inv

(* A step of the players changes nothing the match depends on. *)
LEMMA MatchKept ==
  ASSUME Inv,
         UNCHANGED <<phase, events, published, owner, captureTimer, gameIsOver,
                     winnerWasFound, resetTimers, recentlyCaptured, winner>>
  PROVE  /\ TickInv' /\ HomesAreOwned' /\ MatchInv'
         /\ TerritoryIsContiguous' /\ WinnerOwnsEverything'
         /\ LastCaptureIsAnnounced' /\ TimersAreSettled'
<1>1. TickInv' /\ HomesAreOwned' /\ MatchInv'
  BY DEF Inv, TickInv, HomesAreOwned, MatchInv, Pending, OnWin
<1>2. TerritoryIsContiguous' /\ WinnerOwnsEverything' /\ LastCaptureIsAnnounced'
  BY DEF Inv, TerritoryIsContiguous, WinnerOwnsEverything, LastCaptureIsAnnounced
<1>3. TimersAreSettled'
  BY NextKept DEF Inv, TimersAreSettled, IsAnswered
<1> QED
  BY <1>1, <1>2, <1>3

LEMMA PlayersKeepInv == Inv /\ Players => Inv'
<1> SUFFICES ASSUME Inv, Players PROVE Inv'
  OBVIOUS
<1>1. ASSUME NEW p \in Player, IsDamaged(p) \/ IsHealed(p) \/ IsDeleted(p) \/ IsSpawned(p)
      PROVE  Inv'
  <2>1. PICK h \in Condition : condition' = [condition EXCEPT ![p] = h]
    BY <1>1 DEF IsDamaged, IsHealed, IsDeleted, IsSpawned, Condition
  <2>2. UNCHANGED <<schedule, events, published, owner, captureTimer, touches,
                    system, server, winner>>
    BY <1>1 DEF IsDamaged, IsHealed, IsDeleted, IsSpawned
  <2>3. TypeOK'
    BY <2>1, <2>2 DEF Inv, TypeOK, schedule, system, server
  <2> QED
    BY <2>2, <2>3, MatchKept DEF Inv, schedule, system, server
<1>2. ASSUME NEW p \in Player, NEW c \in Point, OnTriggerTouch(p, c) \/ OnTriggerLeave(p, c)
      PROVE  Inv'
  <2>1. touches' \subseteq Player \X Point
    BY <1>2 DEF OnTriggerTouch, OnTriggerLeave, Inv, TypeOK
  <2>2. UNCHANGED <<schedule, events, published, owner, captureTimer, condition,
                    system, server, winner>>
    BY <1>2 DEF OnTriggerTouch, OnTriggerLeave
  <2>3. TypeOK'
    BY <2>1, <2>2 DEF Inv, TypeOK, schedule, system, server
  <2> QED
    BY <2>2, <2>3, MatchKept DEF Inv, schedule, system, server
<1> QED
  BY <1>1, <1>2 DEF Players

LEMMA ServerKeepsInv ==
  ASSUME Inv, NEW d \in DeltaTimes, ServerUpdate(d) \/ CountDown(d) \/ ResetMap(d)
  PROVE  Inv'
<1> USE DEF Inv
<1>1. TypeOK'
  <2>1. /\ phase' = "handlers" /\ dt' = d
        /\ UNCHANGED <<position, events, touches, system>>
    BY DEF ServerUpdate, CountDown, ResetMap
  <2>2. owner' \in [Point -> Team \cup {Neutral}] /\ captureTimer' \in [Point -> Int]
    BY InitialMap DEF TypeOK, ServerUpdate, CountDown, ResetMap
  <2>3. condition' \in [Player -> Condition]
    BY DEF TypeOK, ServerUpdate, CountDown, ResetMap, Condition
  <2>4. published' \subseteq EventType
    BY DEF TypeOK, ServerUpdate, CountDown, ResetMap, EventType
  <2>5. gameIsOver' \in BOOLEAN /\ winner' \in Team \cup {Neutral}
    BY DEF TypeOK, ServerUpdate, CountDown, ResetMap, server
  <2>6. countdown' \in Int
    <3>1. countdown - d \in Int /\ ResetCountdown \in Int
      BY PointAssumption DEF TypeOK
    <3> QED
      BY <3>1 DEF TypeOK, ServerUpdate, CountDown, ResetMap, server
  <2> QED
    BY <2>1, <2>2, <2>3, <2>4, <2>5, <2>6 DEF TypeOK, system
<1>2. TickInv'
  BY DEF TickInv, ServerUpdate, CountDown, ResetMap
<1>3. CASE ServerUpdate(d) \/ CountDown(d)
  <2>1. UNCHANGED <<events, published, owner, captureTimer, winnerWasFound,
                    resetTimers, recentlyCaptured, winner>>
    BY <1>3 DEF ServerUpdate, CountDown, system
  <2>2. MatchInv'
    BY <1>3, <2>1 DEF MatchInv, Pending, OnWin, ServerUpdate, CountDown, server
  <2>3. HomesAreOwned' /\ TerritoryIsContiguous' /\ WinnerOwnsEverything' /\ LastCaptureIsAnnounced'
    BY <2>1 DEF HomesAreOwned, TerritoryIsContiguous, WinnerOwnsEverything, LastCaptureIsAnnounced
  <2>4. TimersAreSettled'
    BY <2>1, NextKept DEF TimersAreSettled, IsAnswered
  <2> QED
    BY <1>1, <1>2, <2>2, <2>3, <2>4
<1>4. CASE ResetMap(d)
  <2>1. /\ owner' = InitialOwner /\ captureTimer' = InitialTimer
        /\ winner' = Neutral /\ gameIsOver' = FALSE
        /\ published' = published \cup {"Reset"}
        /\ UNCHANGED <<events, winnerWasFound, resetTimers, recentlyCaptured>>
    BY <1>4 DEF ResetMap, system
  <2>2. winner # Neutral /\ winnerWasFound /\ "Reset" \notin events
    BY <1>4 DEF ResetMap, MatchInv, Pending, OnWin
  <2>3. phase' = "handlers" /\ "Win" \notin published'
    BY <1>4, <2>1 DEF ResetMap, TickInv
  <2>4. MatchInv'
    BY <2>1, <2>2, <2>3 DEF MatchInv, Pending
  <2>5. HomesAreOwned' /\ TerritoryIsContiguous' /\ TimersAreSettled'
    BY <2>1, InitialMap DEF HomesAreOwned, TerritoryIsContiguous, TimersAreSettled
  <2>6. WinnerOwnsEverything' /\ LastCaptureIsAnnounced'
    BY <2>1 DEF WinnerOwnsEverything, LastCaptureIsAnnounced
  <2> QED
    BY <1>1, <1>2, <2>4, <2>5, <2>6
<1> QED
  BY <1>3, <1>4

LEMMA HandlersKeepInv == Inv /\ (OnReset \/ OnCaptured \/ BeginUpdate) => Inv'
<1> SUFFICES ASSUME Inv, OnReset \/ OnCaptured \/ BeginUpdate PROVE Inv'
  OBVIOUS
<1> USE DEF Inv
<1>1. UNCHANGED <<published, owner, captureTimer, condition, server, winner>>
  BY DEF OnReset, OnCaptured, BeginUpdate
<1>2. HomesAreOwned' /\ TerritoryIsContiguous' /\ WinnerOwnsEverything'
  BY <1>1 DEF HomesAreOwned, TerritoryIsContiguous, WinnerOwnsEverything
<1>3. CASE OnReset
  <2>1. TypeOK'
    BY <1>1, <1>3 DEF OnReset, TypeOK, schedule, server
  <2>2. MatchInv' /\ TickInv' /\ LastCaptureIsAnnounced'
    BY <1>1, <1>3 DEF OnReset, MatchInv, Pending, TickInv, LastCaptureIsAnnounced,
                      schedule, server
  <2>3. TimersAreSettled'
    <3>1. owner' = InitialOwner /\ captureTimer' = InitialTimer
      BY <1>1, <1>3 DEF OnReset, MatchInv, Pending
    <3> QED
      BY <3>1, InitialMap DEF TimersAreSettled
  <2> QED
    BY <1>2, <2>1, <2>2, <2>3
<1>4. CASE OnCaptured
  <2>1. TypeOK'
    BY <1>1, <1>4 DEF OnCaptured, TypeOK, schedule, server
  <2>2. MatchInv' /\ TickInv' /\ LastCaptureIsAnnounced'
    BY <1>1, <1>4 DEF OnCaptured, MatchInv, Pending, TickInv, LastCaptureIsAnnounced,
                      schedule, server
  <2>3. TimersAreSettled'
    BY <1>4 DEF OnCaptured, TimersAreSettled, IsAnswered
  <2> QED
    BY <1>2, <2>1, <2>2, <2>3
<1>5. CASE BeginUpdate
  <2>1. TypeOK'
    BY <1>1, <1>5, Homes DEF BeginUpdate, TypeOK, system, server
  <2>2. MatchInv' /\ TickInv' /\ LastCaptureIsAnnounced'
    BY <1>1, <1>5 DEF BeginUpdate, MatchInv, Pending, TickInv, LastCaptureIsAnnounced,
                      system, server
  <2>3. TimersAreSettled'
    BY <1>1, <1>5, NextKept DEF BeginUpdate, TimersAreSettled, IsAnswered, system
  <2> QED
    BY <1>2, <2>1, <2>2, <2>3
<1> QED
  BY <1>3, <1>4, <1>5

LEMMA EndTickKeepsInv == Inv /\ EndTick => Inv'
<1> SUFFICES ASSUME Inv, EndTick PROVE Inv'
  OBVIOUS
<1> USE DEF Inv
<1>1. /\ UNCHANGED <<owner, captureTimer, condition, touches, system, server, winner>>
      /\ phase = "update" /\ phase' = "server" /\ position' = 1 /\ dt' = 0
      /\ events' = published /\ published' = {}
  BY DEF EndTick
<1>2. TypeOK'
  BY <1>1, Homes DEF TypeOK, system, server
<1>3. MatchInv'
  BY <1>1 DEF MatchInv, Pending, system, server
<1>4. TickInv' /\ HomesAreOwned' /\ TerritoryIsContiguous' /\ WinnerOwnsEverything'
      /\ LastCaptureIsAnnounced'
  BY <1>1 DEF TickInv, HomesAreOwned, TerritoryIsContiguous, WinnerOwnsEverything,
              LastCaptureIsAnnounced, system
<1>5. TimersAreSettled'
  BY <1>1, NextKept DEF TimersAreSettled, IsAnswered, TickInv, system
<1> QED
  BY <1>2, <1>3, <1>4, <1>5

LEMMA PositionMoves ==
  ASSUME TypeOK, Advance
  PROVE  /\ Current \in Point
         /\ phase = "update" /\ UNCHANGED <<phase, dt>>
         /\ position' \in 1 .. NumPoints + 1
<1>1. position \in 1 .. NumPoints /\ position' = position + 1
  BY Homes DEF TypeOK, Advance
<1>2. Current \in Point
  BY <1>1, PointAssumption DEF Current
<1>3. position' \in 1 .. NumPoints + 1
  BY <1>1, Homes
<1> QED
  BY <1>2, <1>3 DEF Advance

LEMMA WaitingKeepsInv == Inv /\ (Idle \/ Collect) => Inv'
<1> SUFFICES ASSUME Inv, Idle \/ Collect PROVE Inv'
  OBVIOUS
<1>1. /\ TypeOK /\ Advance
      /\ UNCHANGED <<events, published, owner, captureTimer, condition, touches,
                     winnerWasFound, resetTimers, recentlyCaptured, server, winner>>
  BY DEF Inv, Idle, Collect, system
<1>2. numberOfPoints' \in {0, NumPoints} /\ found' \subseteq -1 .. NumPoints
  <2>1. CASE Idle
    BY <2>1 DEF Idle, system, Inv, TypeOK
  <2>2. CASE Collect
    <3>1. Current \in -1 .. NumPoints
      BY <1>1, PositionMoves, Homes DEF Point
    <3> QED
      BY <2>2, <3>1 DEF Collect, NumberNow, FoundBefore, Inv, TypeOK
  <2> QED
    BY <2>1, <2>2
<1>3. TypeOK'
  BY <1>1, <1>2, PositionMoves DEF TypeOK, server
<1> QED
  BY <1>1, <1>3, PositionMoves, MatchKept DEF Inv, server

-----------------------------------------------------------------------------
(* One call for a point, once all points are found. *)

LEMMA SettledIsTyped ==
  ASSUME TypeOK
  PROVE  /\ Settled \in [Point -> Int]
         /\ \A c \in Point : resetTimers /\ ~IsNext(c) /\ owner[c] # Neutral
                              => Settled[c] = Full(owner[c])
<1>1. \A c \in Point : owner[c] # Neutral => owner[c] \in Team
  BY DEF TypeOK
<1>2. \A c \in Point : captureTimer[c] \in Int
  BY DEF TypeOK
<1> QED
  BY <1>1, <1>2, FullIsInt DEF Settled

LEMMA MovedIsInt ==
  ASSUME TypeOK, NEW t \in Team, NEW c \in Point
  PROVE  Moved(t, c) \in Int
<1>1. Cardinality(Standing(t, c)) \in Int
  <2>1. Standing(t, c) \subseteq Player
    BY DEF Standing
  <2> QED
    BY <2>1, PointAssumption, FS_Subset, FS_CardinalityType
<1>2. dt \in Int /\ Sign(t) \in Int
  BY PointAssumption DEF TypeOK, Sign
<1>3. Sign(t) * Cardinality(Standing(t, c)) \in Int
  BY <1>1, <1>2
<1>4. Sign(t) * Cardinality(Standing(t, c)) * dt \in Int
  BY <1>2, <1>3
<1>5. Settled[c] \in Int
  BY SettledIsTyped
<1> QED
  BY <1>4, <1>5 DEF Moved

LEMMA NextIsOnTheMap ==
  ASSUME TypeOK, NEW t \in Team
  PROVE  NextPossible(t) \subseteq -1 .. NumPoints
<1>1. \A c \in Point : c \in Int /\ c >= 0 /\ c < NumPoints
  BY Homes DEF Point
<1> QED
  BY <1>1, Homes DEF NextPossible

LEMMA UpdatePointIsTyped == TypeOK /\ UpdatePoint => TypeOK'
<1> SUFFICES ASSUME TypeOK, UpdatePoint PROVE TypeOK'
  OBVIOUS
<1>1. /\ Current \in Point
      /\ position' \in 1 .. NumPoints + 1
      /\ UNCHANGED <<phase, dt, events, condition, server>>
  BY PositionMoves DEF UpdatePoint
<1>2. /\ owner' \in [Point -> Team \cup {Neutral}]
      /\ captureTimer' \in [Point -> Int]
      /\ recentlyCaptured' \in BOOLEAN
  <2>1. CASE Stalemate(Current)
    BY <2>1, SettledIsTyped DEF Stalemate, TypeOK
  <2>2. ASSUME NEW t \in Team, Contest(t, Current) \/ Capture(t, Current)
        PROVE  <1>2!1 /\ <1>2!2 /\ <1>2!3
    <3>1. owner' \in [Point -> Team \cup {Neutral}]
      BY <2>2 DEF Contest, Capture, TypeOK
    <3>2. captureTimer' \in [Point -> Int]
      <4>1. MaxTimer \in Int /\ -MaxTimer \in Int
        BY PointAssumption
      <4> QED
        BY <1>1, <2>2, <4>1, SettledIsTyped, MovedIsInt DEF Contest, Capture
    <3> QED
      BY <2>2, <3>1, <3>2 DEF Contest, Capture
  <2> QED
    BY <2>1, <2>2 DEF UpdatePoint
<1>3. numberOfPoints' \in {0, NumPoints}
  BY DEF UpdatePoint, NumberNow, TypeOK
<1>4. found' \subseteq -1 .. NumPoints
  <2>1. FoundBefore \subseteq -1 .. NumPoints
    BY DEF FoundBefore, TypeOK
  <2>2. UNION {NextPossible(t) : t \in Team} \subseteq -1 .. NumPoints
    BY NextIsOnTheMap
  <2> QED
    BY <2>1, <2>2 DEF UpdatePoint
<1>5. published' \subseteq EventType
  BY DEF UpdatePoint, Announced, TypeOK, EventType
<1>6. winner' \in Team \cup {Neutral} /\ winnerWasFound' \in BOOLEAN
  BY <1>1 DEF UpdatePoint, CheckForWinner, TypeOK
<1>7. touches' \subseteq Player \X Point /\ resetTimers' \in BOOLEAN
  BY DEF UpdatePoint, TypeOK
<1> QED
  BY <1>1, <1>2, <1>3, <1>4, <1>5, <1>6, <1>7 DEF TypeOK, server

(* A timer that is full and nobody can move stays as it is. *)
LEMMA FullStaysFull ==
  ASSUME TypeOK, NEW t \in Team, NEW c \in Point, ~IsNext(c),
         owner[c] # Neutral, Settled[c] = Full(owner[c])
  PROVE  Moved(t, c) = Full(owner[c])
<1>1. ~CanCapture(t, c)
  BY DEF IsNext, CanCapture
<1>2. owner[c] = t => Sign(t) * Settled[c] = MaxTimer
  BY FullIsInt
<1>3. ~(MaxTimer < MaxTimer)
  BY PointAssumption
<1> QED
  BY <1>1, <1>2, <1>3 DEF Moved

LEMMA UpdatePointSettles ==
  ASSUME Inv, UpdatePoint
  PROVE  TimersAreSettled'
<1>1. Current \in Point /\ phase = "update" /\ UNCHANGED events /\ TypeOK
  BY PositionMoves DEF UpdatePoint, Inv
<1> SUFFICES ASSUME IsAnswered', NEW c \in Point, owner'[c] # Neutral, ~IsNext(c)'
             PROVE  captureTimer'[c] = Full(owner'[c])
  BY DEF TimersAreSettled
<1>2. ~recentlyCaptured' /\ "Captured" \notin published'
  BY DEF IsAnswered
<1>3. ~recentlyCaptured
  BY <1>2 DEF UpdatePoint, Announced
<1>4. \A t \in Team : ~Capture(t, Current)
  BY <1>2 DEF Capture
<1>5. owner' = owner
  BY <1>4 DEF UpdatePoint, Stalemate, Contest
<1>6. ~IsNext(c) /\ owner[c] # Neutral
  BY <1>5, NextKept
<1>7. Settled[c] = Full(owner[c])
  <2>1. CASE resetTimers
    BY <1>1, <1>6, <2>1, SettledIsTyped
  <2>2. CASE ~resetTimers
    <3>1. "Captured" \notin events \cup published
      BY <1>1, <1>2 DEF UpdatePoint, Inv, TickInv
    <3>2. captureTimer[c] = Full(owner[c])
      BY <1>3, <1>6, <2>2, <3>1 DEF Inv, TimersAreSettled, IsAnswered
    <3> QED
      BY <2>2, <3>2 DEF Settled
  <2> QED
    BY <2>1, <2>2
<1>8. CASE Stalemate(Current)
  BY <1>5, <1>7, <1>8 DEF Stalemate
<1>9. ASSUME NEW t \in Team, Contest(t, Current)
      PROVE  captureTimer'[c] = Full(owner'[c])
  <2>1. captureTimer' = [Settled EXCEPT ![Current] = Moved(t, Current)]
    BY <1>9 DEF Contest
  <2>2. c = Current => Moved(t, c) = Full(owner[c])
    BY <1>1, <1>6, <1>7, FullStaysFull
  <2> QED
    BY <1>1, <1>5, <1>7, <2>1, <2>2, SettledIsTyped
<1> QED
  BY <1>4, <1>8, <1>9 DEF UpdatePoint

LEMMA UpdatePointKeepsInv == Inv /\ UpdatePoint => Inv'
<1> SUFFICES ASSUME Inv, UpdatePoint PROVE Inv'
  OBVIOUS
<1>1. /\ Current \in Point /\ phase = "update" /\ phase' = phase
      /\ UNCHANGED <<events, condition, server>>
      /\ TypeOK /\ TerritoryIsContiguous /\ HomesAreOwned
  BY PositionMoves DEF UpdatePoint, Inv
<1>2. TypeOK'
  BY <1>1, UpdatePointIsTyped
<1>3. \/ owner' = owner /\ recentlyCaptured' = FALSE
      \/ \E t \in Team : /\ CanCapture(t, Current)
                         /\ owner' = [owner EXCEPT ![Current] = t]
  BY DEF UpdatePoint, Stalemate, Contest, Capture, IsTaken
<1>4. HomesAreOwned'
  BY <1>1, <1>3, Teams, Homes DEF HomesAreOwned, TypeOK
<1>5. TerritoryIsContiguous'
  <2>1. CASE owner' = owner
    BY <1>1, <2>1 DEF TerritoryIsContiguous
  <2> QED
    BY <1>1, <1>3, <2>1, CaptureKeepsContiguity
<1>6. ~winnerWasFound /\ winner = Neutral /\ "Reset" \notin Pending
      /\ "Win" \notin published /\ gameIsOver = FALSE
  BY DEF UpdatePoint, Inv, MatchInv, Pending, TypeOK
<1>7. ASSUME ~IsLost(Current)
      PROVE  MatchInv' /\ WinnerOwnsEverything' /\ LastCaptureIsAnnounced'
  <2>1. UNCHANGED <<winner, winnerWasFound>>
    BY <1>7 DEF UpdatePoint, CheckForWinner
  <2>2. "Reset" \notin published' /\ "Win" \notin published'
    BY <1>6, <1>7 DEF UpdatePoint, Announced, Pending
  <2>3. MatchInv'
    BY <1>1, <1>6, <2>1, <2>2 DEF MatchInv, Pending, server
  <2>4. WinnerOwnsEverything' /\ LastCaptureIsAnnounced'
    BY <1>6, <2>1 DEF WinnerOwnsEverything, LastCaptureIsAnnounced
  <2> QED
    BY <2>3, <2>4
<1>8. ASSUME IsLost(Current)
      PROVE  MatchInv' /\ WinnerOwnsEverything' /\ LastCaptureIsAnnounced'
  <2>1. /\ winner' = owner[Current] /\ winnerWasFound' = TRUE
    BY <1>8 DEF UpdatePoint, CheckForWinner
  <2>2. /\ owner[Current] \in Team
        /\ \A d \in Point : owner[d] = owner[Current]
        /\ owner' = owner /\ recentlyCaptured' = FALSE
    BY <1>1, <1>3, <1>8, LoserOwnsNothing
  <2>3. "Reset" \notin published'
    BY <1>6 DEF UpdatePoint, Announced, Pending
  <2>4. MatchInv'
    BY <1>1, <1>6, <2>1, <2>2, <2>3, Teams DEF MatchInv, Pending, server
  <2>5. WinnerOwnsEverything' /\ LastCaptureIsAnnounced'
    BY <2>1, <2>2 DEF WinnerOwnsEverything, LastCaptureIsAnnounced
  <2> QED
    BY <2>4, <2>5
<1>9. MatchInv' /\ WinnerOwnsEverything' /\ LastCaptureIsAnnounced'
  BY <1>7, <1>8
<1>10. TickInv'
  BY <1>1 DEF TickInv, Inv
<1>11. TimersAreSettled'
  BY UpdatePointSettles
<1> QED
  BY <1>2, <1>4, <1>5, <1>9, <1>10, <1>11 DEF Inv

-----------------------------------------------------------------------------
(* The theorems. *)

LEMMA NextKeepsInv == Inv /\ [Next]_vars => Inv'
<1> SUFFICES ASSUME Inv, [Next]_vars PROVE Inv'
  OBVIOUS
<1>1. CASE Tick
  BY <1>1, ServerKeepsInv, HandlersKeepInv, EndTickKeepsInv, WaitingKeepsInv,
     UpdatePointKeepsInv DEF Tick, UpdateComponent
<1>2. CASE Players
  BY <1>2, PlayersKeepInv
<1>3. CASE UNCHANGED vars
  <2>1. TypeOK'
    BY <1>3 DEF vars, Inv, TypeOK
  <2> QED
    BY <1>3, <2>1, MatchKept DEF vars, Inv
<1> QED
  BY <1>1, <1>2, <1>3 DEF Next

(* The inductive invariant holds in every reachable state. *)
THEOREM Invariance == Spec => []Inv
BY InitInv, NextKeepsInv, PTL DEF Spec

(* The types of the variables of the system, whatever the map. *)
THEOREM TypeCorrect == Spec => []TypeOK
<1>1. Inv => TypeOK
  BY DEF Inv
<1> QED
  BY <1>1, Invariance, PTL

(* No capture ever leaves a gap in what a team owns. *)
THEOREM TerritoryIsAlwaysContiguous == Spec => []TerritoryIsContiguous
<1>1. Inv => TerritoryIsContiguous
  BY DEF Inv
<1> QED
  BY <1>1, Invariance, PTL

(* No point is taken back from a team that has won. *)
THEOREM WinnerAlwaysOwnsEverything == Spec => []WinnerOwnsEverything
<1>1. Inv => WinnerOwnsEverything
  BY DEF Inv
<1> QED
  BY <1>1, Invariance, PTL

(* The decisive capture is announced before the win silences the system. *)
THEOREM LastCaptureIsAlwaysAnnounced == Spec => []LastCaptureIsAnnounced
<1>1. Inv => LastCaptureIsAnnounced
  BY DEF Inv
<1> QED
  BY <1>1, Invariance, PTL

(* Once the captures are answered, no progress of an attack is left on a   *)
(* point out of reach.                                                     *)
THEOREM TimersAlwaysSettle == Spec => []TimersAreSettled
<1>1. Inv => TimersAreSettled
  BY DEF Inv
<1> QED
  BY <1>1, Invariance, PTL
=============================================================================
