------------------------------ MODULE Animation ------------------------------
(* How a player's model moves: the requests the controls and the movement    *)
(* system publish (FirstPersonInputController.h, PlayerMovementSystem.cpp),  *)
(* the queues of blend jobs AnimationSystem keeps for the nodes they are     *)
(* about (AnimationSystem.cpp, AutoBlendQueue.cpp), and the weights the jobs *)
(* move in the model's BlendTree.                                            *)
(*                                                                           *)
(* The events of a command are handled before the next Update, in the order  *)
(* they were published, so that an action below is the command with its      *)
(* handlers.  Time is counted in ticks of one dt.  A looping animation never *)
(* ends and its time is left out, and with it the Reverse of walking back.   *)
(* Of a request Delay and Weight, which no command sets, are left out, and   *)
(* Start, which every command sets that asks for an animation that plays     *)
(* once; Speed is 1.                                                         *)
EXTENDS BlendTree

CONSTANTS
    Tree,           \* the model's tree, with length[n] > 0 where n plays once
    Duration,       \* how long a blend to a name takes, in ticks
    Orders,         \* the orders the unordered map may keep a set of entries in
    MaxCommands     \* bound on the commands

Timed == {n \in Tree.nodes : Tree.length[n] > 0}
Inner == {n \in Tree.nodes : Tree.kind[n] = "Blend"}
Names == {Tree.name[n] : n \in Tree.nodes}
Goals == [name \in Names |-> ToSet(FindNodesByName(Tree, name))]
Above == [name \in Names |-> ToSet(GetSingleLevelRoots(Tree, name))]
StepsTo == [name \in Names, single \in BOOLEAN |-> Steps(Tree, name, single)]
Sign == {-1, 0, 1}

ASSUME TreeAssumption ==
    /\ Tree.parent \in [Tree.nodes -> Tree.nodes \cup {NoNode}]
    /\ Tree.child \in [Tree.nodes -> (Tree.nodes \cup {NoNode}) \X (Tree.nodes \cup {NoNode})]
    /\ Tree.length \in [Tree.nodes -> Nat]
    /\ Tree.kind \in [Tree.nodes -> {"Blend", "Override", "Additive", "Animation"}]
    /\ Duration \in [Names -> Nat]
    /\ Goals \in [Names -> SUBSET Tree.nodes]
    /\ Above \in [Names -> SUBSET (Tree.nodes \cup {NoNode})]
    /\ StepsTo \in [Names \X BOOLEAN -> Seq(Inner \X Tree.nodes)]

VARIABLES
    weight,         \* Blend.Weight of every Blend node
    time, playing,  \* Animation.Time and Play of the animations that play once
    queue,          \* m_AutoBlendQueues: the jobs under each node, <<>> for none
    alive, built,   \* the model's entity exists; its BlendTree has been made
    move, crouching,\* m_Movement (the sign of x and z) and m_Crouching
    commands        \* commands given so far

vars == <<weight, time, playing, queue, alive, built, move, crouching, commands>>
body == [weight |-> weight, time |-> time, playing |-> playing, queue |-> queue]

------------------------------------------------------------------------------
(* AutoBlendQueue. *)

\* A blend to a name, with the animation at whose end it begins, or NoNode.
Request(name, single, restart, after) ==
    [name |-> name, single |-> single, restart |-> restart, after |-> after]

Job(r, delay) ==
    [name |-> r.name, single |-> r.single, duration |-> Duration[r.name],
     start |-> delay, end |-> delay + Duration[r.name], started |-> <<>>]

\* The loop of Insert.  A job of the same name is replaced and the loop goes on;
\* between two jobs the new one only goes when the first starts no sooner and
\* the second no later than it.
RECURSIVE Place(_, _, _)
Place(jobs, job, i) ==
    LET now == IF jobs[i].name = job.name THEN [jobs EXCEPT ![i] = job] ELSE jobs
    IN IF i < Len(jobs)
          THEN IF now[i].start >= job.start /\ now[i + 1].start <= job.start
                  THEN InsertAt(now, i + 1, job)
                  ELSE Place(now, job, i + 1)
       ELSE IF now[i].start > job.start THEN <<job>> \o now ELSE Append(now, job)

\* A job that waits for no animation replaces whatever is queued.
Insert(jobs, r, clock) ==
    IF r.after = NoNode THEN <<Job(r, 0)>>
    ELSE LET job == Job(r, Tree.length[r.after] - clock[r.after])
         IN IF jobs = <<>> THEN <<job>> ELSE Place(jobs, job, 1)

\* Mutant: time passes before the test for the end.
UpdateTimeFirst(jobs) ==
    LET later == [i \in DOMAIN jobs |-> [jobs[i] EXCEPT !.start = @ - 1, !.end = @ - 1]]
    IN SelectSeq(later, LAMBDA j : j.end > 0)

UpdateTime(jobs) ==
    LET left == SelectSeq(jobs, LAMBDA j : j.end > 0)
    IN [i \in DOMAIN left |-> [left[i] EXCEPT !.start = @ - 1, !.end = @ - 1]]

\* The front job has begun; a job of a model that is gone is dropped instead.
HasActiveBlendJob(jobs) == alive /\ jobs # <<>> /\ Head(jobs).start <= 0

Progress(job) ==
    IF job.duration = 0 \/ -job.start >= job.duration THEN One
    ELSE IF job.start = 0 THEN Zero ELSE Between

------------------------------------------------------------------------------
(* AnimationSystem. *)

\* OnAutoAnimationBlend: the goals start over if asked to, and the job is queued
\* under the sub tree's root, or under the parent of every goal.
OnAutoAnimationBlend(b, r) ==
    LET keys == IF r.single THEN {GetSubTreeRoot(Tree, r.name)}
                ELSE Above[r.name]
    IN [b EXCEPT !.time = [n \in Timed |-> IF r.restart /\ n \in Goals[r.name] THEN 0 ELSE @[n]],
                 !.queue = [n \in Tree.nodes |->
                              IF n \in keys THEN Insert(@[n], r, b.time) ELSE @[n]]]

\* The requests of one command; refused before the first tick has made the tree.
Handle(b, requests) ==
    IF alive /\ built THEN FoldLeft(OnAutoAnimationBlend, b, requests) ELSE b

OnSetBlendWeight(b, name, value) ==
    IF alive /\ built THEN [b EXCEPT !.weight = SetWeightByName(Tree, @, name, value)] ELSE b

\* UpdateAnimations: an animation that plays once stops at its end.
UpdateAnimations(b) ==
    LET over == {n \in b.playing : b.time[n] + 1 > Tree.length[n]}
    IN IF ~alive THEN b
       ELSE [b EXCEPT !.time = [n \in Timed |->
                         IF n \in over THEN Tree.length[n]
                         ELSE IF n \in b.playing THEN @[n] + 1 ELSE @[n]],
                      !.playing = @ \ over]

\* One queue's part of UpdateWeights.
UpdateQueue(b, n) ==
    LET jobs == b.queue[n]
        job == Head(jobs)
        step == AutoBlendStep(Tree, b.weight, job.started, StepsTo[job.name, job.single],
                              Progress(job))
    IN IF HasActiveBlendJob(jobs)
          THEN [b EXCEPT !.weight = step.w,
                         !.queue[n] = [jobs EXCEPT ![1].started = step.started],
                         !.playing = @ \cup (Goals[job.name] \cap Timed)]
       ELSE IF jobs # <<>> /\ ~alive /\ job.start <= 0
          THEN [b EXCEPT !.queue[n] = Tail(jobs)]
       ELSE b

UpdateQueues(b) == [b EXCEPT !.queue = [n \in Tree.nodes |-> UpdateTime(@[n])]]

Become(b) ==
    /\ weight' = b.weight
    /\ time' = b.time
    /\ playing' = b.playing
    /\ queue' = b.queue

\* UpdateWeights, for the queues in this order: the set of its one result.
RECURSIVE UpdateWeights(_, _)
UpdateWeights(b, order) ==
    IF order = <<>> THEN {b}
    ELSE UNION {UpdateWeights(c, Tail(order)) : c \in {UpdateQueue(b, Head(order))}}

\* Update, with the entries of the map in any order it may keep them in.
Update ==
    \E order \in Orders[{n \in Tree.nodes : queue[n] # <<>>}] :
    \E b \in UpdateWeights(UpdateAnimations(body), order) :
        /\ Become(UpdateQueues(b))
        /\ built' = (built \/ alive)
        /\ UNCHANGED <<alive, move, crouching, commands>>

------------------------------------------------------------------------------
(* What is published. *)

Still(m) == m[1] = 0 /\ m[2] = 0

\* The end of OnCommand, which every command reaches: idle, or the direction.
Settle(b, m) ==
    IF Still(m) THEN Handle(b, <<Request("Idle", FALSE, FALSE, NoNode)>>)
    ELSE OnSetBlendWeight(Handle(b, <<Request("DirectionBlend", FALSE, FALSE, NoNode)>>),
                          "DirectionBlend",
                          IF m[2] = 0 THEN One ELSE IF m[1] = 0 THEN Zero ELSE Between)

Command == commands < MaxCommands /\ commands' = commands + 1

Forward(v) ==
    LET gait == IF crouching THEN "Walk" ELSE "Run"
        walked == IF v = 0 THEN body ELSE Handle(body, <<Request(gait, TRUE, FALSE, NoNode)>>)
    IN /\ Command
       /\ move' = <<move[1], -v>>
       /\ Become(Settle(walked, <<move[1], -v>>))
       /\ UNCHANGED <<alive, built, crouching>>

Right(v) ==
    LET side == IF v > 0 THEN "Right" ELSE "Left"
        strafed == IF v = 0 THEN body ELSE Handle(body, <<Request(side, TRUE, FALSE, NoNode)>>)
    IN /\ Command
       /\ move' = <<v, move[2]>>
       /\ Become(Settle(strafed, <<v, move[2]>>))
       /\ UNCHANGED <<alive, built, crouching>>

Crouch(down) ==
    LET posture == IF down THEN "CrouchMovement" ELSE "StandMovement"
    IN /\ Command
       /\ crouching' = down
       /\ Become(Handle(Settle(body, move), <<Request(posture, TRUE, TRUE, NoNode)>>))
       /\ UNCHANGED <<alive, built, move>>

\* Any other command, such as a move of the mouse.
Look ==
    /\ Command
    /\ Become(Settle(body, move))
    /\ UNCHANGED <<alive, built, move, crouching>>

\* An animation that plays once, and the way back to the ground at its end.
InTheAir(name) ==
    LET leaf == CHOOSE n \in Tree.nodes : Tree.name[n] = name
    IN <<Request(name, FALSE, TRUE, NoNode), Request("MovementBlend", FALSE, FALSE, leaf)>>

\* The movement system, for the jump from the ground and the one in the air.
Jump ==
    /\ Command
    /\ ~crouching
    /\ Become(Handle(body, InTheAir("Jump")))
    /\ UNCHANGED <<alive, built, move, crouching>>

DashName(m) ==
    IF m[1] # 0 /\ m[2] = 0
       THEN IF m[1] > 0 THEN "DashRight" ELSE "DashLeft"
       ELSE IF m[2] < 0 THEN "DashForward" ELSE "DashBackward"

OnDashAbility ==
    /\ Command
    /\ Become(Handle(body, InTheAir(DashName(move))))
    /\ UNCHANGED <<alive, built, move, crouching>>

\* The player dies and its entities are deleted.
Delete ==
    /\ alive
    /\ alive' = FALSE
    /\ UNCHANGED <<weight, time, playing, queue, built, move, crouching, commands>>

------------------------------------------------------------------------------
Init ==
    /\ weight = [n \in Inner |-> Zero]
    /\ time = [n \in Timed |-> 0]
    /\ playing = {}
    /\ queue = [n \in Tree.nodes |-> <<>>]
    /\ alive = TRUE
    /\ built = FALSE
    /\ move = <<0, 0>>
    /\ crouching = FALSE
    /\ commands = 0

Next ==
    \/ Update
    \/ \E v \in Sign : Forward(v) \/ Right(v)
    \/ \E down \in BOOLEAN : Crouch(down)
    \/ Look
    \/ Jump
    \/ OnDashAbility
    \/ Delete

\* The game ticks for ever.
Spec == Init /\ [][Next]_vars /\ WF_vars(Update)

------------------------------------------------------------------------------
(* Properties *)

TypeOK ==
    /\ weight \in [Inner -> Weights]
    /\ \A n \in Timed : time[n] \in 0..Tree.length[n]
    /\ playing \subseteq Timed
    /\ \A n \in Tree.nodes : \A i \in DOMAIN queue[n] :
          queue[n][i].start >= -queue[n][i].duration - 1

Ground == CHOOSE n \in Above["MovementBlend"] : TRUE

\* The standing and the crouching body idle and turn alike, though their weights
\* are set by jobs in two queues, so that changing posture changes nothing else.
CopiesAgree ==
    \A name \in {"Idle", "DirectionBlend"} :
        LET copies == {n \in Inner : Tree.name[n] = name}
        IN alive => /\ \A n, m \in Above[name] : weight[n] = weight[m]
                    /\ \A n, m \in copies : weight[n] = weight[m]

\* When the last blend of idling and walking has left its queue, the body shows
\* what the last command left the player doing: no blend is dropped before its
\* last step, and a later one is not overtaken by an earlier.
TheFeetFollow ==
    [][\A n \in Above["Idle"] :
          alive /\ queue[n] # <<>> /\ queue'[n] = <<>> =>
              weight'[n] = IF Still(move) THEN One ELSE Zero]_vars

\* When commands stop the blends come to an end, those of a model that is gone
\* too, and the body is back on the ground.
BlendsSettle ==
    <>[](/\ \A n \in Tree.nodes : queue[n] = <<>>
         /\ alive => weight[Ground] = Zero)

\* Blends come to an end, and to the one that the commands ask for.
BlendsEndAsAsked == TheFeetFollow /\ BlendsSettle
==============================================================================
