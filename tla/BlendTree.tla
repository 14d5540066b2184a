------------------------------ MODULE BlendTree ------------------------------
(* The tree of poses a model is animated with (BlendTree.cpp).  Its leaves   *)
(* play animations; an inner node puts the poses of its two children         *)
(* together: Blend with a weight (0 shows the first child, 1 the second),    *)
(* Override and Additive bone by bone.  The operators below are the pure     *)
(* part: how the tree is built from the entities, walked, searched, posed,   *)
(* and how one step of a blend moves the weights above the goal.             *)
(*                                                                           *)
(* A tree t is a record: nodes, root, parent, child (a pair), name, kind,    *)
(* and sub, the nodes marked SubTreeRoot.  A weight is abstracted to 0, to 1 *)
(* or to Between, the open interval, which is exact for the formula of the   *)
(* step: progress 0 leaves the start, progress 1 gives the goal, and any     *)
(* progress in between gives a weight in between, unless both ends agree.    *)
EXTENDS Integers, Sequences, FiniteSets, SequencesExt

CONSTANT NoNode

Zero == "0"
Between == "between"
One == "1"
Weights == {Zero, Between, One}

------------------------------------------------------------------------------
(* Building the tree. *)

\* What FillTreeByName keeps of the entities below a model: a leaf with an
\* animation the skeleton knows, and an inner node with a child it keeps.
Kept(t) ==
    LET kept[n \in t.nodes] ==
          IF t.kind[n] = "Animation" THEN t.known[n]
          ELSE \E i \in 1..2 : t.child[n][i] # NoNode /\ kept[t.child[n][i]]
    IN kept

\* The constructor: the model's own entity stays even when nothing below it
\* does, unless its animation is unknown; then there is no tree.
IsValid(t) == t.kind[t.root] = "Animation" => t.known[t.root]

FillTree(t) ==
    LET left == {n \in t.nodes : n = t.root \/ Kept(t)[n]}
        Pruned(pair) == [i \in 1..2 |-> IF pair[i] \in left THEN pair[i] ELSE NoNode]
    IN [t EXCEPT !.nodes = left, !.child = [n \in left |-> Pruned(t.child[n])]]

------------------------------------------------------------------------------
(* Walking it. *)

Leftmost(t) ==
    LET down[n \in t.nodes] ==
          IF t.child[n][1] = NoNode THEN n ELSE down[t.child[n][1]]
    IN down

\* Mutant: the right child itself is next, not the leftmost node below it.
FollowingRightChild(t, n) ==
    LET up[m \in t.nodes] ==
          IF t.parent[m] = NoNode THEN NoNode
          ELSE IF t.child[t.parent[m]][2] = m THEN up[t.parent[m]] ELSE t.parent[m]
    IN IF t.child[n][2] = NoNode THEN up[n] ELSE t.child[n][2]

\* Node::Next, the node after n: the leftmost of the right subtree, or the
\* first ancestor n is not to the right of.
Following(t, n) ==
    LET up[m \in t.nodes] ==
          IF t.parent[m] = NoNode THEN NoNode
          ELSE IF t.child[t.parent[m]][2] = m THEN up[t.parent[m]] ELSE t.parent[m]
    IN IF t.child[n][2] = NoNode THEN up[n] ELSE Leftmost(t)[t.child[n][2]]

Traverse(t) ==
    LET walk[n \in t.nodes] ==
          IF Following(t, n) = NoNode THEN <<n>> ELSE <<n>> \o walk[Following(t, n)]
    IN walk[Leftmost(t)[t.root]]

FindNodesByName(t, name) == SelectSeq(Traverse(t), LAMBDA n : t.name[n] = name)

\* n, its parent, ... up to the root.
Ascent(t, n) ==
    LET up[m \in t.nodes] ==
          IF t.parent[m] = NoNode THEN <<m>> ELSE <<m>> \o up[t.parent[m]]
    IN up[n]

FirstCommonParent(t, a, b) ==
    LET up == Ascent(t, b)
    IN up[SelectInSeq(up, LAMBDA m : m \in ToSet(Ascent(t, a)))]

\* The loops that replace two neighbours by their common parent.  They begin
\* again after each replacement, and then the loop's own increment passes over
\* the first node: of three nodes the last two are never put together.
RECURSIVE Merge(_, _, _)
Merge(t, nodes, i) ==
    IF i >= Len(nodes) THEN [left |-> nodes, shared |-> {}]
    ELSE LET common == FirstCommonParent(t, nodes[i], nodes[i + 1])
             rest == Merge(t, ReplaceAt(RemoveAt(nodes, i), i, common), 2)
         IN [rest EXCEPT !.shared = @ \cup {common}]

GetSubTreeRoot(t, name) ==
    LET nodes == FindNodesByName(t, name)
        Above(n) == LET up == Tail(Ascent(t, n))
                    IN up[SelectInSeq(up, LAMBDA m : m \in t.sub)]
    IN Head(Merge(t, [i \in DOMAIN nodes |-> Above(nodes[i])], 1).left)

GetSingleLevelRoots(t, name) ==
    LET nodes == FindNodesByName(t, name)
    IN [i \in DOMAIN nodes |-> t.parent[nodes[i]]]

------------------------------------------------------------------------------
(* The pose of the whole model: rounds over the tree, in which a node that   *)
(* has no pose takes one as soon as the children it has are posed.           *)

\* A pose is written as its expression, operator first.
Posed(t, poses, n) ==
    LET below == {i \in 1..2 : t.child[n][i] # NoNode}
    IN IF poses[n] # <<>> \/ \E i \in below : poses[t.child[n][i]] = <<>>
          THEN poses
       ELSE [poses EXCEPT ![n] =
              CASE below = {}  -> <<>>
                [] below = {1} -> poses[t.child[n][1]]
                [] below = {2} -> poses[t.child[n][2]]
                [] OTHER       -> <<t.kind[n]>> \o poses[t.child[n][1]] \o poses[t.child[n][2]]]

Blend(t) ==
    LET leaves == [n \in t.nodes |-> IF t.kind[n] = "Animation" THEN <<t.name[n]>> ELSE <<>>]
        round[k \in 0..Cardinality(t.nodes)] ==
          IF k = 0 THEN leaves
          ELSE FoldLeft(LAMBDA poses, n : Posed(t, poses, n), round[k - 1], Traverse(t))
    IN round[Cardinality(t.nodes)][t.root]

------------------------------------------------------------------------------
(* One step of a blend. *)

\* The Blend nodes above goal that are set, nearest first: up to a node that
\* the goals share, and no further than a node of another kind.
Climb(t, goal, shared, single) ==
    LET up == Tail(Ascent(t, goal))
        end == SelectInSeq(up, LAMBDA m : t.kind[m] # "Blend" \/ m \in shared)
        all == IF end = 0 THEN up ELSE SubSeq(up, 1, end - 1)
    IN IF single /\ all # <<>> THEN <<Head(all)>> ELSE all

\* Mutant: a shared node ends the step, not only the climb.
EndsTheStepAtShared(t, goal, shared, single) ==
    \/ SelectInSeq(Tail(Ascent(t, goal)), LAMBDA m : t.kind[m] # "Blend" \/ m \in shared) # 0
    \/ single

\* Whether the step returns at this goal and leaves the later ones alone: it met
\* a node that is no Blend (the test comes before the one for a shared node),
\* or it blends a single level and has done so.
EndsTheStep(t, goal, shared, single) ==
    LET up == Tail(Ascent(t, goal))
        end == SelectInSeq(up, LAMBDA m : t.kind[m] # "Blend" \/ m \in shared)
    IN \/ end # 0 /\ t.kind[up[end]] # "Blend"
                  /\ (single => end = 1)
       \/ single /\ Climb(t, goal, shared, single) # <<>>

\* The nodes a step for this name sets, each with the child the goal is below.
Steps(t, name, single) ==
    LET goals == FindNodesByName(t, name)
        shared == IF Len(goals) < 2 THEN {} ELSE Merge(t, goals, 1).shared
        stop == SelectInSeq(goals, LAMBDA g : EndsTheStep(t, g, shared, single))
        used == IF stop = 0 THEN goals ELSE SubSeq(goals, 1, stop)
        Below(goal, n) == CHOOSE m \in ToSet(Ascent(t, goal)) : t.parent[m] = n
        Set(goal) == LET up == Climb(t, goal, shared, single)
                     IN [i \in DOMAIN up |-> <<up[i], Below(goal, up[i])>>]
    IN FlattenSeq([i \in DOMAIN used |-> Set(used[i])])

GoalWeight(t, n, below) == IF t.child[n][1] = below THEN Zero ELSE One

Weigh(start, goal, progress) ==
    CASE progress = Zero -> start
      [] progress = One  -> goal
      [] OTHER           -> IF start = goal THEN goal ELSE Between

\* AutoBlendStep, for these steps: the weights w after it, and the weights every
\* node started from, remembered when the job first sets it.
AutoBlendStep(t, w, started, steps, progress) ==
    LET set == {steps[i][1] : i \in DOMAIN steps}
        from == [n \in DOMAIN started \cup set |->
                   IF n \in DOMAIN started THEN started[n] ELSE w[n]]
        goal == [n \in set |-> LET step == CHOOSE s \in ToSet(steps) : s[1] = n
                               IN GoalWeight(t, n, step[2])]
    IN [started |-> from,
        w |-> [n \in DOMAIN w |->
                 IF n \in set THEN Weigh(from[n], goal[n], progress) ELSE w[n]]]

\* SetWeightByName, as the handler OnSetBlendWeight calls it.
SetWeightByName(t, w, name, value) ==
    [n \in DOMAIN w |-> IF t.name[n] = name /\ t.kind[n] = "Blend" THEN value ELSE w[n]]
==============================================================================
