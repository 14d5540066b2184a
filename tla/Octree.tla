------------------------------- MODULE Octree -------------------------------
(* The octree of boxes that collisions, triggers, shots and the culling of   *)
(* models ask for what is near: filled anew in every tick, then asked by     *)
(* box, by frustum or by ray.                                                *)
(*                                                                           *)
(* A box that lies in several leaves is listed in all of them, and a flag    *)
(* "Checked" that every question first resets keeps it from being found      *)
(* twice.  Corners are integers, and the components of a ray's direction are *)
(* -1, 0 or 1: distances along a ray are counted in multiples of it.  Static *)
(* objects, which only tests add, are left out.                              *)
EXTENDS Integers, Sequences, FiniteSets, SequencesExt

CONSTANTS
    Size,           \* of the root, a cube from the origin
    SubDivisions,
    Reach,          \* 75 in RayAABBIntr, which looks twice as far
    MaxObjects,
    Boxes,          \* that objects and questions have: records of min and max
    Rays,           \* records of origin and direction
    Frusta          \* sets of planes, records of normal and distance

VARIABLES
    objects,        \* m_DynamicObjects: the boxes in the tree
    checked,        \* those with Checked set
    indices,        \* m_DynamicObjIndices of each leaf
    asked,          \* the last question, if nothing was changed since
    found           \* what it found, as indices of objects

vars == <<objects, checked, indices, asked, found>>

Axes == 1..3
Box(min, max) == [min |-> min, max |-> max]
Root == Box(<<0, 0, 0>>, <<Size, Size, Size>>)

Origin(box) == [a \in Axes |-> (box.min[a] + box.max[a]) \div 2]
Abs(x) == IF x < 0 THEN -x ELSE x
Dot(u, v) == u[1] * v[1] + u[2] * v[2] + u[3] * v[3]

------------------------------------------------------------------------------
(* Boxes, planes and rays (Collision.cpp, Frustum.h). *)

\* Boxes that touch collide.
AABBVsAABB(a, b) == \A i \in Axes : a.min[i] <= b.max[i] /\ b.min[i] <= a.max[i]

Corners(box) == {[a \in Axes |-> IF a \in s THEN box.max[a] ELSE box.min[a]] : s \in SUBSET Axes}
InFront(plane, p) == Dot(plane.normal, p) > -plane.distance

\* Mutant: a box must have all its corners in front of a plane.
VsAABBWhole(frustum, box) ==
    IF \E plane \in frustum : \E p \in Corners(box) : ~InFront(plane, p) THEN "Outside"
    ELSE "Inside"

VsAABB(frustum, box) ==
    IF \E plane \in frustum : \A p \in Corners(box) : ~InFront(plane, p) THEN "Outside"
    ELSE IF \A plane \in frustum, p \in Corners(box) : InFront(plane, p) THEN "Inside"
    ELSE "Intersects"

\* Separating axes, of a box and of the piece of the ray within twice its reach.
RayAABBIntr(ray, box) ==
    LET w == [a \in Axes |-> 2 * Reach * ray.direction[a]]
        c == [a \in Axes |-> 2 * ray.origin[a] - (box.min[a] + box.max[a]) + w[a]]
        half == [a \in Axes |-> box.max[a] - box.min[a]]
    IN /\ \A a \in Axes : Abs(c[a]) <= Abs(w[a]) + half[a]
       /\ \A a, b \in Axes : a < b =>
            Abs(c[a] * w[b] - c[b] * w[a]) <= half[a] * Abs(w[b]) + half[b] * Abs(w[a])

\* Floating point: infinity, and what 0 times infinity is.
Inf == 1000
NaN == 10000
Less(x, y) == x # NaN /\ y # NaN /\ x < y
MinOf(x, y) == IF Less(y, x) THEN y ELSE x
MaxOf(x, y) == IF Less(x, y) THEN y ELSE x
Times(x, direction) ==
    IF direction # 0 THEN x * direction
    ELSE IF x = 0 THEN NaN ELSE IF x > 0 THEN Inf ELSE -Inf

\* Where the ray enters and leaves the box.
Slabs(ray, box) ==
    LET T(corner, a) == Times(corner[a] - ray.origin[a], ray.direction[a])
        Low(a) == MinOf(T(box.min, a), T(box.max, a))
        High(a) == MaxOf(T(box.min, a), T(box.max, a))
    IN [tmin |-> MaxOf(MaxOf(Low(1), Low(2)), Low(3)),
        tmax |-> MinOf(MinOf(High(1), High(2)), High(3))]

RayVsAABB(ray, box) ==
    LET s == Slabs(ray, box) IN ~Less(s.tmax, 0) /\ ~Less(s.tmax, s.tmin)

Distance(ray, box) ==
    LET s == Slabs(ray, box) IN IF Less(0, s.tmin) THEN s.tmin ELSE s.tmax

------------------------------------------------------------------------------
(* Nodes. *)

\* The children in the order of their indices: bit 2 is x, bit 1 y and bit 0 z.
Children == [i \in 1..8 |-> <<((i - 1) \div 4) % 2, ((i - 1) \div 2) % 2, (i - 1) % 2>>]

Child(node, side) ==
    LET c == Origin(node)
        Low(a) == IF side[a] = 1 THEN c[a] ELSE node.min[a]
        High(a) == IF side[a] = 1 THEN node.max[a] ELSE c[a]
    IN Box(<<Low(1), Low(2), Low(3)>>, <<High(1), High(2), High(3)>>)

RECURSIVE Leaves(_, _)
Leaves(node, depth) ==
    IF depth = 0 THEN {node}
    ELSE UNION {Leaves(Child(node, Children[i]), depth - 1) : i \in DOMAIN Children}

childIndexContainingPoint(node, p) == [a \in Axes |-> IF p[a] >= Origin(node)[a] THEN 1 ELSE 0]

\* Mutant: only the children that the two corners are in.
childIndicesOfCorners(node, box) ==
    SelectSeq(Children, LAMBDA side : side \in {childIndexContainingPoint(node, box.min),
                                                childIndexContainingPoint(node, box.max)})

\* Those on the side of the box on every axis on which it lies on one side.
childIndicesContainingBox(node, box) ==
    LET low == childIndexContainingPoint(node, box.min)
        high == childIndexContainingPoint(node, box.max)
    IN SelectSeq(Children, LAMBDA side : \A a \in Axes : low[a] = high[a] => side[a] = low[a])

RECURSIVE LeavesOf(_, _, _)
LeavesOf(node, depth, box) ==
    IF depth = 0 THEN {node}
    ELSE UNION {LeavesOf(Child(node, side), depth - 1, box) :
                    side \in ToSet(childIndicesContainingBox(node, box))}

------------------------------------------------------------------------------
(* What a question gathers: which objects are checked, and those found. *)

\* Those of a leaf that were not checked and pass a test are found.
Gather(s, leaf, passing) ==
    LET new == SelectSeq(indices[leaf], LAMBDA i : i \notin s.checked /\ i \in passing)
    IN [checked |-> s.checked \cup ToSet(new), found |-> s.found \o new]

RECURSIVE Region(_, _, _, _)
Region(s, node, depth, box) ==
    IF depth = 0 THEN Gather(s, node, DOMAIN objects)
    ELSE FoldLeft(LAMBDA t, side : Region(t, Child(node, side), depth - 1, box),
                  s, childIndicesContainingBox(node, box))

RECURSIVE InFrustum(_, _, _, _, _)
InFrustum(s, node, depth, frustum, takeAllDontTest) ==
    IF depth = 0
    THEN Gather(s, node, {i \in DOMAIN objects : VsAABB(frustum, objects[i]) # "Outside"})
    ELSE FoldLeft(LAMBDA t, side :
            LET child == Child(node, side)
                out == IF takeAllDontTest THEN "Inside" ELSE VsAABB(frustum, child)
            IN IF out = "Outside" THEN t
               ELSE InFrustum(t, child, depth - 1, frustum, out = "Inside"),
            s, Children)

\* Twice the distance to the middle of a node, squared.
Away(ray, node) ==
    LET d == [a \in Axes |-> 2 * ray.origin[a] - (node.min[a] + node.max[a])] IN Dot(d, d)

\* std::sort; those that are equally far keep their order.
Sorted(list, Key(_)) == SortSeq(list, LAMBDA x, y : Key(x) < Key(y))

\* Those that the ray misses are checked too.
RayLeaf(s, leaf, ray) ==
    LET new == SelectSeq(indices[leaf], LAMBDA i : i \notin s.checked)
        hit == SelectSeq(new, LAMBDA i : RayVsAABB(ray, objects[i]))
        Far(i) == Distance(ray, objects[i])
    IN [checked |-> s.checked \cup ToSet(new),
        found |-> s.found \o Sorted(hit, Far)]

\* Mutant: only the nearest child that the ray meets is searched.
RECURSIVE ByRayFirst(_, _, _, _)
ByRayFirst(s, node, depth, ray) ==
    IF ~RayAABBIntr(ray, node) THEN s
    ELSE IF depth = 0 THEN RayLeaf(s, node, ray)
    ELSE LET met == SelectSeq(Children, LAMBDA side : RayAABBIntr(ray, Child(node, side)))
             Far(side) == Away(ray, Child(node, side))
         IN IF met = <<>> THEN s
            ELSE ByRayFirst(s, Child(node, Sorted(met, Far)[1]), depth - 1, ray)

RECURSIVE ByRay(_, _, _, _)
ByRay(s, node, depth, ray) ==
    LET Far(side) == Away(ray, Child(node, side))
    IN IF ~RayAABBIntr(ray, node) THEN s
       ELSE IF depth = 0 THEN RayLeaf(s, node, ray)
       ELSE FoldLeft(LAMBDA t, side : ByRay(t, Child(node, side), depth - 1, ray),
                     s, Sorted(Children, Far))

------------------------------------------------------------------------------
(* Operations. *)

Nothing == [kind |-> "nothing"]

Init ==
    /\ objects = <<>> /\ checked = {}
    /\ indices = [leaf \in Leaves(Root, SubDivisions) |-> <<>>]
    /\ asked = Nothing /\ found = <<>>

\* Every tick begins with this (FillOctreeSystem, FillFrustumOctreeSystem).
ClearDynamicObjects ==
    /\ objects' = <<>> /\ checked' = {}
    /\ indices' = [leaf \in DOMAIN indices |-> <<>>]
    /\ asked' = Nothing /\ found' = <<>>

\* The index is that after the last, as the object is not in the list yet.
AddDynamicObject(box) ==
    /\ Len(objects) < MaxObjects
    /\ LET into == LeavesOf(Root, SubDivisions, box)
       IN indices' = [leaf \in DOMAIN indices |->
                        IF leaf \in into THEN Append(indices[leaf], Len(objects) + 1)
                        ELSE indices[leaf]]
    /\ objects' = Append(objects, box)
    /\ asked' = Nothing /\ found' = <<>>
    /\ UNCHANGED checked

\* Mutant: the checks of the last question stay.
KeepObjectChecks == [checked |-> checked, found |-> <<>>]

falsifyObjectChecks == [checked |-> {}, found |-> <<>>]

Answer(question, s) ==
    /\ asked' = question
    /\ found' = s.found
    /\ checked' = s.checked
    /\ UNCHANGED <<objects, indices>>

ObjectsInSameRegion(box) ==
    Answer([kind |-> "region", box |-> box],
           Region(falsifyObjectChecks, Root, SubDivisions, box))

ObjectsInFrustum(frustum) ==
    Answer([kind |-> "frustum", frustum |-> frustum],
           InFrustum(falsifyObjectChecks, Root, SubDivisions, frustum, FALSE))

ObjectsPossiblyHitByRay(ray) ==
    Answer([kind |-> "ray", ray |-> ray], ByRay(falsifyObjectChecks, Root, SubDivisions, ray))

Next ==
    \/ ClearDynamicObjects
    \/ \E box \in Boxes : AddDynamicObject(box)
    \/ \E box \in Boxes : ObjectsInSameRegion(box)
    \/ \E frustum \in Frusta : ObjectsInFrustum(frustum)
    \/ \E ray \in Rays : ObjectsPossiblyHitByRay(ray)

Spec == Init /\ [][Next]_vars

------------------------------------------------------------------------------
(* Properties. *)

Once == \A i, j \in DOMAIN found : found[i] = found[j] => i = j

Point(p) == Box(p, p)
Within(p, box) == \A a \in Axes : box.min[a] < p[a] /\ p[a] < box.max[a]

\* Who asks for the region of a box (CollisionSystem, TriggerSystem) is told of
\* every object that touches the box, once, though boxes lie across nodes, on
\* their borders or outside the level.
TouchedAreFound ==
    asked.kind = "region" =>
        /\ Once
        /\ \A i \in DOMAIN objects : AABBVsAABB(objects[i], asked.box) => i \in ToSet(found)

\* Nothing that the camera sees inside the bounds of the level is culled
\* (RenderSystem::fillModels), nor drawn twice.
VisibleAreFound ==
    asked.kind = "frustum" =>
        /\ Once
        /\ \A i \in DOMAIN objects :
            (\E p \in [Axes -> 0..Size] : /\ AABBVsAABB(Point(p), objects[i])
                                          /\ \A plane \in asked.frustum : InFront(plane, p))
            => i \in ToSet(found)

\* The points of the ray within its reach.
Along(ray) == {[a \in Axes |-> ray.origin[a] + t * ray.direction[a]] : t \in 0..(2 * Reach)}

\* A ray finds, once, every object whose inside it meets within its reach and
\* the level, and what it finds is touched by its line, unless it runs in the
\* plane of the object's lower side on the x axis, where RayVsAABB computes with
\* what is no number.
HitAreFound ==
    asked.kind = "ray" =>
        /\ Once
        /\ \A i \in DOMAIN objects :
            (\E p \in Along(asked.ray) : Within(p, objects[i]) /\ AABBVsAABB(Point(p), Root))
            => i \in ToSet(found)
        /\ \A i \in ToSet(found) :
            \/ \E t \in 0..(2 * Size) :
                 AABBVsAABB(Point([a \in Axes |-> asked.ray.origin[a] + t * asked.ray.direction[a]]),
                            objects[i])
            \/ asked.ray.direction[1] = 0 /\ asked.ray.origin[1] = objects[i].min[1]

\* "sorted by their distance to the ray, e.g. result from
\* Octree<EntityAABB>::ObjectsPossiblyHitByRay" (Collision.h:110): whoever takes the
\* first for the target of a shot takes the one that the ray enters first. (Those
\* that the ray begins in have no such distance.)
FirstIsNearest ==
    asked.kind = "ray" =>
        \A i, j \in DOMAIN found :
            LET near == Slabs(asked.ray, objects[found[i]]).tmin
                far == Slabs(asked.ray, objects[found[j]]).tmin
            IN Less(0, near) /\ Less(near, far) => i < j

\* Whatever is asked of the octree, no object that the question is about is
\* passed over, and none is answered twice.
NothingIsPassedOver == TouchedAreFound /\ VisibleAreFound /\ HitAreFound
=============================================================================
