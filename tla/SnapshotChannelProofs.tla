----------------------- MODULE SnapshotChannelProofs -----------------------
(***************************************************************************)
(* Proofs about the snapshots' way to a client, for every size of parts,   *)
(* header, map and data, any number of snapshots and of duplicates: only   *)
(* whole packets are parsed, the loop of a frame leaves nothing complete   *)
(* behind, the newest snapshot is never given up, and snapshots stay in    *)
(* order where a size_t has four bytes.                                    *)
(* About the replica they are read into, for any number of entities and    *)
(* servers: every copy of an entity is explained, none is taken away while *)
(* its entity is there, and the local player is followed.                  *)
(***************************************************************************)
EXTENDS SnapshotChannel, Replica, FiniteSetTheorems, WellFoundedInduction, TLAPS

(* Every set of naturals that is not empty has a least element: the order  *)
(* of the naturals is well-founded.                                        *)
Below == OpToRel(<, Nat)

(* The order that operator < gives the naturals has no infinite descent.   *)
LEMMA BelowIsWellFounded == IsWellFoundedOn(Below, Nat)
  BY NatLessThanWellFounded, Zenon DEF Below

(* The relation Below is the order of the naturals.                        *)
LEMMA BelowIsLess == \A x, y \in Nat : <<y, x>> \in Below <=> y < x
  BY DEF Below, OpToRel

(* A set of naturals that is not empty has a least element.                *)
LEMMA LeastExists ==
  ASSUME NEW T \in SUBSET Nat, T # {}
  PROVE  \E x \in T : \A y \in T : x <= y
<1>1. \E x \in T : \A y \in T : ~ (<<y, x>> \in Below)
  BY BelowIsWellFounded, WFMin, Zenon
<1>2. PICK x \in T : \A y \in T : ~ (<<y, x>> \in Below)
  BY <1>1
<1>3. ASSUME NEW y \in T
      PROVE  x <= y
  <2>1. ~ (y < x)
    BY <1>2, BelowIsLess
  <2> QED BY <2>1
<1> QED BY <1>3, Zenon

(* Multiplication is monotone.                                             *)
LEMMA MultMonotone == \A a, b, m \in Nat : a <= b => m * a <= m * b
  OBVIOUS

(* Division with remainder.                                                *)
LEMMA DivMod ==
  \A a \in Nat, m \in Nat \ {0} :
    a = m * (a \div m) + (a % m) /\ a % m \in 0 .. m - 1 /\ a \div m \in Nat
  OBVIOUS

(* Division by the same number is monotone.                                *)
LEMMA DivMonotone ==
  ASSUME NEW a \in Nat, NEW b \in Nat, NEW m \in Nat \ {0}, a <= b
  PROVE  a \div m <= b \div m
<1> DEFINE p == a \div m
           q == b \div m
<1>1. /\ p \in Nat /\ a = m * p + (a % m) /\ a % m \in 0 .. m - 1
      /\ q \in Nat /\ b = m * q + (b % m) /\ b % m \in 0 .. m - 1
  BY DivMod
<1>2. ASSUME q + 1 <= p PROVE FALSE
  <2>1. m * (q + 1) <= m * p
    BY <1>1, <1>2, MultMonotone
  <2>2. m * (q + 1) = m * q + m
    BY <1>1
  <2> HIDE DEF p, q
  <2> QED BY <2>1, <2>2, <1>1
<1> QED BY <1>1, <1>2

(* What lies above a multiple of m is its remainder.                       *)
LEMMA ModOfSum ==
  ASSUME NEW g \in Nat, NEW i \in Nat, NEW m \in Nat \ {0}, g < m
  PROVE  (g + m * i) % m = g
<1> DEFINE n == g + m * i
           q == n \div m
<1>0. m * i \in Nat
  OBVIOUS
<1>1. /\ q \in Nat /\ n = m * q + (n % m) /\ n % m \in 0 .. m - 1
  <2>1. n \in Nat
    BY <1>0
  <2> HIDE DEF n
  <2> QED BY <2>1, DivMod
<1>2. ASSUME q + 1 <= i PROVE FALSE
  <2>1. m * (q + 1) <= m * i
    BY <1>1, <1>2, MultMonotone
  <2>2. m * (q + 1) = m * q + m
    BY <1>1
  <2> HIDE DEF q
  <2> QED BY <2>1, <2>2, <1>1, <1>0
<1>3. ASSUME i + 1 <= q PROVE FALSE
  <2>1. m * (i + 1) <= m * q
    BY <1>1, <1>3, MultMonotone
  <2>2. m * (i + 1) = m * i + m
    BY <1>1
  <2> HIDE DEF q
  <2> QED BY <2>1, <2>2, <1>1, <1>0
<1>4. q = i
  BY <1>1, <1>2, <1>3
<1> QED BY <1>1, <1>4, <1>0

(* The headers never promise fewer parts than the sender's loop makes.     *)
LEMMA PartsAreCounted ==
  ASSUME NEW size \in DataSizes
  PROVE  /\ Parts(size) \in Nat /\ GroupSize(size) \in Nat
         /\ Parts(size) <= GroupSize(size)
<1> DEFINE a == size + MaxPacketSize - 1
           b == size + HeaderSize + MaxPacketSize - 1
<1>1. size \in Nat /\ MaxPacketSize \in Nat \ {0} /\ HeaderSize \in Nat
  BY ChannelAssumption
<1>2. a \in Nat /\ b \in Nat /\ a <= b
  BY <1>1
<1>3. Parts(size) = a \div MaxPacketSize /\ GroupSize(size) = b \div MaxPacketSize
  BY DEF Parts, GroupSize, CeilDiv
<1> HIDE DEF a, b
<1>4. a \div MaxPacketSize \in Nat /\ b \div MaxPacketSize \in Nat
  BY <1>1, <1>2, DivMod
<1>5. a \div MaxPacketSize <= b \div MaxPacketSize
  BY <1>1, <1>2, DivMonotone
<1> QED BY <1>3, <1>4, <1>5

(* The group of a packet, read wide and put back into an int, is itself.   *)
LEMMA ToIntOfGroup ==
  ASSUME NEW g \in 1 .. MaxGroup, NEW i \in Nat
  PROVE  ToInt(Group(g, i)) = g /\ (i > 0 => Group(g, i) >= g)
<1>1. g \in Nat /\ WordBase \in Nat \ {0} /\ g < WordBase
  BY ChannelAssumption
<1>2. (g + WordBase * i) % WordBase = g
  BY <1>1, ModOfSum
<1>3. g % WordBase = g
  BY <1>1
<1>4. WordBase * i \in Nat
  BY <1>1
<1> QED BY <1>1, <1>2, <1>3, <1>4 DEF ToInt, Group

(* n different indices out of 1 .. n, sorted, are 1, 2, ... n.             *)
LEMMA SortedWhole ==
  ASSUME NEW n \in Nat, NEW v \in Seq(Nat), Len(v) = n,
         \A k \in 1 .. n : v[k] \in 1 .. n,
         \A k, l \in 1 .. n : v[k] = v[l] => k = l
  PROVE  Sorted(v) = [i \in 1 .. n |-> i]
<1>1. DOMAIN v = 1 .. n /\ v \in [1 .. n -> 1 .. n]
  OBVIOUS
<1>2. IsFiniteSet(1 .. n)
  BY FS_Interval
<1>3. \A i \in 1 .. n : \E k \in 1 .. n : v[k] = i
  <2>1. v \in Injection(1 .. n, 1 .. n)
    BY <1>1 DEF Injection, IsInjective
  <2>2. v \in Surjection(1 .. n, 1 .. n)
    BY <2>1, <1>2, FS_Injection
  <2> QED BY <2>2 DEF Surjection
<1>4. ASSUME NEW p \in 1 .. n
      PROVE  Cardinality({q \in 1 .. n : Before(v, q, p)}) = v[p] - 1
  <2> DEFINE Q == {q \in 1 .. n : v[q] < v[p]}
             f == [q \in Q |-> v[q]]
  <2>1. {q \in 1 .. n : Before(v, q, p)} = Q
    BY DEF Before
  <2>2. f \in [Q -> 1 .. v[p] - 1]
    BY <1>1
  <2>3. f \in Injection(Q, 1 .. v[p] - 1)
    BY <2>2 DEF Injection, IsInjective
  <2>4. \A t \in 1 .. v[p] - 1 : \E q \in Q : f[q] = t
    <3> TAKE t \in 1 .. v[p] - 1
    <3>1. PICK q \in 1 .. n : v[q] = t
      BY <1>1, <1>3
    <3> QED BY <3>1
  <2>5. ExistsBijection(Q, 1 .. v[p] - 1)
    BY <2>2, <2>3, <2>4 DEF ExistsBijection, Bijection, Surjection
  <2>6. IsFiniteSet(Q)
    BY <1>2, FS_Subset
  <2>7. Cardinality(1 .. v[p] - 1) = v[p] - 1
    <3>1. v[p] - 1 \in Nat
      BY <1>1
    <3> QED BY <3>1, FS_Interval
  <2>8. Cardinality(Q) = v[p] - 1
    BY <2>5, <2>6, <2>7, FS_Bijection
  <2> QED BY <2>1, <2>8
<1> DEFINE At(k) == v[CHOOSE p \in 1 .. n :
                        Cardinality({q \in 1 .. n : Before(v, q, p)}) = k - 1]
<1>5. ASSUME NEW k \in 1 .. n
      PROVE  At(k) = k
  <2>1. \E p \in 1 .. n : Cardinality({q \in 1 .. n : Before(v, q, p)}) = k - 1
    <3>1. PICK p \in 1 .. n : v[p] = k
      BY <1>3
    <3> QED BY <3>1, <1>4
  <2> DEFINE c == CHOOSE p \in 1 .. n :
                    Cardinality({q \in 1 .. n : Before(v, q, p)}) = k - 1
  <2>2. c \in 1 .. n /\ Cardinality({q \in 1 .. n : Before(v, q, c)}) = k - 1
    BY <2>1, Zenon
  <2> HIDE DEF c
  <2>3. v[c] - 1 = k - 1
    BY <2>2, <1>4
  <2>4. v[c] = k
    BY <2>2, <2>3, <1>1
  <2> QED BY <2>4 DEF c
<1>6. Sorted(v) = [k \in 1 .. n |-> At(k)]
  BY <1>1 DEF Sorted
<1> HIDE DEF At
<1>7. [k \in 1 .. n |-> At(k)] = [i \in 1 .. n |-> i]
  BY <1>5
<1> QED BY <1>6, <1>7

-----------------------------------------------------------------------------
(* The inductive invariant *)

Known(g) == g \in (1 .. Len(sent)) \cup {ConnectGroup}

\* What is on its way, and what waits in the map, are parts of packets that
\* were sent; no vector of the map holds an index twice.
DatagramsWereSent ==
  \A d \in inFlight : Known(d[1]) /\ d[2] \in 1 .. PartsOf(d[1])
VectorsHoldPartsOnce ==
  \A g \in Pending :
    /\ Known(g)
    /\ \A k \in DOMAIN segments[g] : segments[g][k] \in 1 .. PartsOf(g)
    /\ \A k, l \in DOMAIN segments[g] : segments[g][k] = segments[g][l] => k = l
DeliveredWereSent == \A k \in DOMAIN delivered : Known(delivered[k].group)

\* A client without a socket has nothing of the session before.
NothingIsKept == ~connected => Pending = {} /\ lastSnapshot = 0
LastWasDelivered ==
  lastSnapshot # 0 => \E k \in DOMAIN delivered : delivered[k].group = lastSnapshot

Inv ==
  /\ TypeOK
  /\ DatagramsWereSent
  /\ VectorsHoldPartsOnce
  /\ DeliveredWereSent
  /\ DeliveredWhole
  /\ NothingIsKept
  /\ LastWasDelivered

(* Groups that were sent have a number of parts, a size and a place in the *)
(* order of groups.                                                        *)
LEMMA KnownFacts ==
  ASSUME TypeOK, NEW g, Known(g)
  PROVE  /\ g \in 1 .. ConnectGroup /\ (IsSnapshot(g) => g \in 1 .. Len(sent))
         /\ PartsOf(g) \in Nat /\ GroupSizeOf(g) \in Nat
         /\ PartsOf(g) <= GroupSizeOf(g)
         /\ SizeOf(g) \in Nat
<1>1. MaxGroup \in Nat /\ HeaderSize \in Nat /\ DataSizes \subseteq Nat
  BY ChannelAssumption
<1>2. g \in 1 .. ConnectGroup /\ (IsSnapshot(g) => g \in 1 .. Len(sent))
  BY <1>1 DEF TypeOK, Known, ConnectGroup, IsSnapshot
<1>3. IsSnapshot(g) => sent[g] \in DataSizes
  BY <1>2 DEF TypeOK
<1>4. CASE IsSnapshot(g)
  <2>1. sent[g] \in DataSizes /\ sent[g] \in Nat
    BY <1>1, <1>3, <1>4
  <2>2. /\ Parts(sent[g]) \in Nat /\ GroupSize(sent[g]) \in Nat
        /\ Parts(sent[g]) <= GroupSize(sent[g])
    BY <2>1, PartsAreCounted
  <2>3. /\ PartsOf(g) = Parts(sent[g]) /\ GroupSizeOf(g) = GroupSize(sent[g])
        /\ SizeOf(g) = HeaderSize + sent[g]
    BY <1>4 DEF PartsOf, GroupSizeOf, SizeOf
  <2> QED BY <1>1, <1>2, <2>1, <2>2, <2>3
<1>5. CASE ~ IsSnapshot(g)
  BY <1>1, <1>2, <1>5 DEF PartsOf, GroupSizeOf, SizeOf
<1> QED BY <1>4, <1>5

(* Sending one more snapshot changes nothing about the groups before it.   *)
LEMMA KnownStays ==
  ASSUME TypeOK, NEW size \in DataSizes, sent' = Append(sent, size),
         PacketGroup <= MaxGroup, NEW g, Known(g)
  PROVE  Known(g)' /\ PartsOf(g)' = PartsOf(g)
<1>1. g \in 1 .. Len(sent) => sent'[g] = sent[g]
  BY DEF TypeOK
<1>2. Len(sent') = Len(sent) + 1
  BY DEF TypeOK
<1>3. IsSnapshot(g) => g \in 1 .. Len(sent)
  BY KnownFacts
<1> QED
  BY <1>1, <1>2, <1>3 DEF Known, PartsOf, ConnectGroup, IsSnapshot, TypeOK

(* What GetNextPacket takes out of the map: the first packet that can be   *)
(* delivered, with each of its parts once, in order.                       *)
LEMMA NextGroupIsWhole ==
  ASSUME Inv, Deliverable # {}
  PROVE  /\ NextGroup \in Deliverable /\ \A h \in Deliverable : NextGroup <= h
         /\ NextGroup \in Pending /\ Known(NextGroup)
         /\ Sorted(segments[NextGroup]) = [i \in 1 .. PartsOf(NextGroup) |-> i]
         /\ PartsOf(NextGroup) \in Nat \ {0}
         /\ IsSnapshot(NextGroup)
              => ToInt(Group(NextGroup, Sorted(segments[NextGroup])[1])) = NextGroup
<1>1. Deliverable \in SUBSET Nat
  <2>1. 1 .. ConnectGroup \subseteq Nat
    BY ChannelAssumption DEF ConnectGroup
  <2>2. Pending \subseteq 1 .. ConnectGroup
    BY DEF Inv, TypeOK
  <2> QED BY <2>1, <2>2 DEF Deliverable
<1>2. NextGroup \in Deliverable /\ \A h \in Deliverable : NextGroup <= h
  <2>1. \E g \in Deliverable : \A h \in Deliverable : g <= h
    BY <1>1, LeastExists
  <2> QED BY <2>1, Zenon DEF NextGroup
<1> DEFINE g == NextGroup
           v == segments[g]
           n == PartsOf(g)
<1>3. g \in Pending /\ Known(g) /\ IsComplete(g)
  BY <1>2 DEF Deliverable, Inv, VectorsHoldPartsOnce
<1>4. /\ v \in Seq(Nat) /\ v # << >>
      /\ \A k \in DOMAIN v : v[k] \in 1 .. n
      /\ \A k, l \in DOMAIN v : v[k] = v[l] => k = l
  BY <1>3 DEF Inv, TypeOK, VectorsHoldPartsOnce
<1>5. n \in Nat /\ n <= Len(v)
  BY <1>3, KnownFacts DEF IsComplete, Inv
<1>6. IsSnapshot(g) => g \in 1 .. MaxGroup
  <2>1. IsSnapshot(g) => g \in 1 .. Len(sent)
    BY <1>3, KnownFacts DEF Inv
  <2>2. Len(sent) \in Nat /\ Len(sent) <= MaxGroup /\ MaxGroup \in Nat
    BY ChannelAssumption DEF Inv, TypeOK
  <2> QED BY <2>1, <2>2
<1> HIDE DEF g, v, n
<1>7. Len(v) <= n
  <2>1. DOMAIN v = 1 .. Len(v) /\ Len(v) \in Nat /\ v \in [1 .. Len(v) -> 1 .. n]
    BY <1>4
  <2>2. v \in Injection(1 .. Len(v), 1 .. n)
    BY <2>1, <1>4 DEF Injection, IsInjective
  <2>3. Cardinality(1 .. Len(v)) <= Cardinality(1 .. n)
    BY <1>5, <2>2, FS_Injection, FS_Interval
  <2>4. \A m \in Nat : Cardinality(1 .. m) = m
    <3> TAKE m \in Nat
    <3>1. Cardinality(1 .. m) = IF 1 > m THEN 0 ELSE m - 1 + 1
      BY FS_Interval
    <3> QED BY <3>1
  <2> QED BY <1>5, <2>1, <2>3, <2>4
<1>8. Len(v) = n /\ n # 0 /\ DOMAIN v = 1 .. n
  BY <1>4, <1>5, <1>7
<1>9. Sorted(v) = [i \in 1 .. n |-> i]
  BY <1>4, <1>5, <1>8, SortedWhole
<1>10. Sorted(v)[1] = 1
  BY <1>5, <1>8, <1>9
<1>11. IsSnapshot(g) => ToInt(Group(g, Sorted(v)[1])) = g
  BY <1>6, <1>10, ToIntOfGroup
<1> QED
  BY <1>2, <1>3, <1>5, <1>8, <1>9, <1>11 DEF g, v, n

-----------------------------------------------------------------------------
(* Every step keeps the invariant *)

(* Nothing has been sent yet.                                              *)
LEMMA InitInv == Init => Inv
<1> SUFFICES ASSUME Init PROVE Inv
  OBVIOUS
<1>1. TypeOK
  <2>1. Pending = {}
    BY DEF Init, Pending
  <2>2. sent \in Seq(DataSizes) /\ Len(sent) = 0
    BY DEF Init
  <2>3. delivered \in Seq([group : 1 .. ConnectGroup, parts : Seq(Nat), from : Nat])
    BY DEF Init
  <2>4. 0 \in 0 .. MaxGroup /\ 0 \in 0 .. MaxDuplicates /\ 0 <= MaxGroup
    BY ChannelAssumption
  <2> QED
    BY <2>1, <2>2, <2>3, <2>4 DEF Init, TypeOK
<1> QED
  BY <1>1 DEF Init, Inv, DatagramsWereSent, VectorsHoldPartsOnce, DeliveredWereSent,
              DeliveredWhole, NothingIsKept, LastWasDelivered, Pending

(* The parts of the invariant about the session that ended go with it.     *)
LEMMA ConnectKeepsInv == Inv /\ Connect => Inv'
<1> SUFFICES ASSUME Inv, Connect PROVE Inv'
  OBVIOUS
<1>1. Pending = {} /\ Pending' = {} /\ lastSnapshot' = 0
  BY DEF Inv, Connect, NothingIsKept, Pending
<1>2. ConnectGroup \in 1 .. ConnectGroup
  BY ChannelAssumption DEF ConnectGroup
<1>3. TypeOK'
  BY <1>1, <1>2, ChannelAssumption DEF Inv, TypeOK, Connect, Pending
<1>4. DatagramsWereSent'
  BY DEF Connect, DatagramsWereSent, Known, PartsOf, IsSnapshot
<1> QED
  BY <1>1, <1>3, <1>4 DEF Connect, Inv, VectorsHoldPartsOnce, DeliveredWereSent,
                          DeliveredWhole, NothingIsKept, LastWasDelivered

(* The map goes with the socket; what was parsed stays in the history.     *)
LEMMA DisconnectKeepsInv == Inv /\ Disconnect => Inv'
<1> SUFFICES ASSUME Inv, Disconnect PROVE Inv'
  OBVIOUS
<1>1. Pending' = {} /\ lastSnapshot' = 0 /\ inFlight' = {}
  BY DEF Disconnect, Pending
<1>2. TypeOK'
  <2>1. /\ inFlight' \subseteq (1 .. ConnectGroup) \X Nat /\ lastSnapshot' \in 0 .. MaxGroup
        /\ \A g \in Pending' : segments'[g] \in Seq(Nat) /\ segments'[g] # << >>
    BY <1>1, ChannelAssumption
  <2> QED
    BY <1>1, <2>1 DEF Inv, TypeOK, Disconnect
<1> QED
  BY <1>1, <1>2 DEF Disconnect, Inv, DatagramsWereSent, VectorsHoldPartsOnce,
    DeliveredWereSent, DeliveredWhole, NothingIsKept, LastWasDelivered, Known, PartsOf

(* The groups of the map and of the history are as they were; the new one  *)
(* has the parts that are put on their way.                                *)
LEMMA SendSnapshotKeepsInv == Inv /\ SendSnapshot => Inv'
<1> SUFFICES ASSUME Inv, SendSnapshot PROVE Inv'
  OBVIOUS
<1>1. PICK size \in DataSizes :
        /\ sent' = Append(sent, size)
        /\ inFlight' = inFlight \cup ({PacketGroup} \X (1 .. Parts(size)))
  BY DEF SendSnapshot
<1>2. /\ PacketGroup <= MaxGroup /\ connected
      /\ UNCHANGED <<connected, duplicated, segments, lastSnapshot, phase, readOffset, delivered>>
  BY DEF SendSnapshot, clientVars
<1>3. /\ Len(sent) \in Nat /\ Len(sent') = Len(sent) + 1 /\ sent' \in Seq(DataSizes)
      /\ MaxGroup \in Nat /\ sent'[PacketGroup] = size
  BY <1>1, ChannelAssumption DEF Inv, TypeOK, PacketGroup
<1>4. Parts(size) \in Nat
  BY PartsAreCounted
<1>5. PacketGroup \in 1 .. ConnectGroup /\ Len(sent') <= MaxGroup
  BY <1>2, <1>3 DEF PacketGroup, ConnectGroup
<1>6. inFlight' \subseteq (1 .. ConnectGroup) \X Nat
  BY <1>1, <1>4, <1>5 DEF Inv, TypeOK
<1>7. TypeOK'
  BY <1>2, <1>3, <1>5, <1>6 DEF Inv, TypeOK, Pending
<1>8. \A g : Known(g) => Known(g)' /\ PartsOf(g)' = PartsOf(g)
  BY <1>1, <1>2, KnownStays DEF Inv
<1>9. PICK p : p = PacketGroup
  OBVIOUS
<1>10. Known(p)' /\ PartsOf(p)' = Parts(size)
  <2>1. p \in Nat /\ p # ConnectGroup /\ p \in 1 .. Len(sent') /\ sent'[p] = size
    BY <1>2, <1>3, <1>9 DEF PacketGroup, ConnectGroup
  <2> QED BY <2>1 DEF Known, PartsOf, IsSnapshot, ConnectGroup
<1>11. DatagramsWereSent'
  <2> SUFFICES ASSUME NEW d \in inFlight'
               PROVE  Known(d[1])' /\ d[2] \in 1 .. PartsOf(d[1])'
    BY DEF DatagramsWereSent
  <2>1. CASE d \in inFlight
    <3>1. Known(d[1]) /\ d[2] \in 1 .. PartsOf(d[1])
      BY <2>1 DEF Inv, DatagramsWereSent
    <3> QED BY <3>1, <1>8
  <2>2. CASE d \in {p} \X (1 .. Parts(size))
    BY <2>2, <1>10
  <2> QED BY <2>1, <2>2, <1>1, <1>9
<1>12. VectorsHoldPartsOnce'
  BY <1>2, <1>8 DEF Inv, VectorsHoldPartsOnce, Pending
<1>13. DeliveredWereSent' /\ DeliveredWhole'
  BY <1>2, <1>8 DEF Inv, DeliveredWereSent, DeliveredWhole
<1>14. NothingIsKept' /\ LastWasDelivered'
  BY <1>2 DEF Inv, NothingIsKept, LastWasDelivered
<1> QED BY <1>7, <1>11, <1>12, <1>13, <1>14 DEF Inv

(* Either the datagram is thrown away, or its index, which its vector does  *)
(* not hold yet, is put at the vector's end.                               *)
LEMMA ReadPartOfPacketKeepsInv == Inv /\ ReadPartOfPacket => Inv'
<1> SUFFICES ASSUME Inv, ReadPartOfPacket PROVE Inv'
  OBVIOUS
<1>1. PICK d \in inFlight :
        /\ Arrive(d)
        /\ segments' = IF HasReceived(d[1], d[2]) THEN segments
                       ELSE [h \in Pending \cup {d[1]} |->
                               IF h = d[1] THEN Append(Vector(h), d[2]) ELSE segments[h]]
  BY DEF ReadPartOfPacket
<1>2. UNCHANGED <<sent, connected, lastSnapshot, phase, readOffset, delivered>> /\ connected
  BY DEF ReadPartOfPacket, serverVars
<1>3. inFlight' \subseteq inFlight /\ duplicated' \in 0 .. MaxDuplicates
  BY <1>1, ChannelAssumption DEF Arrive, Inv, TypeOK
<1>4. \A g : (Known(g)' <=> Known(g)) /\ PartsOf(g)' = PartsOf(g)
  BY <1>2 DEF Known, PartsOf
<1>5. DatagramsWereSent' /\ DeliveredWereSent' /\ DeliveredWhole' /\ NothingIsKept'
        /\ LastWasDelivered'
  BY <1>2, <1>3, <1>4 DEF Inv, DatagramsWereSent, DeliveredWereSent, DeliveredWhole,
                          NothingIsKept, LastWasDelivered
<1>6. TypeOK' /\ VectorsHoldPartsOnce'
  <2>1. CASE HasReceived(d[1], d[2])
    <3>1. segments' = segments /\ Pending' = Pending
      BY <1>1, <2>1 DEF Pending
    <3>2. TypeOK'
      BY <1>2, <1>3, <3>1 DEF Inv, TypeOK
    <3>3. VectorsHoldPartsOnce'
      BY <1>4, <3>1 DEF Inv, VectorsHoldPartsOnce
    <3> QED BY <3>2, <3>3
  <2>2. CASE ~ HasReceived(d[1], d[2])
    <3> DEFINE g == d[1]
               v == Vector(g)
               w == segments'[g]
    <3>1. /\ g \in 1 .. ConnectGroup /\ d[2] \in Nat
          /\ Known(g) /\ d[2] \in 1 .. PartsOf(g)
      BY DEF Inv, TypeOK, DatagramsWereSent
    <3>2. /\ v \in Seq(Nat)
          /\ \A k \in DOMAIN v : v[k] \in 1 .. PartsOf(g)
          /\ \A k, l \in DOMAIN v : v[k] = v[l] => k = l
      BY DEF Inv, TypeOK, VectorsHoldPartsOnce, Vector
    <3>3. \A k \in DOMAIN v : v[k] # d[2]
      BY <2>2 DEF HasReceived
    <3>4. /\ Pending' = Pending \cup {g} /\ w = Append(v, d[2])
          /\ \A h \in Pending \ {g} : segments'[h] = segments[h]
      BY <1>1, <2>2 DEF Pending
    <3> HIDE DEF g, v, w
    <3>5. /\ w \in Seq(Nat) /\ w # << >>
          /\ \A k \in DOMAIN w : w[k] \in 1 .. PartsOf(g)
          /\ \A k, l \in DOMAIN w : w[k] = w[l] => k = l
      <4>1. /\ DOMAIN v = 1 .. Len(v) /\ DOMAIN w = 1 .. Len(v) + 1 /\ Len(v) \in Nat
            /\ w[Len(v) + 1] = d[2] /\ \A k \in 1 .. Len(v) : w[k] = v[k]
            /\ w \in Seq(Nat) /\ w # << >>
        BY <3>1, <3>2, <3>4
      <4>2. \A k \in 1 .. Len(v) + 1 : k \in 1 .. Len(v) \/ k = Len(v) + 1
        BY <4>1
      <4>3. \A k \in DOMAIN w : w[k] \in 1 .. PartsOf(g)
        BY <3>1, <3>2, <4>1, <4>2
      <4>4. \A k, l \in DOMAIN w : w[k] = w[l] => k = l
        BY <3>2, <3>3, <4>1, <4>2
      <4> QED BY <4>1, <4>3, <4>4
    <3>6. /\ Pending' \subseteq 1 .. ConnectGroup
          /\ \A h \in Pending' : segments'[h] \in Seq(Nat) /\ segments'[h] # << >>
      BY <3>1, <3>4, <3>5 DEF Inv, TypeOK, w
    <3>7. TypeOK'
      BY <1>2, <1>3, <3>6 DEF Inv, TypeOK
    <3>8. VectorsHoldPartsOnce'
      <4> SUFFICES ASSUME NEW h \in Pending'
                   PROVE  /\ Known(h)'
                          /\ \A k \in DOMAIN segments'[h] : segments'[h][k] \in 1 .. PartsOf(h)'
                          /\ \A k, l \in DOMAIN segments'[h] :
                               segments'[h][k] = segments'[h][l] => k = l
        BY DEF VectorsHoldPartsOnce
      <4>1. CASE h = g
        BY <4>1, <1>4, <3>1, <3>5 DEF w
      <4>2. CASE h \in Pending \ {g}
        BY <4>2, <1>4, <3>4 DEF Inv, VectorsHoldPartsOnce
      <4> QED BY <4>1, <4>2, <3>4
    <3> QED BY <3>7, <3>8
  <2> QED BY <2>1, <2>2
<1> QED BY <1>5, <1>6 DEF Inv

(* A new Packet object is made, and nothing else.                          *)
LEMMA StartDrainKeepsInv == Inv /\ StartDrain => Inv'
<1> SUFFICES ASSUME Inv, StartDrain PROVE Inv'
  OBVIOUS
<1>1. UNCHANGED <<sent, inFlight, duplicated, connected, segments, lastSnapshot, delivered>>
  BY DEF StartDrain, serverVars, networkVars
<1>2. phase' \in {"read", "drain"} /\ readOffset' \in Nat
  BY DEF StartDrain
<1> QED
  BY <1>1, <1>2 DEF Inv, TypeOK, DatagramsWereSent, VectorsHoldPartsOnce, DeliveredWereSent,
    DeliveredWhole, NothingIsKept, LastWasDelivered, Known, PartsOf, Pending

(* What stays in the map stays as it was.                                  *)
LEMMA KeepOnlyKeeps ==
  ASSUME Inv, NEW S \in SUBSET Pending, segments' = KeepOnly(S), sent' = sent
  PROVE  /\ Pending' = S /\ \A g \in S : segments'[g] = segments[g]
         /\ Pending' \subseteq 1 .. ConnectGroup
         /\ \A g \in Pending' : segments'[g] \in Seq(Nat) /\ segments'[g] # << >>
         /\ VectorsHoldPartsOnce'
<1>1. Pending' = S /\ \A g \in S : segments'[g] = segments[g]
  BY DEF Pending, KeepOnly
<1>2. \A g : (Known(g)' <=> Known(g)) /\ PartsOf(g)' = PartsOf(g)
  BY DEF Known, PartsOf
<1>3. VectorsHoldPartsOnce'
  BY <1>1, <1>2 DEF Inv, VectorsHoldPartsOnce
<1> QED BY <1>1, <1>3 DEF Inv, TypeOK

(* Groups leave the map, and nothing else.                                 *)
LEMMA EndDrainKeepsInv == Inv /\ EndDrain => Inv'
<1> SUFFICES ASSUME Inv, EndDrain PROVE Inv'
  OBVIOUS
<1>1. UNCHANGED <<sent, inFlight, duplicated, connected, lastSnapshot, readOffset, delivered>>
  BY DEF EndDrain, serverVars, networkVars
<1>2. PICK S \in SUBSET Pending : segments' = KeepOnly(S)
  BY DEF EndDrain
<1>3. /\ Pending' = S /\ Pending' \subseteq 1 .. ConnectGroup
      /\ \A g \in Pending' : segments'[g] \in Seq(Nat) /\ segments'[g] # << >>
      /\ VectorsHoldPartsOnce'
  BY <1>1, <1>2, KeepOnlyKeeps
<1>4. TypeOK'
  BY <1>1, <1>3 DEF Inv, TypeOK, EndDrain
<1> QED
  BY <1>1, <1>3, <1>4 DEF Inv, DatagramsWereSent, DeliveredWereSent, DeliveredWhole,
    NothingIsKept, LastWasDelivered, Known, PartsOf, EndDrain

(* The packet that is added to the history is whole, and the last snapshot *)
(* is it, if it is one.                                                    *)
LEMMA DeliverPacketKeepsInv == Inv /\ DeliverPacket => Inv'
<1> SUFFICES ASSUME Inv, DeliverPacket PROVE Inv'
  OBVIOUS
<1> DEFINE g == NextGroup
           n == PartsOf(g)
           entry == [group |-> g, parts |-> Sorted(segments[g]), from |-> readOffset]
<1>1. /\ UNCHANGED <<sent, inFlight, duplicated, connected, phase>>
      /\ connected /\ delivered' = Append(delivered, entry)
      /\ readOffset' \in OffsetsAfter(g)
  BY DEF DeliverPacket, serverVars, networkVars
<1>2. /\ g \in Pending /\ Known(g) /\ n \in Nat \ {0}
      /\ Sorted(segments[g]) = [i \in 1 .. n |-> i]
      /\ IsSnapshot(g) => ToInt(Group(g, Sorted(segments[g])[1])) = g
  BY NextGroupIsWhole DEF DeliverPacket
<1>3. /\ g \in 1 .. ConnectGroup /\ SizeOf(g) \in Nat
      /\ IsSnapshot(g) => g \in 1 .. Len(sent)
  BY <1>2, KnownFacts DEF Inv
<1>4. lastSnapshot' = IF IsSnapshot(g) THEN g ELSE lastSnapshot
  BY <1>2 DEF DeliverPacket
<1>5. lastSnapshot' \in 0 .. MaxGroup
  BY <1>3, <1>4, ChannelAssumption DEF Inv, TypeOK
<1>6. readOffset' \in Nat
  BY <1>1, <1>3 DEF OffsetsAfter, Inv, TypeOK
<1>7. PICK S \in SUBSET Pending : segments' = KeepOnly(S)
  BY DEF DeliverPacket
<1> HIDE DEF g, n
<1>8. entry \in [group : 1 .. ConnectGroup, parts : Seq(Nat), from : Nat]
  <2>1. [i \in 1 .. n |-> i] \in Seq(Nat)
    BY <1>2
  <2> QED BY <2>1, <1>2, <1>3 DEF Inv, TypeOK
<1>9. delivered' \in Seq([group : 1 .. ConnectGroup, parts : Seq(Nat), from : Nat])
  BY <1>1, <1>8 DEF Inv, TypeOK
<1>10. /\ DOMAIN delivered' = 1 .. Len(delivered) + 1 /\ Len(delivered) \in Nat
       /\ DOMAIN delivered = 1 .. Len(delivered)
       /\ delivered'[Len(delivered) + 1] = entry
       /\ \A k \in DOMAIN delivered : delivered'[k] = delivered[k]
  <2> DEFINE R == [group : 1 .. ConnectGroup, parts : Seq(Nat), from : Nat]
  <2>1. delivered \in Seq(R) /\ delivered' = Append(delivered, entry) /\ entry \in R
    BY <1>1, <1>8 DEF Inv, TypeOK
  <2> HIDE DEF R, entry
  <2> QED
    BY <2>1
<1>11. /\ Pending' \subseteq 1 .. ConnectGroup /\ VectorsHoldPartsOnce'
       /\ \A h \in Pending' : segments'[h] \in Seq(Nat) /\ segments'[h] # << >>
  BY <1>1, <1>7, KeepOnlyKeeps
<1>12. TypeOK'
  BY <1>1, <1>5, <1>6, <1>9, <1>11 DEF Inv, TypeOK
<1>13. \A h : (Known(h)' <=> Known(h)) /\ PartsOf(h)' = PartsOf(h)
  BY <1>1 DEF Known, PartsOf
<1>14. DatagramsWereSent'
  BY <1>1, <1>13 DEF Inv, DatagramsWereSent
<1>15. \A k \in DOMAIN delivered' :
         /\ Known(delivered'[k].group)
         /\ delivered'[k].parts = [i \in 1 .. PartsOf(delivered'[k].group) |-> i]
  <2> TAKE k \in DOMAIN delivered'
  <2>1. CASE k \in DOMAIN delivered
    BY <2>1, <1>10 DEF Inv, DeliveredWereSent, DeliveredWhole
  <2>2. CASE k = Len(delivered) + 1
    <3>1. entry.group = g /\ entry.parts = [i \in 1 .. n |-> i] /\ delivered'[k] = entry
      BY <2>2, <1>2, <1>10
    <3> QED BY <3>1, <1>2 DEF n
  <2> QED BY <2>1, <2>2, <1>10
<1>16. DeliveredWereSent' /\ DeliveredWhole'
  BY <1>13, <1>15 DEF DeliveredWereSent, DeliveredWhole
<1>17. NothingIsKept'
  BY <1>1 DEF NothingIsKept
<1>18. LastWasDelivered'
  <2>1. CASE IsSnapshot(g)
    <3>1. delivered'[Len(delivered) + 1].group = g /\ Len(delivered) + 1 \in DOMAIN delivered'
      BY <1>10
    <3> QED BY <3>1, <2>1, <1>4 DEF LastWasDelivered
  <2>2. CASE ~ IsSnapshot(g)
    BY <2>2, <1>4, <1>10 DEF Inv, LastWasDelivered
  <2> QED BY <2>1, <2>2
<1> QED BY <1>11, <1>12, <1>14, <1>16, <1>17, <1>18 DEF Inv

(* One of the lemmas above for each step.                                  *)
LEMMA NextKeepsInv == Inv /\ [Next]_vars => Inv'
<1> SUFFICES ASSUME Inv, [Next]_vars PROVE Inv'
  OBVIOUS
<1>1. CASE UNCHANGED vars
  BY <1>1 DEF vars, serverVars, networkVars, clientVars, Inv, TypeOK, DatagramsWereSent,
    VectorsHoldPartsOnce, DeliveredWereSent, DeliveredWhole, NothingIsKept,
    LastWasDelivered, Known, PartsOf, Pending
<1> QED
  BY <1>1, ConnectKeepsInv, DisconnectKeepsInv, SendSnapshotKeepsInv,
     ReadPartOfPacketKeepsInv, StartDrainKeepsInv, DeliverPacketKeepsInv,
     EndDrainKeepsInv DEF Next

(* The invariant holds in every state.                                     *)
THEOREM Invariance == Spec => []Inv
  BY InitInv, NextKeepsInv, PTL DEF Spec

(* The channel's variables have their types: the history, the map and the  *)
(* last snapshot's number, which went through a size_t.                    *)
THEOREM TypeCorrect == Spec => []TypeOK
<1>1. Inv => TypeOK
  BY DEF Inv
<1> QED BY <1>1, Invariance, PTL

(* Whatever the network loses, reorders or doubles, GetNextPacket gives    *)
(* the parser whole packets only, each part once and in order.             *)
THEOREM PacketsAreAlwaysWhole == Spec => []DeliveredWhole
<1>1. Inv => DeliveredWhole
  BY DEF Inv
<1> QED BY <1>1, Invariance, PTL

-----------------------------------------------------------------------------
(* What a frame leaves in the map *)

(* The groups of the map are finitely many naturals.                       *)
LEMMA PendingIsFinite ==
  ASSUME Inv
  PROVE  Pending \subseteq Nat /\ \A S \in SUBSET Pending : IsFiniteSet(S)
<1>1. ConnectGroup \in Nat /\ 1 .. ConnectGroup \subseteq Nat
  BY ChannelAssumption DEF ConnectGroup
<1>2. IsFiniteSet(1 .. ConnectGroup)
  BY <1>1, FS_Interval
<1>3. Pending \in SUBSET (1 .. ConnectGroup)
  BY DEF Inv, TypeOK
<1> QED BY <1>1, <1>2, <1>3, FS_Subset

(* The groups that are not evicted fit into the map: the lowest of them    *)
(* has no more than MapLimit groups from it upwards.                       *)
LEMMA EvictionMakesRoom ==
  ASSUME Inv, NEW S \in SUBSET (Pending \ Evicted)
  PROVE  Cardinality(S) <= MapLimit
<1>1. MapLimit \in Nat
  BY ChannelAssumption
<1>2. S \in SUBSET Nat /\ IsFiniteSet(S)
  BY PendingIsFinite
<1>3. CASE S = {}
  BY <1>1, <1>3, FS_EmptySet
<1>4. CASE S # {}
  <2>1. PICK g \in S : \A h \in S : g <= h
    BY <1>2, <1>4, LeastExists
  <2> DEFINE Above == {h \in Pending : h >= g}
  <2>2. IsFiniteSet(Above) /\ Cardinality(Above) \in Nat
    BY PendingIsFinite, FS_CardinalityType
  <2>3. ~ (Cardinality(Above) > MapLimit)
    BY <2>1 DEF Evicted
  <2>4. S \in SUBSET Above
    BY <1>2, <2>1
  <2>5. Cardinality(S) <= Cardinality(Above)
    BY <2>2, <2>4, FS_Subset
  <2>6. Cardinality(S) \in Nat
    BY <1>2, FS_CardinalityType
  <2> HIDE DEF Above
  <2> QED BY <1>1, <2>2, <2>3, <2>5, <2>6
<1> QED BY <1>3, <1>4

(* Only EndDrain leaves the loop, and it finds nothing to deliver.         *)
LEMMA StepSettles ==
  ASSUME Inv, [Next]_vars, phase = "drain", phase' = "read"
  PROVE  /\ Cardinality(Pending') <= MapLimit
         /\ \A g \in Pending' : IsStale(g)' \/ ~ IsComplete(g)'
<1>1. EndDrain
  BY DEF Next, Connect, Disconnect, SendSnapshot, ReadPartOfPacket, StartDrain,
         DeliverPacket, vars, clientVars
<1> DEFINE S == Pending \ Dropped(ConnectGroup)
<1>2. segments' = KeepOnly(S) /\ UNCHANGED <<sent, lastSnapshot>> /\ Deliverable = {}
  BY <1>1 DEF EndDrain, serverVars
<1>3. Pending' = S /\ \A g \in S : segments'[g] = segments[g]
  BY <1>2, KeepOnlyKeeps
<1>4. Cardinality(Pending') <= MapLimit
  BY <1>3, EvictionMakesRoom DEF Dropped
<1>5. ASSUME NEW g \in Pending'
      PROVE  IsStale(g)' \/ ~ IsComplete(g)'
  <2>1. g \in Pending \ Evicted
    BY <1>3 DEF Dropped
  <2>2. IsStale(g) \/ ~ IsComplete(g)
    BY <1>2, <2>1 DEF Deliverable
  <2>3. segments'[g] = segments[g]
    BY <1>3
  <2> QED
    BY <1>2, <2>2, <2>3 DEF IsStale, IsComplete, GroupSizeOf
<1> QED BY <1>4, <1>5

(* A frame's second loop ends with the map within its limit and with no    *)
(* complete packet left, however many datagrams the first loop has read.   *)
THEOREM DrainsAlwaysSettle == Spec => DrainSettles
<1>1. Inv /\ [Next]_vars
        => [phase = "drain" /\ phase' = "read" =>
              /\ Cardinality(Pending') <= MapLimit
              /\ \A g \in Pending' : IsStale(g)' \/ ~ IsComplete(g)']_vars
  BY StepSettles
<1> QED BY <1>1, Invariance, PTL DEF Spec, DrainSettles

-----------------------------------------------------------------------------
(* The newest snapshot *)

Newest(g) == g \in Pending /\ IsSnapshot(g) /\ \A h \in Pending : IsSnapshot(h) => h <= g

\* The history holds a snapshot as new as g.
Overtaken(g) ==
  \E k \in DOMAIN delivered : IsSnapshot(delivered[k].group) /\ delivered[k].group >= g

(* Only the answer to the Connect sorts behind the newest snapshot, so it  *)
(* is among the last two groups; and it is old only if a newer one was     *)
(* parsed.                                                                 *)
LEMMA NewestIsDroppedOld ==
  ASSUME Inv, NEW g, Newest(g), NEW upTo, g \in Dropped(upTo)
  PROVE  Overtaken(g)
<1>1. g \notin Evicted
  <2> DEFINE Above == {h \in Pending : h >= g}
  <2>1. Above \in SUBSET {g, ConnectGroup}
    BY PendingIsFinite DEF Newest, IsSnapshot
  <2>2. IsFiniteSet({g, ConnectGroup}) /\ Cardinality({g, ConnectGroup}) <= 2
    <3>1. IsFiniteSet({g}) /\ Cardinality({g}) = 1
      BY FS_Singleton
    <3>2. {g, ConnectGroup} = {g} \cup {ConnectGroup}
      OBVIOUS
    <3> QED BY <3>1, <3>2, FS_AddElement
  <2>3. /\ Cardinality(Above) <= Cardinality({g, ConnectGroup})
        /\ Cardinality(Above) \in Nat /\ Cardinality({g, ConnectGroup}) \in Nat
    BY <2>1, <2>2, FS_Subset, FS_CardinalityType
  <2> HIDE DEF Above
  <2>4. ~ (Cardinality(Above) > MapLimit)
    BY <2>2, <2>3, ChannelAssumption
  <2> QED BY <2>4 DEF Evicted, Above
<1>2. IsStale(g) /\ IsSnapshot(g)
  BY <1>1 DEF Dropped, IsStale
<1>3. g \in 1 .. MaxGroup /\ segments[g][1] \in Nat \ {0}
  <2>1. /\ Known(g) /\ segments[g] \in Seq(Nat) /\ segments[g] # << >>
        /\ \A k \in DOMAIN segments[g] : segments[g][k] \in 1 .. PartsOf(g)
    BY DEF Newest, Inv, TypeOK, VectorsHoldPartsOnce
  <2>2. g \in 1 .. Len(sent) /\ PartsOf(g) \in Nat
    BY <1>2, <2>1, KnownFacts DEF Inv
  <2>3. Len(sent) \in Nat /\ Len(sent) <= MaxGroup /\ MaxGroup \in Nat
    BY ChannelAssumption DEF Inv, TypeOK
  <2>4. 1 \in DOMAIN segments[g]
    BY <2>1
  <2> QED BY <2>1, <2>2, <2>3, <2>4
<1>4. Group(g, segments[g][1]) >= g /\ Group(g, segments[g][1]) \in Nat
  <2>1. Group(g, segments[g][1]) >= g
    BY <1>3, ToIntOfGroup
  <2>2. g \in Nat /\ WordBase * segments[g][1] \in Nat
    BY <1>3, ChannelAssumption
  <2> QED BY <2>1, <2>2 DEF Group
<1>5. lastSnapshot \in 1 .. MaxGroup /\ lastSnapshot >= g
  BY <1>2, <1>3, <1>4, ChannelAssumption DEF IsStale, Inv, TypeOK
<1>6. PICK k \in DOMAIN delivered : delivered[k].group = lastSnapshot
  BY <1>5 DEF Inv, LastWasDelivered
<1>7. IsSnapshot(lastSnapshot)
  BY <1>5, ChannelAssumption DEF IsSnapshot, ConnectGroup
<1> QED BY <1>5, <1>6, <1>7 DEF Overtaken

(* Only GetNextPacket takes groups out of the map of a connected client.   *)
LEMMA StepKeepsTheNewest ==
  ASSUME Inv, [Next]_vars, connected', NEW g, Newest(g)
  PROVE  g \in Pending' \/ Overtaken(g)'
<1>1. CASE UNCHANGED segments
  BY <1>1 DEF Newest, Pending
<1>2. CASE Connect \/ Disconnect
  BY <1>2 DEF Connect, Disconnect, Inv, NothingIsKept, Newest
<1>3. CASE ReadPartOfPacket
  BY <1>3 DEF ReadPartOfPacket, Newest, Pending
<1>4. CASE DeliverPacket
  <2>1. /\ segments' = KeepOnly(Pending \ (Dropped(NextGroup) \cup {NextGroup}))
        /\ sent' = sent
    BY <1>4 DEF DeliverPacket, serverVars
  <2>2. PICK e : delivered' = Append(delivered, e) /\ e.group = NextGroup
    BY <1>4 DEF DeliverPacket
  <2>3. /\ DOMAIN delivered' = 1 .. Len(delivered) + 1 /\ Len(delivered) \in Nat
        /\ DOMAIN delivered = 1 .. Len(delivered)
        /\ delivered'[Len(delivered) + 1] = e
        /\ \A k \in DOMAIN delivered : delivered'[k] = delivered[k]
    BY <2>2 DEF Inv, TypeOK
  <2>4. CASE g = NextGroup
    <3>1. g \in Nat /\ IsSnapshot(g)
      BY PendingIsFinite DEF Newest
    <3> QED BY <2>2, <2>3, <2>4, <3>1 DEF Overtaken
  <2>5. CASE g \in Dropped(NextGroup)
    <3>1. Overtaken(g)
      BY <2>5, NewestIsDroppedOld
    <3> QED BY <3>1, <2>3 DEF Overtaken
  <2>6. CASE g \in Pending \ (Dropped(NextGroup) \cup {NextGroup})
    BY <2>1, <2>6, KeepOnlyKeeps
  <2> QED BY <2>4, <2>5, <2>6 DEF Newest
<1>5. CASE EndDrain
  <2>1. /\ segments' = KeepOnly(Pending \ Dropped(ConnectGroup))
        /\ sent' = sent /\ delivered' = delivered
    BY <1>5 DEF EndDrain, serverVars
  <2>2. CASE g \in Dropped(ConnectGroup)
    BY <2>1, <2>2, NewestIsDroppedOld DEF Overtaken
  <2>3. CASE g \in Pending \ Dropped(ConnectGroup)
    BY <2>1, <2>3, KeepOnlyKeeps
  <2> QED BY <2>2, <2>3 DEF Newest
<1> QED
  BY <1>1, <1>2, <1>3, <1>4, <1>5
     DEF Next, SendSnapshot, StartDrain, vars, clientVars

(* Neither making room nor dropping old snapshots loses the newest one.    *)
THEOREM TheNewestIsAlwaysKept == Spec => TheNewestIsKept
<1>1. Inv /\ [Next]_vars
        => [connected' => \A g \in Pending :
              (IsSnapshot(g) /\ \A h \in Pending : IsSnapshot(h) => h <= g)
              => \/ g \in Pending'
                 \/ \E k \in DOMAIN delivered' : /\ IsSnapshot(delivered'[k].group)
                                                 /\ delivered'[k].group >= g]_vars
  <2>1. \A g : Overtaken(g)' <=> \E k \in DOMAIN delivered' :
                 IsSnapshot(delivered'[k].group) /\ delivered'[k].group >= g
    BY DEF Overtaken, IsSnapshot
  <2> QED BY <2>1, StepKeepsTheNewest DEF Newest
<1> QED BY <1>1, Invariance, PTL DEF Spec, TheNewestIsKept

-----------------------------------------------------------------------------
(* The order of snapshots *)

Ordered ==
  SizeTBytes = 4 =>
    /\ SnapshotsInOrder
    /\ connected => \A k \in DOMAIN delivered :
                      IsSnapshot(delivered[k].group) => delivered[k].group <= lastSnapshot

(* A snapshot that is delivered is not old, and becomes the last one.      *)
LEMMA DeliverPacketKeepsOrder == Inv /\ Ordered /\ DeliverPacket => Ordered'
<1> SUFFICES ASSUME Inv, Ordered, DeliverPacket, SizeTBytes = 4 PROVE Ordered'
  BY DEF Ordered
<1> DEFINE g == NextGroup
           n == Len(delivered)
<1>1. PICK e : delivered' = Append(delivered, e) /\ e.group = g
  BY DEF DeliverPacket
<1>2. /\ DOMAIN delivered' = 1 .. n + 1 /\ DOMAIN delivered = 1 .. n /\ n \in Nat
      /\ delivered'[n + 1].group = g
      /\ \A k \in 1 .. n : delivered'[k] = delivered[k] /\ delivered[k].group \in Nat
  <2>1. 1 .. ConnectGroup \subseteq Nat
    BY ChannelAssumption DEF ConnectGroup
  <2>2. ASSUME NEW k \in DOMAIN delivered
        PROVE  delivered[k].group \in 1 .. ConnectGroup
    <3>1. TypeOK /\ Known(delivered[k].group)
      BY DEF Inv, DeliveredWereSent
    <3> QED BY <3>1, KnownFacts
  <2> QED BY <1>1, <2>1, <2>2 DEF Inv, TypeOK
<1>3. /\ g \in Nat /\ ~ IsStale(g)
      /\ lastSnapshot' = IF IsSnapshot(g) THEN g ELSE lastSnapshot
      /\ lastSnapshot \in Nat /\ connected /\ connected' = connected
  <2>1. NextGroup \in Deliverable
    BY NextGroupIsWhole DEF DeliverPacket
  <2>2. IsSnapshot(g) => ToInt(Group(g, Sorted(segments[g])[1])) = g
    BY NextGroupIsWhole DEF DeliverPacket
  <2>3. lastSnapshot \in Nat
    BY ChannelAssumption DEF Inv, TypeOK
  <2> QED BY <2>1, <2>2, <2>3, PendingIsFinite DEF DeliverPacket, Deliverable
<1> HIDE DEF g, n
<1>4. IsSnapshot(g) => lastSnapshot <= g
  BY <1>3 DEF IsStale, Group
<1>5. \A k \in 1 .. n : IsSnapshot(delivered[k].group) => delivered[k].group <= lastSnapshot
  BY <1>2, <1>3 DEF Ordered
<1>6. \A k \in 1 .. n + 1 : k \in 1 .. n \/ k = n + 1
  BY <1>2
<1>7. \A k \in 1 .. n + 1 : IsSnapshot(delivered'[k].group)
                              => delivered'[k].group <= lastSnapshot'
  BY <1>2, <1>3, <1>4, <1>5, <1>6
<1>8. ASSUME NEW j \in 1 .. n + 1, NEW k \in 1 .. n + 1, j < k,
             IsSnapshot(delivered'[j].group), IsSnapshot(delivered'[k].group)
      PROVE  delivered'[j].group <= delivered'[k].group
  <2>1. j \in 1 .. n
    BY <1>2, <1>8
  <2>2. CASE k \in 1 .. n
    BY <1>2, <1>8, <2>1, <2>2 DEF Ordered, SnapshotsInOrder
  <2>3. CASE k = n + 1
    BY <1>2, <1>3, <1>4, <1>5, <1>8, <2>1, <2>3
  <2> QED BY <1>6, <2>2, <2>3
<1>9. SnapshotsInOrder'
  BY <1>2, <1>8 DEF SnapshotsInOrder, IsSnapshot, ConnectGroup
<1> QED BY <1>2, <1>7, <1>9 DEF Ordered, IsSnapshot

(* Only a delivery adds to the history.                                    *)
LEMMA NextKeepsOrder == Inv /\ Ordered /\ [Next]_vars => Ordered'
<1> SUFFICES ASSUME Inv, Ordered, [Next]_vars PROVE Ordered'
  OBVIOUS
<1>1. CASE UNCHANGED <<connected, delivered, lastSnapshot>>
  BY <1>1 DEF Ordered, SnapshotsInOrder, IsSnapshot, ConnectGroup
<1>2. CASE Connect
  BY <1>2 DEF Connect, Ordered, SnapshotsInOrder
<1>3. CASE Disconnect
  BY <1>3 DEF Disconnect, Ordered, SnapshotsInOrder, IsSnapshot, ConnectGroup
<1> QED
  BY <1>1, <1>2, <1>3, DeliverPacketKeepsOrder
     DEF Next, SendSnapshot, ReadPartOfPacket, StartDrain, EndDrain, vars, clientVars

(* Built with a size_t of four bytes the client never parses a snapshot    *)
(* after a newer one: the test against m_LastReceivedSnapshotGroup works   *)
(* where Packet::Group reads the group and nothing else.                   *)
THEOREM NarrowSnapshotsInOrder == Spec => [](SizeTBytes = 4 => SnapshotsInOrder)
<1>1. Init => Ordered
  BY DEF Init, Ordered, SnapshotsInOrder
<1>2. Ordered => (SizeTBytes = 4 => SnapshotsInOrder)
  BY DEF Ordered
<1> QED BY <1>1, <1>2, Invariance, NextKeepsOrder, PTL DEF Spec

-----------------------------------------------------------------------------
(***************************************************************************)
(* Finite maps.                                                            *)
(***************************************************************************)
Maps(A, B) == UNION {[D -> B] : D \in {E \in SUBSET A : IsFiniteSet(E)}}

(* A finite map is a function whose domain is a finite set of its keys.    *)
LEMMA MapIs ==
  ASSUME NEW A, NEW B, NEW f
  PROVE  f \in Maps(A, B) <=>
           /\ f = [x \in DOMAIN f |-> f[x]] /\ DOMAIN f \in SUBSET A /\ IsFiniteSet(DOMAIN f)
           /\ \A x \in DOMAIN f : f[x] \in B
<1>1. ASSUME f \in Maps(A, B)
      PROVE  /\ f = [x \in DOMAIN f |-> f[x]] /\ DOMAIN f \in SUBSET A /\ IsFiniteSet(DOMAIN f)
             /\ \A x \in DOMAIN f : f[x] \in B
  <2>1. PICK D \in {E \in SUBSET A : IsFiniteSet(E)} : f \in [D -> B]
    BY <1>1 DEF Maps
  <2> QED BY <2>1
<1>2. ASSUME f = [x \in DOMAIN f |-> f[x]], DOMAIN f \in SUBSET A, IsFiniteSet(DOMAIN f),
             \A x \in DOMAIN f : f[x] \in B
      PROVE  f \in Maps(A, B)
  <2>1. f \in [DOMAIN f -> B]
    BY <1>2, Zenon
  <2> QED BY <1>2, <2>1 DEF Maps
<1> QED BY <1>1, <1>2

(* A finite map restricted to some of its keys (Restricted) is one, and    *)
(* the same on them.                                                       *)
LEMMA RestrictedIs ==
  ASSUME NEW A, NEW B, NEW f \in Maps(A, B), NEW S, S \subseteq DOMAIN f
  PROVE  /\ Restricted(f, S) \in Maps(A, B) /\ DOMAIN Restricted(f, S) = S
         /\ \A x \in S : Restricted(f, S)[x] = f[x]
<1>1. /\ DOMAIN f \in SUBSET A /\ IsFiniteSet(DOMAIN f) /\ \A x \in DOMAIN f : f[x] \in B
  BY MapIs
<1> DEFINE g == Restricted(f, S)
<1>2. DOMAIN g = S /\ (\A x \in S : g[x] = f[x]) /\ g = [x \in S |-> g[x]]
  BY DEF Restricted
<1>3. IsFiniteSet(S)
  BY <1>1, FS_Subset
<1>4. g \in Maps(A, B)
  <2> HIDE DEF g
  <2>1. g = [x \in DOMAIN g |-> g[x]]
    BY <1>2
  <2>2. DOMAIN g \in SUBSET A /\ IsFiniteSet(DOMAIN g) /\ \A x \in DOMAIN g : g[x] \in B
    BY <1>1, <1>2, <1>3
  <2> QED BY <2>1, <2>2, MapIs, Zenon
<1> QED BY <1>2, <1>4

IsWith(g, f, k, v) ==
  /\ DOMAIN g = DOMAIN f \cup {k} /\ g[k] = v
  /\ \A x \in DOMAIN f : x # k => g[x] = f[x]

(* A finite map with one entry more or another value (With) is a finite    *)
(* map.                                                                    *)
LEMMA WithIs ==
  ASSUME NEW A, NEW B, NEW f \in Maps(A, B), NEW k \in A, NEW v \in B
  PROVE  With(f, k, v) \in Maps(A, B) /\ IsWith(With(f, k, v), f, k, v)
<1>1. /\ DOMAIN f \in SUBSET A /\ IsFiniteSet(DOMAIN f) /\ \A x \in DOMAIN f : f[x] \in B
  BY MapIs
<1> DEFINE g == With(f, k, v)
<1>2. /\ DOMAIN g = DOMAIN f \cup {k} /\ g[k] = v
      /\ \A x \in DOMAIN f : x # k => g[x] = f[x]
      /\ g = [x \in DOMAIN f \cup {k} |-> g[x]]
  BY DEF With
<1>3. IsFiniteSet(DOMAIN f \cup {k})
  BY <1>1, FS_AddElement
<1>4. g \in Maps(A, B)
  <2> HIDE DEF g
  <2>1. g = [x \in DOMAIN g |-> g[x]]
    BY <1>2
  <2>2. DOMAIN g \in SUBSET A /\ IsFiniteSet(DOMAIN g) /\ \A x \in DOMAIN g : g[x] \in B
    BY <1>1, <1>2, <1>3
  <2> QED BY <2>1, <2>2, MapIs, Zenon
<1>5. IsWith(g, f, k, v)
  BY <1>2 DEF IsWith
<1> QED BY <1>4, <1>5

(* What a function with a finite domain has is a finite set.               *)
LEMMA FiniteRange ==
  ASSUME NEW f, IsFiniteSet(DOMAIN f)
  PROVE  IsFiniteSet({f[x] : x \in DOMAIN f})
<1> DEFINE S == DOMAIN f
           T == {f[x] : x \in S}
           g == [x \in S |-> f[x]]
<1>1. g \in Surjection(S, T)
  BY DEF Surjection
<1>2. IsFiniteSet(S)
  OBVIOUS
<1> HIDE DEF S, T, g
<1>3. IsFiniteSet(T)
  BY <1>1, <1>2, FS_Surjection
<1> QED BY <1>3 DEF T, S

(***************************************************************************)
(* The numbers of a finite set in their order.                             *)
(***************************************************************************)
Rank(ids, n) == Cardinality({m \in ids : m < n})

(* Every place of the order is taken.                                      *)
LEMMA NthIs ==
  ASSUME NEW ids \in SUBSET Nat, IsFiniteSet(ids)
  PROVE  /\ Cardinality(ids) \in Nat
         /\ \A i \in 1 .. Cardinality(ids) : Nth(ids, i) \in ids /\ Rank(ids, Nth(ids, i)) = i - 1
         /\ \A n \in ids : \E i \in 1 .. Cardinality(ids) : Nth(ids, i) = n
         /\ \A i, j \in 1 .. Cardinality(ids) : i < j => Nth(ids, i) < Nth(ids, j)
<1> DEFINE c == Cardinality(ids)
           f == [n \in ids |-> Rank(ids, n)]
<1>1. c \in Nat
  BY FS_CardinalityType
<1>2. ASSUME NEW n \in ids
      PROVE  Rank(ids, n) \in 0 .. c - 1
  <2> DEFINE N == {m \in ids : m < n}
  <2>1. N \in SUBSET ids /\ N # ids
    OBVIOUS
  <2> HIDE DEF N
  <2>2. IsFiniteSet(N) /\ Cardinality(N) <= c /\ Cardinality(N) # c
    BY <2>1, FS_Subset
  <2>3. Cardinality(N) \in Nat
    BY <2>2, FS_CardinalityType
  <2>4. Cardinality(N) \in 0 .. c - 1
    BY <1>1, <2>2, <2>3
  <2> QED BY <2>4 DEF Rank, N
<1>3. ASSUME NEW n \in ids, NEW k \in ids, n < k
      PROVE  Rank(ids, n) < Rank(ids, k)
  <2> DEFINE N == {m \in ids : m < n}
             K == {m \in ids : m < k}
  <2>1. N \in SUBSET K /\ N # K /\ K \in SUBSET ids
    <3>1. n \in K /\ n \notin N
      BY <1>3
    <3>2. \A m \in N : m < k
      BY <1>3
    <3> QED BY <3>1, <3>2
  <2> HIDE DEF N, K
  <2>2. IsFiniteSet(K)
    BY <2>1, FS_Subset
  <2>3. IsFiniteSet(N) /\ Cardinality(N) <= Cardinality(K) /\ Cardinality(N) # Cardinality(K)
    BY <2>1, <2>2, FS_Subset
  <2>4. Cardinality(N) \in Nat /\ Cardinality(K) \in Nat
    BY <2>2, <2>3, FS_CardinalityType
  <2>5. Cardinality(N) < Cardinality(K)
    BY <2>3, <2>4
  <2> QED BY <2>5 DEF Rank, N, K
<1>4. \A n, k \in ids : Rank(ids, n) = Rank(ids, k) => n = k
  <2>1. SUFFICES ASSUME NEW n \in ids, NEW k \in ids, Rank(ids, n) = Rank(ids, k), n # k
                 PROVE  FALSE
    OBVIOUS
  <2>2. n < k \/ k < n
    BY <2>1
  <2> QED BY <1>2, <1>3, <2>1, <2>2
<1>5. ASSUME NEW i \in 1 .. c
      PROVE  \E n \in ids : Rank(ids, n) = i - 1
  <2> DEFINE T == 0 .. c - 1
  <2>1. f \in [ids -> T]
    BY <1>2
  <2>2. f \in Injection(ids, T)
    BY <1>4, <2>1 DEF Injection, IsInjective
  <2> HIDE DEF f
  <2>3. IsFiniteSet(T) /\ Cardinality(T) = c
    <3> HIDE DEF c
    <3>1. 0 \in Int /\ c - 1 \in Int
      BY <1>1
    <3>2. IsFiniteSet(0 .. c - 1) /\ Cardinality(0 .. c - 1) = IF 0 > c - 1 THEN 0 ELSE c - 1 - 0 + 1
      BY <3>1, FS_Interval, Zenon
    <3>3. (IF 0 > c - 1 THEN 0 ELSE c - 1 - 0 + 1) = c
      BY <1>1
    <3> QED BY <3>2, <3>3
  <2> HIDE DEF T
  <2>4. f \in Surjection(ids, T)
    BY <2>2, <2>3, FS_Injection
  <2>5. i - 1 \in T
    BY <1>1 DEF T
  <2>6. \E n \in ids : f[n] = i - 1
    BY <2>4, <2>5 DEF Surjection
  <2> QED BY <2>6 DEF f
<1>6. \A i \in 1 .. c : Nth(ids, i) \in ids /\ Rank(ids, Nth(ids, i)) = i - 1
  BY <1>5 DEF Nth, Rank
<1>7. ASSUME NEW n \in ids
      PROVE  \E i \in 1 .. c : Nth(ids, i) = n
  <2>1. Rank(ids, n) + 1 \in 1 .. c
    BY <1>1, <1>2
  <2>2. Rank(ids, Nth(ids, Rank(ids, n) + 1)) = Rank(ids, n)
    BY <1>2, <1>6, <2>1
  <2> QED BY <1>4, <1>6, <2>1, <2>2
<1>8. ASSUME NEW i \in 1 .. c, NEW j \in 1 .. c, i < j
      PROVE  Nth(ids, i) < Nth(ids, j)
  <2>1. /\ Nth(ids, i) \in ids /\ Nth(ids, j) \in ids
        /\ Rank(ids, Nth(ids, i)) = i - 1 /\ Rank(ids, Nth(ids, j)) = j - 1
    BY <1>6
  <2> DEFINE a == Nth(ids, i)
             b == Nth(ids, j)
  <2> HIDE DEF a, b
  <2>2. a \in Nat /\ b \in Nat /\ a \in ids /\ b \in ids /\ Rank(ids, a) = i - 1 /\ Rank(ids, b) = j - 1
    BY <2>1 DEF a, b
  <2>3. ~(b < a)
    BY <1>3, <1>8, <2>2
  <2>4. a # b
    BY <1>8, <2>2
  <2> QED BY <2>2, <2>3, <2>4 DEF a, b
<1> QED BY <1>1, <1>6, <1>7, <1>8

(***************************************************************************)
(* The replica while a message is parsed.                                  *)
(***************************************************************************)
Kind == {"map", "self", "player", "pickup", "weapon"}
LocalEntity == [of : Nat, is : Kind, parent : Int, late : BOOLEAN]
Spawn == [id : Nat, stale : BOOLEAN]
Spawns == Seq(Spawn)

LocalEntities == Maps(Nat, LocalEntity)
IDs == Maps(Nat, Nat)

Work == [local : LocalEntities, toClient : IDs, toServer : IDs, spawns : Spawns, published : Spawns]

(* The deaths and the local player, which no message changes.              *)
OthersTyped ==
  /\ deaths \in SUBSET Nat /\ IsFiniteSet(deaths) /\ dying \in SUBSET Nat /\ IsFiniteSet(dying)
  /\ localPlayer.id \in Int

(* MapsMirror, of any state of the replica, and that the one map undoes    *)
(* the other for entities that are gone as well.                           *)
Mirrors(r) ==
  /\ \A n \in Live(r) :
       /\ r.local[n].of \in DOMAIN r.toClient /\ r.toClient[r.local[n].of] = n
       /\ n \in DOMAIN r.toServer /\ r.toServer[n] = r.local[n].of
  /\ \A s \in DOMAIN r.toClient :
       r.toClient[s] \in DOMAIN r.toServer /\ r.toServer[r.toClient[s]] = s

(* What a deletion takes of the copies.                                    *)
Taken(r, ns) == Cascade(Copies(r), ns)

(* A set of copies that has everything below any of them.                  *)
ClosedIn(r, T) == \A n \in Live(r) : r.local[n].parent \in T => n \in T

Closed(world, T) == \A e \in world : e.parent \in T => e.id \in T

(* The smallest closed set that has ids in it.                             *)
Least(world, ids) ==
  {n \in Ids(world) : \A T \in SUBSET Ids(world) : ids \subseteq T /\ Closed(world, T) => n \in T}

(* Going down until there is nothing new ends there: the equation of Down  *)
(* has it for a solution, and no other, by what is left to be reached.     *)
LEMMA CascadeIs ==
  ASSUME NEW world, NEW ids \in SUBSET Ids(world), IsFiniteSet(Ids(world))
  PROVE  Cascade(world, ids) = Least(world, ids)
<1> DEFINE I == Ids(world)
           below(S) == {e.id : e \in {f \in world : f.parent \in S}}
           Solves(f) == f = [S \in SUBSET I |-> IF below(S) \subseteq S THEN S ELSE f[S \cup below(S)]]
           g == [S \in SUBSET I |-> Least(world, S)]
           Down == CHOOSE f : Solves(f)
<1>1. \A S \in SUBSET I : S \cup below(S) \in SUBSET I
  BY DEF Ids
<1>2. \A S : below(S) \subseteq S <=> Closed(world, S)
  BY DEF Closed
<1>3. ASSUME NEW S \in SUBSET I, below(S) \subseteq S
      PROVE  Least(world, S) = S
  BY <1>2, <1>3 DEF Least
<1>4. ASSUME NEW S \in SUBSET I
      PROVE  Least(world, S \cup below(S)) = Least(world, S)
  <2>1. \A T \in SUBSET I : S \subseteq T /\ Closed(world, T) => S \cup below(S) \subseteq T
    BY DEF Closed
  <2> HIDE DEF below
  <2> QED BY <2>1 DEF Least
<1>5. Solves(g)
  <2>1. ASSUME NEW S \in SUBSET I
        PROVE  g[S] = IF below(S) \subseteq S THEN S ELSE g[S \cup below(S)]
    <3> HIDE DEF below, I
    <3> QED BY <1>1, <1>3, <1>4
  <2>2. g = [S \in SUBSET I |-> g[S]]
    OBVIOUS
  <2> HIDE DEF g, below, I
  <2> QED BY <2>1, <2>2, Zenon
<1>6. Solves(Down)
  <2> HIDE DEF Solves
  <2> QED BY <1>5
<1>7. Cascade(world, ids) = Down[ids]
  BY DEF Cascade
<1>8. \A S \in SUBSET I : Down[S] = IF below(S) \subseteq S THEN S ELSE Down[S \cup below(S)]
  <2> HIDE DEF Down, below, I
  <2> QED BY <1>6
<1> HIDE DEF Down, below, g
<1> DEFINE left(S) == Cardinality(I \ S)
           wrong == {k \in Nat : \E S \in SUBSET I : Down[S] # Least(world, S) /\ left(S) = k}
<1>9. ASSUME NEW S \in SUBSET I
      PROVE  IsFiniteSet(I \ S) /\ left(S) \in Nat
  BY FS_Subset, FS_CardinalityType
<1>10. wrong = {}
  <2>1. SUFFICES ASSUME wrong # {} PROVE FALSE
    OBVIOUS
  <2>2. PICK k \in wrong : \A l \in wrong : k <= l
    <3>1. wrong \in SUBSET Nat
      OBVIOUS
    <3> HIDE DEF wrong
    <3> QED BY <2>1, <3>1, LeastExists
  <2>3. PICK S \in SUBSET I : Down[S] # Least(world, S) /\ left(S) = k
    BY <2>2
  <2>4. ~(below(S) \subseteq S)
    BY <1>3, <1>8, <2>3
  <2> DEFINE T == S \cup below(S)
  <2>5. T \in SUBSET I /\ Down[S] = Down[T] /\ Least(world, T) = Least(world, S)
    BY <1>1, <1>4, <1>8, <2>4
  <2>6. I \ T \in SUBSET (I \ S) /\ I \ T # I \ S
    BY <1>1, <2>4
  <2> HIDE DEF T
  <2>7. left(T) < left(S)
    <3>1. left(T) <= left(S) /\ left(T) # left(S)
      BY <1>9, <2>6, FS_Subset
    <3>2. left(T) \in Nat /\ left(S) \in Nat
      BY <1>9, <2>5
    <3> QED BY <3>1, <3>2
  <2>8. left(T) \in wrong
    BY <1>9, <2>3, <2>5
  <2>9. left(T) \in Nat /\ k \in Nat
    BY <1>9, <2>2, <2>5
  <2> HIDE DEF wrong, left
  <2> QED BY <2>2, <2>3, <2>7, <2>8, <2>9
<1>11. Down[ids] = Least(world, ids)
  BY <1>9, <1>10
<1> QED BY <1>7, <1>11

(* What the deletion of some copies takes (Cascade, m_EntityChildren in    *)
(* World.cpp) is the least set of copies that has them and everything      *)
(* below what it has: the recursive function stops at it, for there are    *)
(* finitely many copies.                                                   *)
LEMMA TakenIs ==
  ASSUME NEW r, NEW ns \in SUBSET Live(r), IsFiniteSet(Live(r))
  PROVE  /\ ns \subseteq Taken(r, ns) /\ Taken(r, ns) \subseteq Live(r) /\ ClosedIn(r, Taken(r, ns))
         /\ \A T \in SUBSET Live(r) : ns \subseteq T /\ ClosedIn(r, T) => Taken(r, ns) \subseteq T
<1> DEFINE copy(n) == [id |-> n, parent |-> r.local[n].parent]
<1>a. Copies(r) = {copy(n) : n \in Live(r)}
  BY DEF Copies
<1>b. \A n : copy(n).id = n /\ copy(n).parent = r.local[n].parent
  OBVIOUS
<1> HIDE DEF copy
<1>1. Ids(Copies(r)) = Live(r)
  BY <1>a, <1>b DEF Ids
<1>2. \A T : ClosedIn(r, T) <=> Closed(Copies(r), T)
  BY <1>a, <1>b DEF ClosedIn, Closed
<1>3. Taken(r, ns) = {n \in Live(r) : \A S \in SUBSET Live(r) : ns \subseteq S /\ ClosedIn(r, S) => n \in S}
  BY <1>1, <1>2, CascadeIs DEF Taken, Least
<1>4. ns \subseteq Taken(r, ns) /\ Taken(r, ns) \subseteq Live(r)
  BY <1>3
<1>5. ASSUME NEW n \in Live(r), r.local[n].parent \in Taken(r, ns)
      PROVE  n \in Taken(r, ns)
  <2>1. ASSUME NEW S \in SUBSET Live(r), ns \subseteq S, ClosedIn(r, S)
        PROVE  n \in S
    <3>1. r.local[n].parent \in S
      BY <1>3, <1>5, <2>1
    <3> QED BY <2>1, <3>1 DEF ClosedIn
  <2> QED BY <1>3, <2>1
<1>6. ASSUME NEW T \in SUBSET Live(r), ns \subseteq T, ClosedIn(r, T)
      PROVE  Taken(r, ns) \subseteq T
  BY <1>3, <1>6
<1> QED BY <1>4, <1>5, <1>6 DEF ClosedIn

(* More copies, with the parents they had where they had one, and more     *)
(* that is deleted: what was below it still is.                            *)
LEMMA TakenGrows ==
  ASSUME NEW r, NEW t, NEW ns \in SUBSET Live(r), NEW ms \in SUBSET Live(t),
         IsFiniteSet(Live(r)), IsFiniteSet(Live(t)), Live(r) \subseteq Live(t), ns \subseteq ms,
         \A n \in Live(r) : r.local[n].parent \in Live(r) => t.local[n].parent = r.local[n].parent
  PROVE  Taken(r, ns) \subseteq Taken(t, ms)
<1> DEFINE T == Taken(t, ms) \cap Live(r)
<1>1. /\ ms \subseteq Taken(t, ms) /\ ClosedIn(t, Taken(t, ms))
  BY TakenIs
<1>2. T \in SUBSET Live(r) /\ ns \subseteq T
  BY <1>1
<1>3. ClosedIn(r, T)
  BY <1>1 DEF ClosedIn
<1> HIDE DEF T
<1>4. Taken(r, ns) \subseteq T
  BY <1>2, <1>3, TakenIs
<1> QED BY <1>4 DEF T

(* What a deletion leaves, is below what is left of what it was below.     *)
LEMMA TakenIsLeft ==
  ASSUME NEW r, NEW t, NEW ns \in SUBSET Live(r), NEW ms \in SUBSET Live(t), NEW gone \in SUBSET Live(r),
         IsFiniteSet(Live(r)), IsFiniteSet(Live(t)),
         ClosedIn(r, gone), Live(t) = Live(r) \ gone, ns \subseteq ms \cup gone,
         \A n \in Live(t) : t.local[n].parent = r.local[n].parent
  PROVE  Taken(r, ns) \subseteq Taken(t, ms) \cup gone
<1> DEFINE T == Taken(t, ms) \cup gone
<1>1. ms \subseteq Taken(t, ms) /\ Taken(t, ms) \subseteq Live(t) /\ ClosedIn(t, Taken(t, ms))
  BY TakenIs
<1>2. T \in SUBSET Live(r) /\ ns \subseteq T
  BY <1>1
<1>3. ClosedIn(r, T)
  BY <1>1 DEF ClosedIn
<1> HIDE DEF T
<1>4. Taken(r, ns) \subseteq T
  BY <1>2, <1>3, TakenIs
<1> QED BY <1>4 DEF T

(* The parts of a replica, typed.                                          *)
LEMMA WorkIs ==
  ASSUME NEW r \in Work
  PROVE  /\ r.local \in LocalEntities /\ r.toClient \in IDs /\ r.toServer \in IDs
         /\ r.spawns \in Spawns /\ r.published \in Spawns
         /\ Live(r) \in SUBSET Nat /\ IsFiniteSet(Live(r))
         /\ \A n \in Live(r) : r.local[n] \in LocalEntity
         /\ DOMAIN r.toClient \in SUBSET Nat /\ IsFiniteSet(DOMAIN r.toClient)
         /\ \A s \in DOMAIN r.toClient : r.toClient[s] \in Nat
         /\ DOMAIN r.toServer \in SUBSET Nat /\ IsFiniteSet(DOMAIN r.toServer)
         /\ \A n \in DOMAIN r.toServer : r.toServer[n] \in Nat
<1>1. /\ r.local \in LocalEntities /\ r.toClient \in IDs /\ r.toServer \in IDs
      /\ r.spawns \in Spawns /\ r.published \in Spawns
  BY DEF Work
<1> QED BY <1>1, MapIs DEF LocalEntities, IDs, Live

(* Who has a copy is what it is a copy of.                                 *)
LEMMA HasIs ==
  ASSUME NEW r \in Work, Mirrors(r)
  PROVE  /\ \A n \in Live(r) : HasEntity(r, r.local[n].of) /\ r.toClient[r.local[n].of] = n
         /\ \A s : HasEntity(r, s) => /\ s \in Nat /\ s \in DOMAIN r.toClient
                                      /\ r.toClient[s] \in Live(r) /\ r.local[r.toClient[s]].of = s
BY WorkIs DEF Mirrors, HasEntity

(* The maps forget some entities of the server.                            *)
IsForgotten(t, r, ids) ==
  /\ t \in Work /\ t.local = r.local /\ t.spawns = r.spawns /\ t.published = r.published
  /\ DOMAIN t.toClient = DOMAIN r.toClient \ ids
  /\ \A s \in DOMAIN t.toClient : t.toClient[s] = r.toClient[s]
  /\ Mirrors(t)

(* Entities that have no copy can be forgotten: both maps still mirror     *)
(* each other (deleteFromServerClientMaps).                                *)
LEMMA Forgotten ==
  ASSUME NEW r \in Work, Mirrors(r), NEW ids \in SUBSET DOMAIN r.toClient,
         \A s \in ids : ~HasEntity(r, s)
  PROVE  IsForgotten(DeleteFromServerClientMaps(r, ids), r, ids)
<1> DEFINE C == DOMAIN r.toClient \ ids
           S == DOMAIN r.toServer \ {r.toClient[s] : s \in ids}
           t == DeleteFromServerClientMaps(r, ids)
<1>1. t = [r EXCEPT !.toClient = Restricted(r.toClient, C), !.toServer = Restricted(r.toServer, S)]
  BY DEF DeleteFromServerClientMaps
<1>2. /\ Restricted(r.toClient, C) \in IDs /\ DOMAIN Restricted(r.toClient, C) = C
      /\ \A s \in C : Restricted(r.toClient, C)[s] = r.toClient[s]
  <2>1. r.toClient \in IDs /\ C \subseteq DOMAIN r.toClient
    BY WorkIs
  <2> HIDE DEF C
  <2> QED BY <2>1, RestrictedIs DEF IDs
<1>3. /\ Restricted(r.toServer, S) \in IDs /\ DOMAIN Restricted(r.toServer, S) = S
      /\ \A n \in S : Restricted(r.toServer, S)[n] = r.toServer[n]
  <2>1. r.toServer \in IDs /\ S \subseteq DOMAIN r.toServer
    BY WorkIs
  <2> HIDE DEF S
  <2> QED BY <2>1, RestrictedIs DEF IDs
<1>4. /\ t \in Work /\ t.local = r.local /\ t.spawns = r.spawns /\ t.published = r.published
      /\ t.toClient = Restricted(r.toClient, C) /\ t.toServer = Restricted(r.toServer, S)
  BY <1>1, <1>2, <1>3 DEF Work
<1> HIDE DEF t
<1>5. Live(t) = Live(r)
  BY <1>4 DEF Live
<1>6. \A n \in Live(r) : r.local[n].of \in C /\ n \in S
  BY DEF Mirrors, HasEntity
<1>7. \A s \in C : r.toClient[s] \in S
  BY DEF Mirrors
<1>8. Mirrors(t)
  <2>1. \A n \in Live(t) :
           /\ t.local[n].of \in DOMAIN t.toClient /\ t.toClient[t.local[n].of] = n
           /\ n \in DOMAIN t.toServer /\ t.toServer[n] = t.local[n].of
    <3> HIDE DEF C, S
    <3> QED BY <1>2, <1>3, <1>4, <1>5, <1>6 DEF Mirrors
  <2>2. \A s \in DOMAIN t.toClient :
           t.toClient[s] \in DOMAIN t.toServer /\ t.toServer[t.toClient[s]] = s
    <3>1. \A s \in C : s \in DOMAIN r.toClient
      OBVIOUS
    <3> HIDE DEF C, S
    <3> QED BY <1>2, <1>3, <1>4, <1>7, <3>1 DEF Mirrors
  <2> QED BY <2>1, <2>2 DEF Mirrors
<1>9. IsForgotten(t, r, ids)
  BY <1>2, <1>4, <1>8 DEF IsForgotten
<1> QED BY <1>9 DEF t

(* Who is asked for is forgotten if he is gone.                            *)
IsAsked(t, r, ids) ==
  /\ t \in Work /\ t.local = r.local /\ t.spawns = r.spawns /\ t.published = r.published
  /\ Mirrors(t)
  /\ \A s : HasEntity(t, s) <=> HasEntity(r, s)
  /\ \A s : HasEntity(r, s) => t.toClient[s] = r.toClient[s]
  /\ \A s \in ids : ~HasEntity(r, s) => s \notin DOMAIN t.toClient

(* To ask whether the maps have an entity changes no answer, only forgets  *)
(* what is gone (serverClientMapsHasEntity).                               *)
LEMMA AskedIs ==
  ASSUME NEW r \in Work, Mirrors(r), NEW ids
  PROVE  IsAsked(Asked(r, ids), r, ids)
<1> DEFINE gone == {s \in ids \cap DOMAIN r.toClient : ~HasEntity(r, s)}
           t == Asked(r, ids)
<1>1. IsForgotten(t, r, gone)
  <2>1. gone \in SUBSET DOMAIN r.toClient /\ \A s \in gone : ~HasEntity(r, s)
    OBVIOUS
  <2>2. t = DeleteFromServerClientMaps(r, gone)
    BY DEF Asked
  <2> HIDE DEF gone, t
  <2> QED BY <2>1, <2>2, Forgotten
<1> HIDE DEF t
<1>2. Live(t) = Live(r)
  BY <1>1 DEF Live, IsForgotten
<1>3. \A s : HasEntity(r, s) => s \in DOMAIN r.toClient \ gone
  BY DEF HasEntity
<1>4. \A s : HasEntity(t, s) <=> HasEntity(r, s)
  <2>1. \A s \in DOMAIN r.toClient \ gone : s \in DOMAIN r.toClient
    OBVIOUS
  <2> HIDE DEF gone
  <2> QED BY <1>1, <1>2, <1>3, <2>1 DEF HasEntity, IsForgotten
<1>5. \A s : HasEntity(r, s) => t.toClient[s] = r.toClient[s]
  BY <1>1, <1>3 DEF IsForgotten
<1>6. \A s \in ids : ~HasEntity(r, s) => s \notin DOMAIN t.toClient
  BY <1>1 DEF IsForgotten
<1>7. IsAsked(t, r, ids)
  BY <1>1, <1>4, <1>5, <1>6 DEF IsAsked, IsForgotten
<1> QED BY <1>7 DEF t

(* There is a local number that nobody knows.                              *)
LEMMA NewLocalIs ==
  ASSUME NEW r \in Work, OthersTyped
  PROVE  NewLocal(r) \in Nat /\ NewLocal(r) \notin Referenced(r)
<1> DEFINE P == {r.published[i].id : i \in DOMAIN r.published}
           C == {r.toClient[s] : s \in DOMAIN r.toClient}
           R == Referenced(r)
           k == Cardinality(R)
<1>1. IsFiniteSet(P) /\ IsFiniteSet(C)
  <2>1. Len(r.published) \in Nat /\ DOMAIN r.published = 1 .. Len(r.published)
    BY WorkIs DEF Spawns
  <2>2. IsFiniteSet(DOMAIN r.published)
    <3>1. IsFiniteSet(1 .. Len(r.published))
      BY <2>1, FS_Interval
    <3> QED BY <2>1, <3>1
  <2>3. IsFiniteSet(P)
    <3> DEFINE f == [i \in DOMAIN r.published |-> r.published[i].id]
    <3>1. IsFiniteSet(DOMAIN f) /\ P = {f[i] : i \in DOMAIN f}
      BY <2>2
    <3> HIDE DEF f
    <3> QED BY <3>1, FiniteRange
  <2>4. IsFiniteSet(C)
    BY WorkIs, FiniteRange
  <2> QED BY <2>3, <2>4
<1>2. IsFiniteSet(R)
  <2>1. R = Live(r) \cup (DOMAIN r.toServer \cup (C \cup (deaths \cup (dying \cup ({localPlayer.id} \cup P)))))
    BY DEF Referenced
  <2>2. /\ IsFiniteSet(Live(r)) /\ IsFiniteSet(DOMAIN r.toServer)
        /\ IsFiniteSet(deaths) /\ IsFiniteSet(dying) /\ IsFiniteSet({localPlayer.id})
    BY WorkIs, FS_Singleton DEF OthersTyped
  <2> HIDE DEF P, C, R
  <2> QED BY <1>1, <2>1, <2>2, FS_Union
<1> HIDE DEF R
<1>3. k \in Nat
  BY <1>2, FS_CardinalityType
<1> DEFINE T == {n \in 0 .. k : n \notin R}
<1>4. T # {}
  <2>1. SUFFICES ASSUME 0 .. k \subseteq R PROVE FALSE
    OBVIOUS
  <2>2. Cardinality(0 .. k) = k + 1
    BY <1>3, FS_Interval
  <2> QED BY <1>2, <1>3, <2>1, <2>2, FS_Subset
<1>5. PICK n \in T : \A m \in T : n <= m
  <2>1. T \in SUBSET Nat
    OBVIOUS
  <2> HIDE DEF T
  <2> QED BY <1>4, <2>1, LeastExists
<1>6. n \in 0 .. k /\ n \notin R /\ 0 .. (n - 1) \subseteq R
  <2>1. ASSUME NEW m \in 0 .. (n - 1), m \notin R PROVE FALSE
    <3>1. m \in T /\ m < n
      BY <1>3, <2>1
    <3> QED BY <1>5, <3>1
  <2> QED BY <2>1
<1> DEFINE new == CHOOSE m \in 0 .. k : m \notin R /\ 0 .. (m - 1) \subseteq R
<1>7. NewLocal(r) = new
  BY DEF NewLocal, R
<1>8. new \in 0 .. k /\ new \notin R
  BY <1>6
<1> QED BY <1>3, <1>7, <1>8 DEF R

(***************************************************************************)
(* One entity of a snapshot.                                               *)
(***************************************************************************)
EntityRecord == [id : Nat, is : Kind, parent : Int]

(* What is doomed depends on what the copies are of and are below of.      *)
LEMMA DoomedDependsOn ==
  ASSUME NEW r, NEW t, NEW messages, Live(t) = Live(r),
         \A n \in Live(r) : t.local[n].of = r.local[n].of /\ t.local[n].parent = r.local[n].parent
  PROVE  Doomed(t, messages) = Doomed(r, messages)
<1>1. Copies(t) = Copies(r)
  BY DEF Copies
<1>2. Condemned(t, messages) = Condemned(r, messages)
  BY DEF Condemned
<1> QED BY <1>1, <1>2 DEF Doomed

(* The parent that a copy is given is the copy of the parent of its        *)
(* entity.                                                                 *)
LEMMA ParentIs ==
  ASSUME NEW r \in Work, Mirrors(r), NEW e \in EntityRecord
  PROVE  /\ ParentOf(r, e) \in Int
         /\ ParentOf(r, e) # EntityID_Invalid =>
              /\ HasEntity(r, e.parent) /\ ParentOf(r, e) = r.toClient[e.parent]
              /\ ParentOf(r, e) \in Live(r) /\ r.local[ParentOf(r, e)].of = e.parent
         /\ HasEntity(r, e.parent) => ParentOf(r, e) = r.toClient[e.parent]
<1>1. \A s : HasEntity(r, s) => /\ s \in Nat /\ s \in DOMAIN r.toClient
                                 /\ r.toClient[s] \in Live(r) /\ r.local[r.toClient[s]].of = s
  BY HasIs
<1>2. \A n \in Live(r) : n \in Nat
  BY WorkIs
<1> QED BY <1>1, <1>2 DEF ParentOf, EntityID_Invalid

(* A copy is made of an entity that has none.                              *)
IsCreated(t, r, e, n) ==
  /\ t \in Work /\ Mirrors(t)
  /\ t.spawns = r.spawns /\ t.published = r.published
  /\ n \notin Live(r) /\ n \notin deaths \cup dying
  /\ Live(t) = Live(r) \cup {n}
  /\ \A m \in Live(r) : t.local[m] = r.local[m]
  /\ t.local[n].of = e.id /\ t.local[n].is = e.is /\ t.local[n].parent = ParentOf(r, e)
  /\ t.local[n].late = (~Exists(e.id) /\ n \notin Doomed(t, tcp))
  /\ DOMAIN t.toClient = DOMAIN r.toClient \cup {e.id} /\ t.toClient[e.id] = n
  /\ \A s \in DOMAIN r.toClient : t.toClient[s] = r.toClient[s]

(* A created entity is new, is below the copy of its parent, and is        *)
(* mirrored by the maps (createNewEntity in parseSnapshot).                *)
LEMMA CreateIs ==
  ASSUME NEW r \in Work, Mirrors(r), OthersTyped, NEW e \in EntityRecord, e.id \notin DOMAIN r.toClient
  PROVE  IsCreated(Create(r, e), r, e, NewLocal(r))
<1> DEFINE n == NewLocal(r)
           new == [of |-> e.id, is |-> e.is, parent |-> ParentOf(r, e), late |-> FALSE]
           made == [InsertIntoServerClientMaps(r, e.id, n) EXCEPT !.local = With(@, n, new)]
           late == ~Exists(e.id) /\ n \notin Doomed(made, tcp)
           t == Create(r, e)
<1>1. /\ n \in Nat /\ n \notin Live(r) /\ n \notin deaths \cup dying /\ n \notin DOMAIN r.toServer
      /\ \A s \in DOMAIN r.toClient : r.toClient[s] # n
  BY NewLocalIs DEF Referenced
<1>2. new \in LocalEntity /\ e.id \in Nat
  BY ParentIs DEF LocalEntity, EntityRecord
<1> DEFINE l == With(r.local, n, new)
           c == With(r.toClient, e.id, n)
           s == With(r.toServer, n, e.id)
<1> HIDE DEF l, c, s
<1> HIDE DEF n, late, new
<1>3. /\ l \in LocalEntities /\ DOMAIN l = Live(r) \cup {n} /\ l[n] = new
      /\ \A m \in Live(r) : l[m] = r.local[m]
  <2>1. r.local \in Maps(Nat, LocalEntity) /\ n \in Nat /\ new \in LocalEntity
    BY <1>1, <1>2, WorkIs DEF LocalEntities
  <2>3. l \in Maps(Nat, LocalEntity) /\ IsWith(l, r.local, n, new)
    BY <2>1, WithIs, Zenon DEF l
  <2>2. /\ l \in LocalEntities /\ DOMAIN l = DOMAIN r.local \cup {n} /\ l[n] = new
        /\ \A m \in DOMAIN r.local : m # n => l[m] = r.local[m]
    BY <2>3 DEF IsWith, LocalEntities
  <2> QED BY <1>1, <2>2 DEF Live
<1>4. /\ c \in IDs /\ DOMAIN c = DOMAIN r.toClient \cup {e.id} /\ c[e.id] = n
      /\ \A x \in DOMAIN r.toClient : c[x] = r.toClient[x]
  <2>1. r.toClient \in Maps(Nat, Nat) /\ e.id \in Nat /\ n \in Nat
    BY <1>1, <1>2, WorkIs DEF IDs
  <2>3. c \in Maps(Nat, Nat) /\ IsWith(c, r.toClient, e.id, n)
    BY <2>1, WithIs, Zenon DEF c
  <2>2. /\ c \in IDs /\ DOMAIN c = DOMAIN r.toClient \cup {e.id} /\ c[e.id] = n
        /\ \A x \in DOMAIN r.toClient : x # e.id => c[x] = r.toClient[x]
    BY <2>3 DEF IsWith, IDs
  <2> QED BY <2>2
<1>5. /\ s \in IDs /\ DOMAIN s = DOMAIN r.toServer \cup {n} /\ s[n] = e.id
      /\ \A x \in DOMAIN r.toServer : s[x] = r.toServer[x]
  <2>1. r.toServer \in Maps(Nat, Nat) /\ n \in Nat /\ e.id \in Nat
    BY <1>1, <1>2, WorkIs DEF IDs
  <2>3. s \in Maps(Nat, Nat) /\ IsWith(s, r.toServer, n, e.id)
    BY <2>1, WithIs, Zenon DEF s
  <2>2. /\ s \in IDs /\ DOMAIN s = DOMAIN r.toServer \cup {n} /\ s[n] = e.id
        /\ \A x \in DOMAIN r.toServer : x # n => s[x] = r.toServer[x]
    BY <2>3 DEF IsWith, IDs
  <2> QED BY <1>1, <2>2
<1>6. /\ made \in Work /\ made.local = l /\ made.toClient = c /\ made.toServer = s
      /\ made.spawns = r.spawns /\ made.published = r.published
  <2>1. made = [r EXCEPT !.toClient = c, !.toServer = s, !.local = l]
    BY <1>1 DEF InsertIntoServerClientMaps, Work, l, c, s
  <2> HIDE DEF made
  <2> QED BY <2>1, <1>3, <1>4, <1>5 DEF Work
<1>7. t = [made EXCEPT !.local[n].late = late]
  BY DEF Create, n, late, new
<1> HIDE DEF made, t
<1>8. /\ t.local = [l EXCEPT ![n].late = late] /\ t.toClient = c /\ t.toServer = s
      /\ t.spawns = r.spawns /\ t.published = r.published
      /\ t = [local |-> t.local, toClient |-> t.toClient, toServer |-> t.toServer,
              spawns |-> t.spawns, published |-> t.published]
  BY <1>6, <1>7 DEF Work
<1>9. late \in BOOLEAN
  BY DEF late
<1>10. /\ DOMAIN t.local = DOMAIN l /\ t.local[n] = [new EXCEPT !.late = late]
       /\ \A m \in Live(r) : t.local[m] = r.local[m]
  BY <1>1, <1>3, <1>8
<1>11. t.local \in LocalEntities
  <2>1. t.local = [x \in DOMAIN t.local |-> t.local[x]]
    BY <1>3, <1>8, MapIs DEF LocalEntities
  <2>2. DOMAIN t.local \in SUBSET Nat /\ IsFiniteSet(DOMAIN t.local)
    BY <1>3, <1>10, MapIs DEF LocalEntities
  <2>3. t.local[n] \in LocalEntity
    BY <1>2, <1>9, <1>10 DEF LocalEntity
  <2>4. \A x \in DOMAIN t.local : t.local[x] \in LocalEntity
    BY <1>3, <1>10, <2>3, WorkIs
  <2> QED BY <2>1, <2>2, <2>4, MapIs, Zenon DEF LocalEntities
<1>12. t \in Work
  BY <1>4, <1>5, <1>8, <1>11, WorkIs DEF Work
<1>13. t.local[n].of = e.id /\ t.local[n].is = e.is /\ t.local[n].parent = ParentOf(r, e) /\ t.local[n].late = late
  BY <1>10 DEF new
<1>14. Live(t) = Live(r) \cup {n} /\ Live(made) = Live(t)
  BY <1>3, <1>6, <1>10 DEF Live
<1>15. Doomed(made, tcp) = Doomed(t, tcp)
  <2>1. \A m \in Live(t) : made.local[m].of = t.local[m].of /\ made.local[m].parent = t.local[m].parent
    BY <1>3, <1>6, <1>10, <1>13, <1>14 DEF new
  <2> QED BY <1>14, <2>1, DoomedDependsOn
<1>16. Mirrors(t)
  <2>1. ASSUME NEW m \in Live(t)
        PROVE  /\ t.local[m].of \in DOMAIN t.toClient /\ t.toClient[t.local[m].of] = m
               /\ m \in DOMAIN t.toServer /\ t.toServer[m] = t.local[m].of
    <3>1. CASE m = n
      BY <1>4, <1>5, <1>8, <1>13, <3>1
    <3>2. CASE m \in Live(r)
      <4>1. /\ r.local[m].of \in DOMAIN r.toClient /\ r.toClient[r.local[m].of] = m
            /\ m \in DOMAIN r.toServer /\ r.toServer[m] = r.local[m].of
        BY <3>2 DEF Mirrors
      <4> QED BY <1>4, <1>5, <1>8, <1>10, <3>2, <4>1
    <3> QED BY <1>14, <3>1, <3>2
  <2>2. ASSUME NEW x \in DOMAIN t.toClient
        PROVE  t.toClient[x] \in DOMAIN t.toServer /\ t.toServer[t.toClient[x]] = x
    <3>1. CASE x = e.id
      BY <1>4, <1>5, <1>8, <3>1
    <3>2. CASE x \in DOMAIN r.toClient
      <4>1. r.toClient[x] \in DOMAIN r.toServer /\ r.toServer[r.toClient[x]] = x
        BY <3>2 DEF Mirrors
      <4> QED BY <1>4, <1>5, <1>8, <3>2, <4>1
    <3> QED BY <1>4, <1>8, <3>1, <3>2
  <2> QED BY <2>1, <2>2 DEF Mirrors
<1>17. t.local[n].late = (~Exists(e.id) /\ n \notin Doomed(t, tcp))
  BY <1>13, <1>15 DEF late
<1>18. IsCreated(t, r, e, n)
  BY <1>1, <1>4, <1>8, <1>10, <1>12, <1>13, <1>14, <1>16, <1>17 DEF IsCreated
<1> QED BY <1>18 DEF t, n

(* A copy is put below what is known of its parent.                        *)
IsPlaced(t, r, e) ==
  /\ t \in Work /\ Mirrors(t)
  /\ t.spawns = r.spawns /\ t.published = r.published /\ t.toClient = r.toClient
  /\ Live(t) = Live(r)
  /\ \A m \in Live(r) : /\ t.local[m].of = r.local[m].of /\ t.local[m].is = r.local[m].is
                        /\ t.local[m].late = r.local[m].late
                        /\ t.local[m].parent = IF m = r.toClient[e.id] /\ ParentOf(r, e) # EntityID_Invalid
                                                 THEN ParentOf(r, e) ELSE r.local[m].parent

(* Setting the parent of a copy changes nothing but that parent (the       *)
(* parent logic in parseSnapshot).                                         *)
LEMMA PlacedIs ==
  ASSUME NEW r \in Work, Mirrors(r), NEW e \in EntityRecord, HasEntity(r, e.id)
  PROVE  IsPlaced(ParentLogic(r, e), r, e)
<1> DEFINE t == ParentLogic(r, e)
           n == r.toClient[e.id]
           P == ParentOf(r, e)
<1>1. CASE P = EntityID_Invalid
  <2>1. t = r
    BY <1>1 DEF ParentLogic
  <2> HIDE DEF t
  <2>2. IsPlaced(t, r, e)
    BY <1>1, <2>1 DEF IsPlaced
  <2> QED BY <2>2 DEF t
<1>2. CASE P # EntityID_Invalid
  <2>1. t = [r EXCEPT !.local[n].parent = P]
    BY <1>2 DEF ParentLogic
  <2>2. n \in Live(r) /\ P \in Int
    BY HasIs, ParentIs
  <2> HIDE DEF t, n, P
  <2>3. /\ t.local = [r.local EXCEPT ![n].parent = P] /\ t.toClient = r.toClient /\ t.toServer = r.toServer
        /\ t.spawns = r.spawns /\ t.published = r.published
        /\ t = [local |-> t.local, toClient |-> t.toClient, toServer |-> t.toServer,
                spawns |-> t.spawns, published |-> t.published]
    BY <2>1 DEF Work
  <2>4. /\ r.local \in LocalEntities /\ \A m \in Live(r) : r.local[m] \in LocalEntity
    BY WorkIs
  <2>5. /\ DOMAIN t.local = Live(r) /\ t.local[n] = [r.local[n] EXCEPT !.parent = P]
        /\ \A m \in Live(r) : m # n => t.local[m] = r.local[m]
    BY <2>2, <2>3 DEF Live
  <2>6. /\ t.local[n] \in LocalEntity
        /\ t.local[n].of = r.local[n].of /\ t.local[n].is = r.local[n].is
        /\ t.local[n].late = r.local[n].late /\ t.local[n].parent = P
    BY <2>2, <2>4, <2>5 DEF LocalEntity
  <2>7. t.local \in LocalEntities
    <3>1. t.local = [x \in DOMAIN t.local |-> t.local[x]]
      BY <2>3, <2>4, MapIs DEF LocalEntities
    <3>2. DOMAIN t.local \in SUBSET Nat /\ IsFiniteSet(DOMAIN t.local)
      BY <2>5, WorkIs
    <3>3. \A x \in DOMAIN t.local : t.local[x] \in LocalEntity
      BY <2>4, <2>5, <2>6
    <3> QED BY <3>1, <3>2, <3>3, MapIs, Zenon DEF LocalEntities
  <2>8. t \in Work
    BY <2>3, <2>7, WorkIs DEF Work
  <2>9. Live(t) = Live(r)
    BY <2>5 DEF Live
  <2>10. Mirrors(t)
    BY <2>3, <2>5, <2>6, <2>9 DEF Mirrors
  <2>11. IsPlaced(t, r, e)
    BY <1>2, <2>2, <2>3, <2>5, <2>6, <2>8, <2>9, <2>10 DEF IsPlaced, n, P
  <2> QED BY <2>11 DEF t
<1> QED BY <1>1, <1>2

(* An entity of a snapshot has a copy afterwards, the one it had, or a new *)
(* one, below what the replica knows of its parent.                        *)
IsParsed(t, r, e, n) ==
  /\ t \in Work /\ Mirrors(t)
  /\ t.spawns = r.spawns /\ t.published = r.published
  /\ HasEntity(t, e.id) /\ t.toClient[e.id] = n
  /\ \A s : HasEntity(r, s) => HasEntity(t, s) /\ t.toClient[s] = r.toClient[s]
  /\ Live(t) = Live(r) \cup {n}
  /\ \A m \in Live(r) : /\ t.local[m].of = r.local[m].of /\ t.local[m].is = r.local[m].is
                        /\ t.local[m].late = r.local[m].late
                        /\ t.local[m].parent = IF m = n /\ ParentOf(r, e) # EntityID_Invalid
                                                 THEN ParentOf(r, e) ELSE r.local[m].parent
  /\ n \notin Live(r) => /\ n \notin deaths \cup dying
                         /\ t.local[n].of = e.id /\ t.local[n].is = e.is
                         /\ t.local[n].parent = ParentOf(r, e)
                         /\ t.local[n].late = (~Exists(e.id) /\ n \notin Doomed(t, tcp))

(* What the parsing of one entity of a snapshot comes to: one copy of it,  *)
(* new or old, below the copy of its parent.                               *)
LEMMA ParsedIs ==
  ASSUME NEW r \in Work, Mirrors(r), OthersTyped, NEW e \in EntityRecord, e.parent # e.id
  PROVE  \E n : IsParsed(ParseEntity(r, e), r, e, n)
<1> DEFINE a == Asked(r, {e.id, e.parent})
           c == IF HasEntity(a, e.id) THEN a ELSE Create(a, e)
           t == ParseEntity(r, e)
<1>1. IsAsked(a, r, {e.id, e.parent})
  BY AskedIs
<1>2. t = ParentLogic(c, e)
  BY DEF ParseEntity
<1> HIDE DEF a
<1>3. /\ a \in Work /\ Mirrors(a) /\ Live(a) = Live(r)
      /\ \A s : HasEntity(a, s) <=> HasEntity(r, s)
      /\ \A s : HasEntity(r, s) => a.toClient[s] = r.toClient[s]
      /\ a.local = r.local /\ a.spawns = r.spawns /\ a.published = r.published
  BY <1>1 DEF IsAsked, Live
<1>4. ParentOf(a, e) = ParentOf(r, e)
  BY <1>3 DEF ParentOf
<1>5. ParentOf(r, e) \in Int
  BY ParentIs
<1>6. CASE HasEntity(r, e.id)
  <2>1. t = ParentLogic(a, e) /\ HasEntity(a, e.id)
    BY <1>2, <1>3, <1>6
  <2> HIDE DEF t
  <2>2. IsPlaced(t, a, e)
    BY <1>3, <2>1, PlacedIs
  <2>3. r.toClient[e.id] \in Live(r) /\ a.toClient[e.id] = r.toClient[e.id]
    BY <1>3, <1>6, HasIs
  <2>4. \A s : HasEntity(r, s) => HasEntity(t, s) /\ t.toClient[s] = r.toClient[s]
    BY <1>3, <2>2 DEF IsPlaced, HasEntity
  <2>5. IsParsed(t, r, e, r.toClient[e.id])
    <3>1. /\ t \in Work /\ Mirrors(t) /\ t.spawns = r.spawns /\ t.published = r.published
          /\ Live(t) = Live(r) \cup {r.toClient[e.id]}
      BY <1>3, <2>2, <2>3 DEF IsPlaced
    <3>2. HasEntity(t, e.id) /\ t.toClient[e.id] = r.toClient[e.id]
      BY <1>6, <2>4
    <3>3. \A m \in Live(r) : /\ t.local[m].of = r.local[m].of /\ t.local[m].is = r.local[m].is
                        /\ t.local[m].late = r.local[m].late
                        /\ t.local[m].parent = IF m = r.toClient[e.id] /\ ParentOf(r, e) # EntityID_Invalid
                                                 THEN ParentOf(r, e) ELSE r.local[m].parent
      BY <1>3, <1>4, <2>2, <2>3 DEF IsPlaced
    <3> QED BY <2>3, <2>4, <3>1, <3>2, <3>3 DEF IsParsed
  <2> QED BY <2>5 DEF t
<1>7. CASE ~HasEntity(r, e.id)
  <2> DEFINE n == NewLocal(a)
             k == Create(a, e)
  <2>1. IsCreated(k, a, e, n)
    <3>1. e.id \notin DOMAIN a.toClient
      BY <1>1, <1>7 DEF IsAsked
    <3> QED BY <1>3, <3>1, CreateIs
  <2>2. t = ParentLogic(k, e)
    BY <1>2, <1>3, <1>7
  <2> HIDE DEF k, n, t
  <2>3. HasEntity(k, e.id) /\ k.toClient[e.id] = n
    BY <2>1 DEF IsCreated, HasEntity
  <2>4. \A s : HasEntity(a, s) => HasEntity(k, s) /\ k.toClient[s] = a.toClient[s]
    BY <2>1 DEF IsCreated, HasEntity
  <2>5. IsPlaced(t, k, e)
    BY <2>1, <2>2, <2>3, PlacedIs DEF IsCreated
  <2>6. \A s : s # e.id /\ HasEntity(k, s) => HasEntity(a, s)
    <3>1. SUFFICES ASSUME NEW s, s # e.id, HasEntity(k, s) PROVE HasEntity(a, s)
      OBVIOUS
    <3>2. s \in DOMAIN a.toClient /\ k.toClient[s] = a.toClient[s] /\ k.toClient[s] \in Live(k)
      BY <2>1, <3>1 DEF IsCreated, HasEntity
    <3>3. k.toClient[s] # n
      <4>1. Mirrors(k) /\ k.toServer[k.toClient[s]] = s /\ k.toServer[k.toClient[e.id]] = e.id
        BY <2>1, <2>3, <3>1 DEF IsCreated, Mirrors, HasEntity
      <4> QED BY <2>3, <3>1, <4>1
    <3> QED BY <2>1, <3>2, <3>3 DEF IsCreated, HasEntity
  <2>7. ParentOf(k, e) = ParentOf(r, e)
    BY <1>3, <1>4, <2>4, <2>6 DEF ParentOf
  <2>8. \A s : HasEntity(r, s) => HasEntity(t, s) /\ t.toClient[s] = r.toClient[s]
    BY <1>3, <2>4, <2>5 DEF IsPlaced, HasEntity
  <2>9. /\ n \notin Live(r) /\ n \notin deaths \cup dying /\ Live(t) = Live(r) \cup {n} /\ Live(k) = Live(t)
        /\ HasEntity(t, e.id) /\ t.toClient[e.id] = n
    BY <1>3, <2>1, <2>3, <2>5 DEF IsCreated, IsPlaced, HasEntity
  <2>10. /\ k.local[n].of = e.id /\ k.local[n].is = e.is /\ k.local[n].parent = ParentOf(r, e)
         /\ k.local[n].late = (~Exists(e.id) /\ n \notin Doomed(k, tcp))
    BY <1>4, <2>1 DEF IsCreated
  <2>11. \A m \in Live(k) : /\ t.local[m].of = k.local[m].of /\ t.local[m].is = k.local[m].is
                            /\ t.local[m].late = k.local[m].late /\ t.local[m].parent = k.local[m].parent
    BY <2>3, <2>5, <2>7, <2>10 DEF IsPlaced
  <2>12. Doomed(t, tcp) = Doomed(k, tcp)
    <3>1. Live(t) = Live(k)
      BY <2>9
    <3>2. \A m \in Live(k) : t.local[m].of = k.local[m].of /\ t.local[m].parent = k.local[m].parent
      BY <2>11
    <3> QED BY <3>1, <3>2, DoomedDependsOn, Zenon
  <2>13. /\ t.local[n].of = e.id /\ t.local[n].is = e.is /\ t.local[n].parent = ParentOf(r, e)
         /\ t.local[n].late = (~Exists(e.id) /\ n \notin Doomed(t, tcp))
    BY <2>9, <2>10, <2>11, <2>12
  <2>14. \A m \in Live(r) : /\ t.local[m].of = r.local[m].of /\ t.local[m].is = r.local[m].is
                            /\ t.local[m].late = r.local[m].late /\ t.local[m].parent = r.local[m].parent
    <3>1. \A m \in Live(r) : m \in Live(k) /\ k.local[m] = r.local[m]
      BY <1>3, <2>1 DEF IsCreated
    <3> QED BY <2>11, <3>1
  <2>15. t \in Work /\ Mirrors(t) /\ t.spawns = r.spawns /\ t.published = r.published
    BY <1>3, <2>1, <2>5 DEF IsCreated, IsPlaced
  <2>16. IsParsed(t, r, e, n)
    BY <2>8, <2>9, <2>13, <2>14, <2>15 DEF IsParsed
  <2> QED BY <2>16 DEF t
<1> QED BY <1>6, <1>7

(***************************************************************************)
(* What holds of the replica throughout the parsing of a message.          *)
(***************************************************************************)

(* What snapshots had of the entities of this session.                     *)
Shown == UNION worlds

(* n is a copy of e, below the copy of e's parent or of nothing. A weapon  *)
(* came with its player.                                                   *)
IsCopyOf(r, n, e) ==
  /\ e.id = r.local[n].of /\ e.is = r.local[n].is
  /\ \/ r.local[n].parent = EntityID_Invalid /\ e.is # "weapon"
     \/ r.local[n].parent \in Live(r) /\ r.local[r.local[n].parent].of = e.parent

IsCopyOfMap(r, n) ==
  /\ r.local[n].is = "map" /\ r.local[n].parent = EntityID_Invalid
  /\ r.local[n].of < nextID /\ r.local[n].of \notin Ids(Shown)

CopiesAreKnown(r) ==
  \A n \in Live(r) :
    /\ r.local[n].late => ~Exists(r.local[n].of)
    /\ IsCopyOfMap(r, n) \/ \E e \in Shown : IsCopyOf(r, n, e)

GhostsOf(r, messages) ==
  {n \in Live(r) : ~Exists(r.local[n].of) /\ ~r.local[n].late} \subseteq Doomed(r, messages)

DeathsAreTrue(r, dead) == \A a \in Live(r) : a \in dead => ~Exists(r.local[a].of)

Sane(r) ==
  /\ r \in Work /\ Mirrors(r) /\ CopiesAreKnown(r)
  /\ GhostsOf(r, tcp) /\ DeathsAreTrue(r, deaths \cup dying)

(* What snapshots have and had of an entity is the same.                   *)
KnownInv ==
  /\ Shown \in SUBSET EntityRecord
  /\ \A e, f \in Shown : e.id = f.id => e = f
  /\ \A e \in Shown : e.parent # e.id /\ e.is # "map"
  /\ \A e \in Shown : e.is = "weapon" => e.parent # EntityID_Invalid

(* What a message may say of an entity: what the snapshots know, or a map. *)
Told(e) ==
  \/ e \in Shown
  \/ \E k \in Nat : e = Entity(k, "map", EntityID_Invalid) /\ k < nextID /\ k \notin Ids(Shown)

(* Either everything is doomed, or what the condemned take with them.      *)
LEMMA DoomedIs ==
  ASSUME NEW r \in Work, NEW messages
  PROVE  /\ Condemned(r, messages) \in SUBSET Live(r)
         /\ IsFiniteSet(Live(r))
         /\ (\E i \in DOMAIN messages : messages[i] = RemoveWorld) => Doomed(r, messages) = Live(r)
         /\ (\A i \in DOMAIN messages : messages[i] # RemoveWorld) =>
              Doomed(r, messages) = Taken(r, Condemned(r, messages))
BY WorkIs DEF Doomed, Condemned, Taken

(* What is parsed leaves everything doomed that was.                       *)
LEMMA DoomedGrows ==
  ASSUME NEW r \in Work, NEW t \in Work, NEW messages,
         Live(r) \subseteq Live(t),
         \A n \in Live(r) : t.local[n].of = r.local[n].of,
         \A n \in Live(r) : r.local[n].parent \in Live(r) => t.local[n].parent = r.local[n].parent
  PROVE  Doomed(r, messages) \subseteq Doomed(t, messages)
<1>1. CASE \E i \in DOMAIN messages : messages[i] = RemoveWorld
  BY <1>1, DoomedIs
<1>2. CASE \A i \in DOMAIN messages : messages[i] # RemoveWorld
  <2>1. Condemned(r, messages) \subseteq Condemned(t, messages)
    BY DEF Condemned
  <2>2. Taken(r, Condemned(r, messages)) \subseteq Taken(t, Condemned(t, messages))
    BY <2>1, DoomedIs, TakenGrows
  <2> QED BY <1>2, <2>2, DoomedIs
<1> QED BY <1>1, <1>2

(* The parsing of one entity keeps the replica sane, when the parent of a  *)
(* weapon has been parsed.                                                 *)
LEMMA SaneStep ==
  ASSUME KnownInv, NEW r, Sane(r), NEW t, NEW e, NEW n, IsParsed(t, r, e, n), Told(e),
         e.is = "weapon" => HasEntity(r, e.parent)
  PROVE  Sane(t)
<1>1. r \in Work /\ Mirrors(r) /\ t \in Work /\ Mirrors(t)
  BY DEF Sane, IsParsed
<1>2. /\ e \in EntityRecord
      /\ e \notin Shown => /\ e.is = "map" /\ e.parent = EntityID_Invalid
                           /\ e.id < nextID /\ e.id \notin Ids(Shown)
  <2>1. CASE e \in Shown
    BY <2>1 DEF KnownInv
  <2>2. ASSUME NEW k \in Nat, e = Entity(k, "map", EntityID_Invalid), k < nextID, k \notin Ids(Shown)
        PROVE  /\ e \in EntityRecord /\ e.is = "map" /\ e.parent = EntityID_Invalid
               /\ e.id < nextID /\ e.id \notin Ids(Shown)
    <3>1. e = [id |-> k, is |-> "map", parent |-> -1]
      BY <2>2 DEF Entity, EntityID_Invalid
    <3>2. e \in EntityRecord
      BY <3>1 DEF EntityRecord, Kind
    <3> QED BY <2>2, <3>1, <3>2 DEF EntityID_Invalid
  <2> QED BY <2>1, <2>2 DEF Told
<1> DEFINE P == ParentOf(r, e)
<1>3. P # EntityID_Invalid => P \in Live(r) /\ r.local[P].of = e.parent
  BY <1>1, <1>2, ParentIs
<1>4. HasEntity(r, e.parent) => P # EntityID_Invalid
  BY <1>1, <1>2, ParentIs, WorkIs DEF EntityID_Invalid, HasEntity
<1>5. /\ Live(t) = Live(r) \cup {n} /\ t.local[n].of = e.id
      /\ \A m \in Live(r) : t.local[m].of = r.local[m].of /\ t.local[m].is = r.local[m].is /\ t.local[m].late = r.local[m].late
      /\ \A m \in Live(r) : m # n => t.local[m].parent = r.local[m].parent
      /\ n \in Live(r) => t.local[n].parent = IF P # EntityID_Invalid THEN P ELSE r.local[n].parent
      /\ n \notin Live(r) => /\ n \notin deaths \cup dying
                             /\ t.local[n].is = e.is
                             /\ t.local[n].parent = P
                             /\ t.local[n].late = (~Exists(e.id) /\ n \notin Doomed(t, tcp))
  <2>1. t.local[n].of = e.id
    BY <1>1, HasIs DEF IsParsed
  <2> QED BY <2>1 DEF IsParsed
<1> HIDE DEF P
(* The copy that was there is of the same entity.                          *)
<1>6. ASSUME n \in Live(r), e \in Shown
      PROVE  IsCopyOf(r, n, e)
  <2>1. r.local[n].of = e.id
    BY <1>5, <1>6
  <2>2. ~IsCopyOfMap(r, n)
    BY <1>6, <2>1 DEF IsCopyOfMap, Ids
  <2>3. PICK f \in Shown : IsCopyOf(r, n, f)
    BY <1>6, <2>2 DEF Sane, CopiesAreKnown
  <2>4. f = e
    BY <1>6, <2>1, <2>3 DEF IsCopyOf, KnownInv
  <2> QED BY <2>3, <2>4
<1>7. ASSUME e \notin Shown
      PROVE  P = EntityID_Invalid
  BY <1>2, <1>7 DEF P, ParentOf
(* A parent that is there stays.                                           *)
<1>8. ASSUME NEW m \in Live(r), r.local[m].parent \in Live(r)
      PROVE  t.local[m].parent = r.local[m].parent
  <2>1. CASE m # n \/ P = EntityID_Invalid
    BY <1>5, <2>1
  <2>2. CASE m = n /\ P # EntityID_Invalid
    <3>1. IsCopyOf(r, n, e)
      BY <1>6, <1>7, <2>2
    <3>2. r.local[n].parent \in Nat /\ r.local[r.local[n].parent].of = e.parent
      BY <1>1, <1>8, <2>2, <3>1, WorkIs DEF IsCopyOf, EntityID_Invalid
    <3>3. HasEntity(r, e.parent) /\ r.toClient[e.parent] = r.local[n].parent
      BY <1>1, <1>8, <2>2, <3>2, HasIs
    <3>4. P = r.local[n].parent
      BY <1>1, <1>2, <3>3, ParentIs DEF P
    <3> QED BY <1>5, <2>2, <3>4
  <2> QED BY <2>1, <2>2
<1>9. Doomed(r, tcp) \subseteq Doomed(t, tcp)
  BY <1>1, <1>5, <1>8, DoomedGrows
<1>10. GhostsOf(t, tcp)
  <2>1. SUFFICES ASSUME NEW m \in Live(t), ~Exists(t.local[m].of), ~t.local[m].late
                 PROVE  m \in Doomed(t, tcp)
    BY DEF GhostsOf
  <2>2. CASE m \in Live(r)
    <3>1. m \in Doomed(r, tcp)
      BY <1>5, <2>1, <2>2 DEF GhostsOf, Sane
    <3> QED BY <1>9, <3>1
  <2>3. CASE m \notin Live(r)
    BY <1>5, <2>1, <2>3
  <2> QED BY <2>2, <2>3
<1>11. DeathsAreTrue(t, deaths \cup dying)
  BY <1>5 DEF Sane, DeathsAreTrue
<1>12. ASSUME NEW m \in Live(t)
       PROVE  /\ t.local[m].late => ~Exists(t.local[m].of)
              /\ IsCopyOfMap(t, m) \/ \E f \in Shown : IsCopyOf(t, m, f)
  <2>1. t.local[m].late => ~Exists(t.local[m].of)
    BY <1>5 DEF Sane, CopiesAreKnown
  <2>2. CASE m = n /\ e \in Shown
    <3>1. CASE P # EntityID_Invalid
      <4>1. t.local[n].parent = P /\ P \in Live(t) /\ t.local[P].of = e.parent
        BY <1>3, <1>5, <3>1
      <4>2. t.local[n].is = e.is
        BY <1>5, <1>6, <2>2 DEF IsCopyOf
      <4>3. IsCopyOf(t, n, e)
        BY <1>5, <4>1, <4>2 DEF IsCopyOf
      <4> QED BY <2>1, <2>2, <4>3
    <3>2. CASE P = EntityID_Invalid
      <4>1. e.is # "weapon"
        BY <1>4, <3>2
      <4>2. CASE n \in Live(r)
        <5>1. t.local[n].parent = r.local[n].parent /\ IsCopyOf(r, n, e)
          BY <1>5, <1>6, <2>2, <3>2, <4>2
        <5>2. IsCopyOf(t, n, e)
          BY <1>5, <4>2, <5>1 DEF IsCopyOf
        <5> QED BY <2>1, <2>2, <5>2
      <4>3. CASE n \notin Live(r)
        <5>1. IsCopyOf(t, n, e)
          BY <1>5, <3>2, <4>1, <4>3 DEF IsCopyOf
        <5> QED BY <2>1, <2>2, <5>1
      <4> QED BY <4>2, <4>3
    <3> QED BY <3>1, <3>2
  <2>3. CASE m \in Live(r) /\ (m # n \/ e \notin Shown)
    <3>1. t.local[m].parent = r.local[m].parent
      BY <1>5, <1>7, <2>3
    <3>2. IsCopyOfMap(r, m) \/ \E f \in Shown : IsCopyOf(r, m, f)
      BY <2>3 DEF Sane, CopiesAreKnown
    <3>3. IsCopyOfMap(r, m) => IsCopyOfMap(t, m)
      BY <1>5, <2>3, <3>1 DEF IsCopyOfMap
    <3>4. \A f \in Shown : IsCopyOf(r, m, f) => IsCopyOf(t, m, f)
      BY <1>5, <2>3, <3>1 DEF IsCopyOf
    <3> QED BY <2>1, <3>2, <3>3, <3>4
  <2>4. CASE m = n /\ n \notin Live(r) /\ e \notin Shown
    <3>1. IsCopyOfMap(t, n)
      BY <1>2, <1>5, <1>7, <2>4 DEF IsCopyOfMap
    <3> QED BY <2>1, <2>4, <3>1
  <2> QED BY <1>5, <2>2, <2>3, <2>4
<1> QED BY <1>1, <1>10, <1>11, <1>12 DEF Sane, CopiesAreKnown

(* What begins in a set and goes from each to the next in a step stays in  *)
(* them.                                                                   *)
LEMMA StaysIn ==
  ASSUME NEW n \in Nat, NEW S, NEW f, f[0] \in S[0],
         \A i \in 1 .. n : f[i - 1] \in S[i - 1] => f[i] \in S[i]
  PROVE  \A i \in 0 .. n : f[i] \in S[i]
<1> DEFINE T == {i \in 0 .. n : f[i] \notin S[i]}
<1>1. ASSUME T # {} PROVE FALSE
  <2>1. T \in SUBSET Nat
    OBVIOUS
  <2> HIDE DEF T
  <2>2. PICK m \in T : \A l \in T : ~(l < m)
    BY <1>1, <2>1, LeastExists
  <2> USE DEF T
  <2>3. m # 0 /\ m \in 1 .. n /\ m - 1 \in 0 .. n /\ m - 1 < m
    BY <2>2
  <2>4. f[m - 1] \in S[m - 1]
    BY <2>2, <2>3
  <2> QED BY <2>2, <2>3, <2>4
<1> QED BY <1>1

(* What n steps make of s, after each of them.                             *)
Folded(f, s, step, n) ==
  f = [i \in 0 .. n |-> IF i = 0 THEN s ELSE step[<<f[i - 1], i>>]]

(* A fold is there, however many steps it has.                             *)
LEMMA FoldExists ==
  ASSUME NEW s, NEW step, NEW n \in Nat
  PROVE  \E f : Folded(f, s, step, n)
<1> DEFINE T == {m \in Nat : ~ \E f : Folded(f, s, step, m)}
<1>1. ASSUME T # {} PROVE FALSE
  <2>1. \E m \in T : \A l \in T : ~(l < m)
    <3>1. T \in SUBSET Nat
      OBVIOUS
    <3> HIDE DEF T
    <3> QED BY <1>1, <3>1, LeastExists
  <2>2. PICK m \in T : \A l \in T : ~(l < m)
    BY <2>1
  <2>3. CASE m = 0
    <3> DEFINE f == [i \in 0 .. 0 |-> s]
    <3>1. Folded(f, s, step, 0)
      BY DEF Folded
    <3> QED BY <2>2, <2>3, <3>1
  <2>4. CASE m # 0
    <3>1. m \in Nat /\ m - 1 \in Nat /\ m - 1 < m
      BY <2>2, <2>4
    <3>2. m - 1 \notin T
      BY <2>2, <3>1
    <3>3. PICK f : Folded(f, s, step, m - 1)
      BY <3>1, <3>2
    <3> HIDE DEF T
    <3> DEFINE g == [i \in 0 .. m |-> IF i < m THEN f[i] ELSE step[<<f[m - 1], m>>]]
    <3>4. ASSUME NEW i \in 0 .. m
          PROVE  g[i] = IF i = 0 THEN s ELSE step[<<g[i - 1], i>>]
      <4>1. CASE i < m
        <5>1. i \in 0 .. m - 1 /\ g[i] = f[i]
          BY <4>1, <3>1
        <5>2. f[i] = IF i = 0 THEN s ELSE step[<<f[i - 1], i>>]
          BY <5>1, <3>3 DEF Folded
        <5>3. i # 0 => g[i - 1] = f[i - 1]
          BY <4>1, <3>1
        <5> HIDE DEF g
        <5> QED BY <5>1, <5>2, <5>3
      <4>2. CASE i = m
        <5>1. i # 0 /\ g[i - 1] = f[i - 1]
          BY <4>2, <3>1
        <5>2. g[i] = step[<<f[m - 1], m>>]
          BY <4>2, <3>1
        <5> HIDE DEF g
        <5> QED BY <4>2, <5>1, <5>2
      <4> QED BY <4>1, <4>2, <3>1
    <3>5. Folded(g, s, step, m)
      <4>1. g = [i \in 0 .. m |-> g[i]]
        OBVIOUS
      <4> HIDE DEF g
      <4> QED BY <3>4, <4>1 DEF Folded
    <3>6. m \notin T
      BY <3>5 DEF T
    <3> QED BY <2>2, <3>6
  <2> QED BY <2>3, <2>4
<1> QED BY <1>1

(***************************************************************************)
(* A snapshot.                                                             *)
(***************************************************************************)

(* A snapshot tells what is known, and of a weapon after its player.       *)
Says(world) ==
  /\ IsFiniteSet(world)
  /\ \A e \in world : Told(e)
  /\ \A e, f \in world : e.id = f.id => e = f
  /\ \A e \in world : e.is = "weapon" => \E f \in world : f.id = e.parent /\ f.id < e.id

(* What a message tells of is an entity, and not its own parent.           *)
LEMMA ToldIs ==
  ASSUME KnownInv, NEW e, Told(e)
  PROVE  e \in EntityRecord /\ e.parent # e.id
<1>1. CASE e \in Shown
  BY <1>1 DEF KnownInv
<1>2. ASSUME NEW k \in Nat, e = Entity(k, "map", EntityID_Invalid)
      PROVE  e \in EntityRecord /\ e.parent # e.id
  <2>1. e = [id |-> k, is |-> "map", parent |-> -1]
    BY <1>2 DEF Entity, EntityID_Invalid
  <2>2. e \in EntityRecord
    BY <2>1 DEF EntityRecord, Kind
  <2>3. e.parent = -1 /\ e.id = k
    BY <2>1
  <2> QED BY <2>2, <2>3
<1> QED BY <1>1, <1>2 DEF Told

(* A finite world in the order of its numbers has every entity of it, and  *)
(* nothing else.                                                           *)
LEMMA InOrderIs ==
  ASSUME NEW world, IsFiniteSet(world), \A e \in world : e.id \in Nat,
         \A e, f \in world : e.id = f.id => e = f
  PROVE  /\ Cardinality(world) \in Nat
         /\ DOMAIN InOrder(world) = 1 .. Cardinality(world) /\ Len(InOrder(world)) = Cardinality(world)
         /\ \A i \in 1 .. Cardinality(world) : InOrder(world)[i] \in world
         /\ \A e \in world : \E i \in 1 .. Cardinality(world) : InOrder(world)[i] = e
         /\ \A i, j \in 1 .. Cardinality(world) : InOrder(world)[i].id < InOrder(world)[j].id => i < j
<1> DEFINE c == Cardinality(world)
           ids == Ids(world)
           o == InOrder(world)
<1>1. c \in Nat
  BY FS_CardinalityType
<1>2. ids \in SUBSET Nat /\ IsFiniteSet(ids) /\ Cardinality(ids) = c
  <2> DEFINE f == [e \in world |-> e.id]
  <2>1. f \in Surjection(world, ids) /\ f \in Injection(world, ids)
    BY DEF Ids, Surjection, Injection, IsInjective
  <2> HIDE DEF f
  <2>2. IsFiniteSet(ids) /\ (Cardinality(ids) = c <=> f \in Injection(world, ids))
    BY <2>1, FS_Surjection
  <2>3. ids \in SUBSET Nat
    BY DEF Ids
  <2> QED BY <2>1, <2>2, <2>3
<1>3. /\ \A i \in 1 .. c : Nth(ids, i) \in ids
      /\ \A n \in ids : \E i \in 1 .. c : Nth(ids, i) = n
      /\ \A i, j \in 1 .. c : i < j => Nth(ids, i) < Nth(ids, j)
  <2> HIDE DEF ids
  <2> QED BY <1>2, NthIs
<1>4. \A i \in 1 .. c : o[i] = CHOOSE e \in world : e.id = Nth(ids, i)
  BY DEF InOrder
<1>5. DOMAIN o = 1 .. c /\ Len(o) = c
  BY <1>1 DEF InOrder
<1>6. \A i \in 1 .. c : o[i] \in world /\ o[i].id = Nth(ids, i)
  <2>1. \A n \in ids : \E e \in world : e.id = n
    BY DEF Ids
  <2> HIDE DEF ids, o
  <2> QED BY <1>3, <1>4, <2>1
<1>7. ASSUME NEW e \in world
      PROVE  \E i \in 1 .. c : o[i] = e
  <2>1. e.id \in ids
    BY DEF Ids
  <2>2. PICK i \in 1 .. c : Nth(ids, i) = e.id
    BY <1>3, <2>1
  <2> HIDE DEF ids, o
  <2>3. o[i] \in world /\ o[i].id = e.id
    BY <1>6, <2>2
  <2> QED BY <2>3
<1>8. ASSUME NEW i \in 1 .. c, NEW j \in 1 .. c, o[i].id < o[j].id
      PROVE  i < j
  <2> HIDE DEF ids, o
  <2> DEFINE a == Nth(ids, i)
             b == Nth(ids, j)
  <2>1. a \in Nat /\ b \in Nat /\ a < b
    BY <1>2, <1>3, <1>6, <1>8
  <2>2. j < i => b < a
    BY <1>3
  <2>3. i = j => a = b
    OBVIOUS
  <2> HIDE DEF a, b
  <2> QED BY <1>1, <2>1, <2>2, <2>3
<1> QED BY <1>1, <1>5, <1>6, <1>7, <1>8

(* Nothing is lost while something is parsed.                              *)
Kept(t, r) ==
  /\ t.spawns = r.spawns /\ t.published = r.published
  /\ Live(r) \subseteq Live(t)
  /\ \A n \in Live(r) : /\ t.local[n].of = r.local[n].of /\ t.local[n].is = r.local[n].is
                        /\ t.local[n].late = r.local[n].late
  /\ \A s : HasEntity(r, s) => HasEntity(t, s) /\ t.toClient[s] = r.toClient[s]
  /\ \A n \in Live(t) : n \notin Live(r) => n \notin deaths \cup dying

(* What was kept by the parsing so far is kept by the parsing of one       *)
(* entity more.                                                            *)
LEMMA KeptStep ==
  ASSUME NEW q, NEW r, NEW t, NEW e, NEW n, Kept(r, q), IsParsed(t, r, e, n)
  PROVE  Kept(t, q) /\ HasEntity(t, e.id) /\ \A s : HasEntity(r, s) => HasEntity(t, s)
BY DEF Kept, IsParsed

(* The parsing of a whole snapshot keeps the replica sane, keeps every     *)
(* copy there was and gives every entity one. By the least index at which  *)
(* it would not.                                                           *)
LEMMA EntitiesAreParsed ==
  ASSUME KnownInv, OthersTyped, NEW r, Sane(r), NEW world, Says(world)
  PROVE  LET t == ParseEntities(r, InOrder(world)) IN
         Sane(t) /\ Kept(t, r) /\ \A e \in world : HasEntity(t, e.id)
<1> DEFINE o == InOrder(world)
           n == Len(o)
           Good(t, i) == Sane(t) /\ Kept(t, r) /\ \A j \in 1 .. i : HasEntity(t, o[j].id)
           S == [i \in 0 .. n |-> {t \in Work : Good(t, i)}]
           step == [x \in Work \X (1 .. n) |-> ParseEntity(x[1], o[x[2]])]
<1>1. /\ n \in Nat
      /\ \A i \in 1 .. n : o[i] \in world
      /\ \A e \in world : \E i \in 1 .. n : o[i] = e
      /\ \A i, j \in 1 .. n : o[i].id < o[j].id => i < j
  <2>1. \A e \in world : e.id \in Nat
    BY ToldIs DEF Says, EntityRecord
  <2> QED BY <2>1, InOrderIs DEF Says
<1> HIDE DEF o, n
<1>2. r \in S[0]
  <2>1. r \in Work /\ Good(r, 0)
    BY DEF Sane, Kept
  <2> HIDE DEF Good
  <2> QED BY <1>1, <2>1
<1>3. ASSUME NEW i \in 1 .. n, NEW t \in Work, Good(t, i - 1)
      PROVE  ParseEntity(t, o[i]) \in Work /\ Good(ParseEntity(t, o[i]), i)
  <2> DEFINE e == o[i]
             u == ParseEntity(t, e)
  <2>1. e \in world /\ Told(e) /\ e \in EntityRecord /\ e.parent # e.id
    BY <1>1, ToldIs DEF Says
  <2>2. Sane(t) /\ Kept(t, r) /\ \A j \in 1 .. i - 1 : HasEntity(t, o[j].id)
    BY <1>3
  <2> HIDE DEF Good
  <2>3. PICK m : IsParsed(u, t, e, m)
    <3> HIDE DEF e
    <3> QED BY <2>1, <2>2, ParsedIs DEF Sane
  <2>4. e.is = "weapon" => HasEntity(t, e.parent)
    <3>1. SUFFICES ASSUME e.is = "weapon" PROVE HasEntity(t, e.parent)
      OBVIOUS
    <3>2. PICK f \in world : f.id = e.parent /\ f.id < e.id
      BY <2>1, <3>1 DEF Says
    <3>3. PICK j \in 1 .. n : o[j] = f
      BY <1>1
    <3>4. j < i
      BY <1>1, <3>2, <3>3
    <3>5. j \in 1 .. i - 1
      BY <1>1, <3>4
    <3> QED BY <2>2, <3>2, <3>3, <3>5
  <2> HIDE DEF u, e
  <2>5. Sane(u)
    BY <2>1, <2>2, <2>3, <2>4, SaneStep
  <2>6. Kept(u, r) /\ HasEntity(u, e.id) /\ \A s : HasEntity(t, s) => HasEntity(u, s)
    BY <2>2, <2>3, KeptStep
  <2>7. \A j \in 1 .. i : HasEntity(u, o[j].id)
    <3>1. ASSUME NEW j \in 1 .. i PROVE HasEntity(u, o[j].id)
      <4>1. CASE j = i
        BY <2>6, <4>1 DEF e
      <4>2. CASE j # i
        <5>1. j \in 1 .. i - 1
          BY <4>2
        <5> QED BY <2>2, <2>6, <5>1
      <4> QED BY <4>1, <4>2
    <3> QED BY <3>1
  <2>8. u \in Work
    BY <2>5 DEF Sane
  <2> QED BY <2>5, <2>6, <2>7, <2>8 DEF Good, u, e
<1>4. \A i \in 1 .. n : \A t \in S[i - 1] : step[<<t, i>>] = ParseEntity(t, o[i]) /\ step[<<t, i>>] \in S[i]
  <2>1. ASSUME NEW i \in 1 .. n, NEW t \in S[i - 1]
        PROVE  step[<<t, i>>] = ParseEntity(t, o[i]) /\ step[<<t, i>>] \in S[i]
    <3>1. i - 1 \in 0 .. n /\ i \in 0 .. n
      BY <1>1
    <3>2. t \in Work /\ Good(t, i - 1)
      <4> HIDE DEF Good
      <4> QED BY <3>1
    <3>3. step[<<t, i>>] = ParseEntity(t, o[i])
      BY <3>2
    <3>4. ParseEntity(t, o[i]) \in Work /\ Good(ParseEntity(t, o[i]), i)
      BY <1>3, <3>2
    <3> HIDE DEF Good, step
    <3> QED BY <3>1, <3>3, <3>4
  <2> HIDE DEF S, step
  <2> QED BY <2>1
<1> DEFINE Solves(f) == f = [i \in 0 .. n |-> IF i = 0 THEN r ELSE ParseEntity(f[i - 1], o[i])]
<1>5. \E f : Solves(f)
  <2> HIDE DEF S, step
  <2>1. PICK f : Folded(f, r, step, n)
    BY <1>1, FoldExists
  <2>2. f[0] = r /\ \A i \in 1 .. n : f[i] = step[<<f[i - 1], i>>]
    BY <1>1, <2>1 DEF Folded
  <2>3. \A i \in 0 .. n : f[i] \in S[i]
    <3>1. \A i \in 1 .. n : f[i - 1] \in S[i - 1] => f[i] \in S[i]
      BY <1>4, <2>2
    <3> QED BY <1>1, <1>2, <2>2, <3>1, StaysIn
  <2>4. \A i \in 1 .. n : f[i] = ParseEntity(f[i - 1], o[i])
    <3>1. \A i \in 1 .. n : f[i - 1] \in S[i - 1]
      BY <1>1, <2>3
    <3> QED BY <1>4, <2>2, <3>1
  <2>5. Solves(f)
    <3>1. f = [i \in 0 .. n |-> f[i]]
      BY <2>1 DEF Folded
    <3>2. \A i \in 0 .. n : f[i] = IF i = 0 THEN r ELSE ParseEntity(f[i - 1], o[i])
      BY <1>1, <2>2, <2>4
    <3> QED BY <3>1, <3>2, Zenon
  <2> QED BY <2>5
<1> DEFINE g == CHOOSE f : Solves(f)
<1>6. Solves(g)
  <2> HIDE DEF Solves
  <2> QED BY <1>5
<1>7. ParseEntities(r, o) = g[n]
  BY DEF ParseEntities, n
<1>8. \A i \in 0 .. n : g[i] \in S[i]
  <2>1. g[0] = r /\ \A i \in 1 .. n : g[i] = ParseEntity(g[i - 1], o[i])
    <3> HIDE DEF g, S
    <3> QED BY <1>1, <1>6
  <2> HIDE DEF S, g, step
  <2>2. \A i \in 1 .. n : g[i - 1] \in S[i - 1] => g[i] \in S[i]
    BY <1>4, <2>1
  <2> QED BY <1>1, <1>2, <2>1, <2>2, StaysIn
<1>9. Good(g[n], n)
  <2> HIDE DEF g, Good
  <2>1. n \in 0 .. n
    BY <1>1
  <2> QED BY <1>8, <2>1
<1> HIDE DEF g
<1>10. Sane(g[n]) /\ Kept(g[n], r) /\ \A e \in world : HasEntity(g[n], e.id)
  BY <1>1, <1>9
<1> QED BY <1>7, <1>10 DEF o

(***************************************************************************)
(* The spawns that wait.                                                   *)
(***************************************************************************)

(* A function from 1 .. n is a sequence.                                   *)
LEMMA IsSequence ==
  ASSUME NEW S, NEW n \in Nat, NEW f, f = [k \in 1 .. n |-> f[k]],
         \A k \in 1 .. n : f[k] \in S
  PROVE  f \in Seq(S)
<1>1. f \in [1 .. n -> S]
  BY Zenon
<1> QED BY <1>1

(* A queue of spawns is a sequence of numbers with a flag.                 *)
LEMMA SpawnsAre ==
  ASSUME NEW list \in Spawns
  PROVE  /\ Len(list) \in Nat /\ DOMAIN list = 1 .. Len(list)
         /\ \A i \in DOMAIN list : list[i] \in Spawn /\ list[i].id \in Nat /\ list[i].stale \in BOOLEAN
<1>1. list \in Seq(Spawn)
  BY DEF Spawns
<1>2. Len(list) \in Nat /\ DOMAIN list = 1 .. Len(list) /\ \A i \in DOMAIN list : list[i] \in Spawn
  BY <1>1
<1>3. \A x \in Spawn : x.id \in Nat /\ x.stale \in BOOLEAN
  BY DEF Spawn
<1> QED BY <1>2, <1>3

(* The spawns at some places of the queue are those, in a queue.           *)
LEMMA SpawnsAtIs ==
  ASSUME NEW r \in Work, NEW places \in SUBSET DOMAIN r.spawns
  PROVE  /\ SpawnsAt(r, places) \in Spawns
         /\ \A k \in DOMAIN SpawnsAt(r, places) : \E i \in places : SpawnsAt(r, places)[k] = r.spawns[i]
         /\ \A i \in places : \E k \in DOMAIN SpawnsAt(r, places) : SpawnsAt(r, places)[k] = r.spawns[i]
<1> DEFINE c == Cardinality(places)
           u == SpawnsAt(r, places)
<1>1. /\ r.spawns \in Spawns /\ \A i \in DOMAIN r.spawns : r.spawns[i] \in Spawn
      /\ DOMAIN r.spawns = 1 .. Len(r.spawns) /\ Len(r.spawns) \in Nat
  BY WorkIs, SpawnsAre
<1>2. places \in SUBSET Nat /\ IsFiniteSet(places)
  <2>1. IsFiniteSet(1 .. Len(r.spawns))
    BY <1>1, FS_Interval
  <2>2. IsFiniteSet(DOMAIN r.spawns)
    BY <1>1, <2>1
  <2> QED BY <1>1, <2>2, FS_Subset
<1>3. /\ c \in Nat
      /\ \A k \in 1 .. c : Nth(places, k) \in places
      /\ \A i \in places : \E k \in 1 .. c : Nth(places, k) = i
  BY <1>2, NthIs
<1> HIDE DEF c
<1>4. DOMAIN u = 1 .. c /\ (\A k \in 1 .. c : u[k] = r.spawns[Nth(places, k)]) /\ u = [k \in 1 .. c |-> u[k]]
  BY DEF SpawnsAt, c
<1> HIDE DEF u
<1>5. \A k \in 1 .. c : u[k] \in Spawn
  BY <1>1, <1>3, <1>4
<1>6. u \in Spawns
  BY <1>3, <1>4, <1>5, IsSequence DEF Spawns
<1> QED BY <1>3, <1>4, <1>6 DEF u

(* Those the maps know are announced, the others wait on.                  *)
IsAnnounced(t, r, list) ==
  /\ t \in Work /\ Mirrors(t) /\ t.local = r.local
  /\ \A s : HasEntity(t, s) <=> HasEntity(r, s)
  /\ \A s : HasEntity(r, s) => t.toClient[s] = r.toClient[s]
  /\ \A k \in DOMAIN t.spawns : \E i \in DOMAIN r.spawns :
       t.spawns[k] = r.spawns[i] /\ ~HasEntity(r, r.spawns[i].id)
  /\ \A i \in DOMAIN r.spawns : ~HasEntity(r, r.spawns[i].id) =>
       \E k \in DOMAIN t.spawns : t.spawns[k] = r.spawns[i]
  /\ list \in Spawns /\ t.published = r.published \o list
  /\ \A k \in DOMAIN list : \E i \in DOMAIN r.spawns :
       /\ HasEntity(r, r.spawns[i].id)
       /\ list[k].id = r.toClient[r.spawns[i].id] /\ list[k].stale = r.spawns[i].stale
  /\ \A i \in DOMAIN r.spawns : HasEntity(r, r.spawns[i].id) => DOMAIN list # {}

(* What ParseSpawnEvents comes to: the spawns with a copy are announced    *)
(* under its number, the others wait on.                                   *)
LEMMA SpawnEventsAreParsed ==
  ASSUME NEW r \in Work, Mirrors(r)
  PROVE  \E list : IsAnnounced(ParseSpawnEvents(r), r, list)
<1> DEFINE known == {i \in DOMAIN r.spawns : HasEntity(r, r.spawns[i].id)}
           rest == DOMAIN r.spawns \ known
           those == SpawnsAt(r, known)
           left == SpawnsAt(r, rest)
           list == [k \in DOMAIN those |-> [those[k] EXCEPT !.id = r.toClient[@]]]
           a == Asked(r, {r.spawns[i].id : i \in DOMAIN r.spawns})
           t == ParseSpawnEvents(r)
<1>1. t = [a EXCEPT !.spawns = left, !.published = @ \o list]
  BY DEF ParseSpawnEvents
<1>2. IsAsked(a, r, {r.spawns[i].id : i \in DOMAIN r.spawns})
  BY AskedIs
<1>3. /\ those \in Spawns
      /\ \A k \in DOMAIN those : \E i \in known : those[k] = r.spawns[i]
      /\ \A i \in known : \E k \in DOMAIN those : those[k] = r.spawns[i]
  <2>1. known \in SUBSET DOMAIN r.spawns
    OBVIOUS
  <2> HIDE DEF known
  <2> QED BY <2>1, SpawnsAtIs
<1>4. /\ left \in Spawns
      /\ \A k \in DOMAIN left : \E i \in rest : left[k] = r.spawns[i]
      /\ \A i \in rest : \E k \in DOMAIN left : left[k] = r.spawns[i]
  <2>1. rest \in SUBSET DOMAIN r.spawns
    OBVIOUS
  <2> HIDE DEF rest
  <2> QED BY <2>1, SpawnsAtIs
<1> HIDE DEF those, left, a
<1>5. /\ DOMAIN those = 1 .. Len(those) /\ Len(those) \in Nat
      /\ \A k \in DOMAIN those : those[k] \in Spawn
  BY <1>3, SpawnsAre
<1>6. ASSUME NEW k \in DOMAIN those
      PROVE  /\ \E i \in DOMAIN r.spawns :
                  /\ HasEntity(r, r.spawns[i].id)
                  /\ list[k].id = r.toClient[r.spawns[i].id] /\ list[k].stale = r.spawns[i].stale
             /\ list[k] \in Spawn
  <2>1. PICK i \in known : those[k] = r.spawns[i]
    BY <1>3
  <2>2. list[k] = [those[k] EXCEPT !.id = r.toClient[those[k].id]]
    OBVIOUS
  <2>3. those[k] \in Spawn
    BY <1>5
  <2>4. list[k].id = r.toClient[those[k].id] /\ list[k].stale = those[k].stale
    BY <2>2, <2>3 DEF Spawn
  <2>5. r.toClient[those[k].id] \in Nat
    BY <2>1, WorkIs DEF HasEntity
  <2>6. list[k] \in Spawn
    BY <2>2, <2>3, <2>5 DEF Spawn
  <2> HIDE DEF list
  <2> QED BY <2>1, <2>4, <2>6
<1>7. DOMAIN list = DOMAIN those /\ list = [k \in 1 .. Len(those) |-> list[k]]
  BY <1>5
<1> HIDE DEF list
<1>8. list \in Spawns
  BY <1>5, <1>6, <1>7, IsSequence DEF Spawns
<1>9. /\ a \in Work /\ Mirrors(a) /\ a.local = r.local /\ a.published = r.published
      /\ \A s : HasEntity(a, s) <=> HasEntity(r, s)
      /\ \A s : HasEntity(r, s) => a.toClient[s] = r.toClient[s]
  BY <1>2 DEF IsAsked
<1>10. r.published \o list \in Spawns
  BY <1>8, WorkIs DEF Spawns
<1> HIDE DEF t
<1>11. /\ t \in Work /\ t.local = r.local /\ t.toClient = a.toClient /\ t.toServer = a.toServer
       /\ t.spawns = left /\ t.published = r.published \o list
  BY <1>1, <1>4, <1>9, <1>10 DEF Work
<1>12. Live(t) = Live(a)
  BY <1>9, <1>11 DEF Live
<1>13. Mirrors(t)
  BY <1>9, <1>11, <1>12 DEF Mirrors
<1>14. \A s : HasEntity(t, s) <=> HasEntity(r, s)
  BY <1>9, <1>11, <1>12 DEF HasEntity
<1>15. \A s : HasEntity(r, s) => t.toClient[s] = r.toClient[s]
  BY <1>9, <1>11
<1>16. \A i \in DOMAIN r.spawns : HasEntity(r, r.spawns[i].id) => DOMAIN list # {}
  BY <1>3, <1>7
<1>17. /\ \A k \in DOMAIN t.spawns : \E i \in DOMAIN r.spawns :
            t.spawns[k] = r.spawns[i] /\ ~HasEntity(r, r.spawns[i].id)
       /\ \A i \in DOMAIN r.spawns : ~HasEntity(r, r.spawns[i].id) =>
            \E k \in DOMAIN t.spawns : t.spawns[k] = r.spawns[i]
  BY <1>4, <1>11
<1>18. \A k \in DOMAIN list : \E i \in DOMAIN r.spawns :
       /\ HasEntity(r, r.spawns[i].id)
       /\ list[k].id = r.toClient[r.spawns[i].id] /\ list[k].stale = r.spawns[i].stale
  BY <1>6, <1>7
<1>19. IsAnnounced(t, r, list)
  BY <1>8, <1>11, <1>13, <1>14, <1>15, <1>16, <1>17, <1>18 DEF IsAnnounced
<1> QED BY <1>19 DEF t

(* To announce spawns keeps the replica sane.                              *)
LEMMA AnnouncedIsSane ==
  ASSUME NEW r, Sane(r), NEW t, NEW list, IsAnnounced(t, r, list)
  PROVE  Sane(t)
<1>1. t.local = r.local /\ Live(t) = Live(r) /\ t \in Work /\ Mirrors(t)
  BY DEF IsAnnounced, Live
<1>2. Doomed(t, tcp) = Doomed(r, tcp)
  BY <1>1, DoomedDependsOn
<1> QED BY <1>1, <1>2 DEF Sane, CopiesAreKnown, IsCopyOf, IsCopyOfMap, GhostsOf, DeathsAreTrue

(***************************************************************************)
(* Deletions.                                                              *)
(***************************************************************************)
IsDeleted(t, r, gone) ==
  /\ t \in Work /\ Mirrors(t) /\ gone \in SUBSET Live(r) /\ ClosedIn(r, gone)
  /\ t.spawns = r.spawns /\ t.published = r.published
  /\ Live(t) = Live(r) \ gone
  /\ \A n \in Live(t) : t.local[n] = r.local[n]
  /\ \A s \in DOMAIN t.toClient : s \in DOMAIN r.toClient /\ t.toClient[s] = r.toClient[s]

(* The deletion of some copies takes what is below them with them, and     *)
(* nothing else (DeleteEntity in World.cpp).                               *)
LEMMA DeletedIs ==
  ASSUME NEW r \in Work, Mirrors(r), NEW ns
  PROVE  /\ IsDeleted(DeleteEntities(r, ns), r, Taken(r, ns \cap Live(r)))
         /\ DeleteEntities(r, ns).toClient = r.toClient
<1> DEFINE gone == Taken(r, ns \cap Live(r))
           t == DeleteEntities(r, ns)
<1>1. gone \in SUBSET Live(r) /\ ClosedIn(r, gone)
  <2>1. ns \cap Live(r) \in SUBSET Live(r) /\ IsFiniteSet(Live(r))
    BY WorkIs
  <2> QED BY <2>1, TakenIs
<1>2. t = [r EXCEPT !.local = Restricted(r.local, Live(r) \ gone)]
  BY DEF DeleteEntities, Taken
<1> HIDE DEF gone, t
<1> DEFINE l == Restricted(r.local, Live(r) \ gone)
<1>3. /\ l \in LocalEntities /\ DOMAIN l = Live(r) \ gone
      /\ \A n \in Live(r) \ gone : l[n] = r.local[n]
  <2>1. r.local \in Maps(Nat, LocalEntity) /\ Live(r) \ gone \subseteq DOMAIN r.local
    BY WorkIs DEF LocalEntities, Live
  <2> QED BY <2>1, RestrictedIs DEF LocalEntities
<1> HIDE DEF l
<1>4. /\ t \in Work /\ t.local = l /\ t.toClient = r.toClient /\ t.toServer = r.toServer
      /\ t.spawns = r.spawns /\ t.published = r.published
  BY <1>2, <1>3 DEF Work, l
<1>5. Live(t) = Live(r) \ gone
  BY <1>3, <1>4 DEF Live
<1>6. Mirrors(t)
  BY <1>3, <1>4, <1>5 DEF Mirrors
<1>7. IsDeleted(t, r, gone) /\ t.toClient = r.toClient
  BY <1>1, <1>3, <1>4, <1>5, <1>6 DEF IsDeleted
<1> QED BY <1>7 DEF t, gone

(* The operators of the replica's properties, of any state around it.      *)
CondemnedBy(r, messages, dead) ==
  {a \in Live(r) : a \in dead \/ \E i \in DOMAIN messages : messages[i] = Deleted(r.local[a].of)}

DoomedBy(r, messages, dead) ==
  IF \E i \in DOMAIN messages : messages[i] = RemoveWorld
    THEN Live(r) ELSE Taken(r, CondemnedBy(r, messages, dead))

GhostsBy(r, messages, dead, ids) ==
  \A n \in Live(r) : r.local[n].of \notin ids /\ ~r.local[n].late => n \in DoomedBy(r, messages, dead)

(* What is doomed, with the messages and the dead as parameters.           *)
LEMMA DoomedByIs == \A r, messages : Doomed(r, messages) = DoomedBy(r, messages, deaths \cup dying)
  BY DEF Doomed, DoomedBy, Condemned, CondemnedBy, Taken

(* What is said of ghosts, with the messages and the dead as parameters.   *)
LEMMA GhostsByIs == \A r, messages : GhostsOf(r, messages) <=> GhostsBy(r, messages, deaths \cup dying, Ids(server))
  BY DoomedByIs DEF GhostsOf, GhostsBy, Exists

(* What is left after a deletion is doomed by what is left to doom it.     *)
LEMMA DoomedIsLeft ==
  ASSUME NEW r \in Work, NEW t, NEW gone, IsDeleted(t, r, gone),
         NEW messages, NEW dead, NEW messages2, NEW dead2, NEW ids,
         GhostsBy(r, messages, dead, ids),
         CondemnedBy(r, messages, dead) \subseteq CondemnedBy(t, messages2, dead2) \cup gone,
         (\E i \in DOMAIN messages : messages[i] = RemoveWorld) =>
            \E i \in DOMAIN messages2 : messages2[i] = RemoveWorld
  PROVE  GhostsBy(t, messages2, dead2, ids)
<1>1. SUFFICES ASSUME NEW n \in Live(t), t.local[n].of \notin ids, ~t.local[n].late
               PROVE  n \in DoomedBy(t, messages2, dead2)
  BY DEF GhostsBy
<1>2. n \in Live(r) /\ n \notin gone /\ r.local[n] = t.local[n] /\ n \in DoomedBy(r, messages, dead)
  BY <1>1 DEF IsDeleted, GhostsBy
<1>3. CASE \E i \in DOMAIN messages2 : messages2[i] = RemoveWorld
  BY <1>1, <1>3 DEF DoomedBy
<1>4. CASE ~ \E i \in DOMAIN messages2 : messages2[i] = RemoveWorld
  <2>1. n \in Taken(r, CondemnedBy(r, messages, dead))
    BY <1>2, <1>4 DEF DoomedBy
  <2>2. IsFiniteSet(Live(r)) /\ IsFiniteSet(Live(t))
    BY WorkIs DEF IsDeleted
  <2>3. /\ CondemnedBy(r, messages, dead) \in SUBSET Live(r)
        /\ CondemnedBy(t, messages2, dead2) \in SUBSET Live(t)
    BY DEF CondemnedBy
  <2>4. \A m \in Live(t) : t.local[m].parent = r.local[m].parent
    BY DEF IsDeleted
  <2>5. gone \in SUBSET Live(r) /\ ClosedIn(r, gone) /\ Live(t) = Live(r) \ gone
    BY DEF IsDeleted
  <2>6. Taken(r, CondemnedBy(r, messages, dead)) \subseteq Taken(t, CondemnedBy(t, messages2, dead2)) \cup gone
    BY <2>2, <2>3, <2>4, <2>5, TakenIsLeft
  <2> QED BY <1>2, <1>4, <2>1, <2>6 DEF DoomedBy
<1> QED BY <1>3, <1>4

(***************************************************************************)
(* The invariant.                                                          *)
(***************************************************************************)
Message ==
  UNION {{Snapshot({Entity(k, "map", EntityID_Invalid)}) : k \in Nat},
         {Spawned(s) : s \in Nat}, {Deleted(s) : s \in Nat}, {RemoveWorld}}

Messages == Seq(Message)

(* What snapshots had of an entity they always had. A player has no        *)
(* parent, a weapon a player, and a pickup a map, which no snapshot has.   *)
KnownIs(known, next) ==
  /\ known \in SUBSET EntityRecord
  /\ \A e, f \in known : e.id = f.id => e = f
  /\ \A e \in known : e.id < next /\ e.is # "map"
  /\ \A e \in known : IsPlayer(e.is) => e.parent = EntityID_Invalid
  /\ \A e \in known : e.is = "weapon" =>
       \E f \in known : f.id = e.parent /\ IsPlayer(f.is) /\ f.id < e.id
  /\ \A e \in known : e.is = "pickup" => e.parent \in Nat /\ e.parent < next /\ e.parent \notin Ids(known)

(* The world of the server, all of which snapshots had but the maps.       *)
ServerIs(world, known, next, in) ==
  /\ world \in SUBSET EntityRecord /\ IsFiniteSet(world)
  /\ \A e, f \in world : e.id = f.id => e = f
  /\ \A e \in world : e.id < next
  /\ \A e \in world : e.is = "map" => e.parent = EntityID_Invalid /\ e.id \notin Ids(known)
  /\ in => \A e \in world : e.is # "map" => e \in known
  /\ \A e \in world : e.parent # EntityID_Invalid => e.parent \in Ids(world)

WorldsAre(snapshots) ==
  \A world \in snapshots :
    /\ IsFiniteSet(world)
    /\ \A e \in world : e.is = "weapon" => \E f \in world : f.id = e.parent /\ f.id < e.id

(* What is announced as deleted is, and a map is in no snapshot.           *)
IsMessage(m, known, ids, next) ==
  \/ \E k \in Nat : m = Snapshot({Entity(k, "map", EntityID_Invalid)}) /\ k < next /\ k \notin Ids(known)
  \/ \E s \in Nat : m = Spawned(s) /\ \E e \in known : e.id = s /\ e.is = "self"
  \/ \E s \in Nat : m = Deleted(s) /\ s < next /\ s \notin ids
  \/ m = RemoveWorld

MessagesAre(messages, known, ids, next) ==
  messages \in Messages /\ \A i \in DOMAIN messages : IsMessage(messages[i], known, ids, next)

(* CopiesAreKnown and Sane, of any state around the replica.               *)
CopiesBy(r, known, ids, next) ==
  \A n \in Live(r) :
    /\ r.local[n].late => r.local[n].of \notin ids
    /\ \/ /\ r.local[n].is = "map" /\ r.local[n].parent = EntityID_Invalid
          /\ r.local[n].of < next /\ r.local[n].of \notin Ids(known)
       \/ \E e \in known : IsCopyOf(r, n, e)

SaneBy(r, known, ids, next, messages, dead) ==
  /\ r \in Work /\ Mirrors(r)
  /\ CopiesBy(r, known, ids, next)
  /\ GhostsBy(r, messages, dead, ids)
  /\ \A a \in Live(r) : a \in dead => r.local[a].of \notin ids

ReplicaInv ==
  /\ nextID \in Nat /\ joined \in BOOLEAN
  /\ OthersTyped /\ localPlayer \in [id : Int, stale : BOOLEAN]
  /\ KnownIs(Shown, nextID) /\ ServerIs(server, Shown, nextID, joined) /\ WorldsAre(worlds)
  /\ MessagesAre(tcp, Shown, Ids(server), nextID)
  /\ SaneBy(replica, Shown, Ids(server), nextID, tcp, deaths \cup dying)
  /\ ~joined => worlds = {} /\ tcp = <<>> /\ Live(replica) = {}

(* What is kept during the parsing of a message is what ReplicaInv says of *)
(* the replica.                                                            *)
LEMMA SaneIs == \A r : Sane(r) <=> SaneBy(r, Shown, Ids(server), nextID, tcp, deaths \cup dying)
<1>1. \A r : CopiesAreKnown(r) <=> CopiesBy(r, Shown, Ids(server), nextID)
  BY DEF CopiesAreKnown, CopiesBy, Exists, IsCopyOfMap
<1>2. \A r : DeathsAreTrue(r, deaths \cup dying) <=>
             \A a \in Live(r) : a \in deaths \cup dying => r.local[a].of \notin Ids(server)
  BY DEF DeathsAreTrue, Exists
<1> QED BY <1>1, <1>2, GhostsByIs DEF Sane, SaneBy

(* What ReplicaInv says of the snapshots' entities is enough for the       *)
(* parsing.                                                                *)
LEMMA IsKnown ==
  ASSUME KnownIs(Shown, nextID)
  PROVE  KnownInv
<1>1. ASSUME NEW e \in Shown
      PROVE  e.parent # e.id /\ (e.is = "weapon" => e.parent # EntityID_Invalid)
  <2>1. e \in EntityRecord /\ e.is # "map"
    BY DEF KnownIs
  <2>2. e.is \in Kind /\ e.id \in Nat
    BY <2>1 DEF EntityRecord
  <2>3. CASE e.is = "weapon"
    <3>1. PICK f \in Shown : f.id = e.parent /\ f.id < e.id
      BY <2>3 DEF KnownIs
    <3>2. f.id \in Nat
      BY DEF KnownIs, EntityRecord
    <3> QED BY <2>2, <3>1, <3>2 DEF EntityID_Invalid
  <2>4. CASE IsPlayer(e.is)
    BY <2>2, <2>4 DEF KnownIs, EntityID_Invalid, IsPlayer
  <2>5. CASE e.is = "pickup"
    BY <2>5 DEF KnownIs, Ids
  <2> QED BY <2>1, <2>2, <2>3, <2>4, <2>5 DEF Kind, IsPlayer
<1> QED BY <1>1 DEF KnownIs, KnownInv

(* A snapshot has what it takes to be parsed: the parent of a weapon comes *)
(* before it.                                                              *)
LEMMA SnapshotsSay ==
  ASSUME KnownIs(Shown, nextID), WorldsAre(worlds), NEW world \in worlds
  PROVE  Says(world)
<1>1. world \subseteq Shown
  BY DEF Shown
<1> QED BY <1>1 DEF Says, Told, KnownIs, WorldsAre

(* A message, by its kind.                                                 *)
LEMMA MessageIs ==
  ASSUME NEW m, NEW known, NEW ids, NEW next, IsMessage(m, known, ids, next)
  PROVE  /\ m.is \in {"Snapshot", "OnPlayerSpawned", "EntityDeleted", "RemoveWorld"}
         /\ m.is = "Snapshot" => \E k \in Nat : m.world = {Entity(k, "map", EntityID_Invalid)} /\ k < next /\ k \notin Ids(known)
         /\ m.is = "OnPlayerSpawned" => m.id \in Nat /\ m = Spawned(m.id) /\ \E e \in known : e.id = m.id /\ e.is = "self"
         /\ m.is = "EntityDeleted" => m.id \in Nat /\ m = Deleted(m.id) /\ m.id < next /\ m.id \notin ids
         /\ m.is = "RemoveWorld" => m = RemoveWorld
         /\ \A s : m = Deleted(s) => m.is = "EntityDeleted" /\ m.id = s
         /\ m = RemoveWorld => m.is = "RemoveWorld"
<1>1. CASE \E k \in Nat : m = Snapshot({Entity(k, "map", EntityID_Invalid)}) /\ k < next /\ k \notin Ids(known)
  <2>1. PICK k \in Nat : m = Snapshot({Entity(k, "map", EntityID_Invalid)}) /\ k < next /\ k \notin Ids(known)
    BY <1>1
  <2>2. m.is = "Snapshot" /\ m.world = {Entity(k, "map", EntityID_Invalid)}
    BY <2>1 DEF Snapshot
  <2>3. \A s : Deleted(s).is = "EntityDeleted"
    BY DEF Deleted
  <2>4. RemoveWorld.is = "RemoveWorld"
    BY DEF RemoveWorld
  <2> QED BY <2>1, <2>2, <2>3, <2>4
<1>2. CASE \E s \in Nat : m = Spawned(s) /\ \E e \in known : e.id = s /\ e.is = "self"
  BY <1>2 DEF Spawned, Deleted, RemoveWorld
<1>3. CASE \E s \in Nat : m = Deleted(s) /\ s < next /\ s \notin ids
  BY <1>3 DEF Deleted, RemoveWorld
<1>4. CASE m = RemoveWorld
  BY <1>4 DEF Deleted, RemoveWorld
<1> QED BY <1>1, <1>2, <1>3, <1>4 DEF IsMessage

(* A message the server sent is a message.                                 *)
LEMMA MessageIsTyped ==
  ASSUME NEW m, NEW known, NEW ids, NEW next, IsMessage(m, known, ids, next)
  PROVE  m \in Message
BY DEF IsMessage, Message

(***************************************************************************)
(* The server.                                                             *)
(***************************************************************************)

(* The stream with more messages behind it.                                *)
LEMMA MoreMessages ==
  ASSUME NEW messages \in Messages, NEW more \in Messages
  PROVE  /\ messages \o more \in Messages
         /\ DOMAIN messages \subseteq DOMAIN (messages \o more)
         /\ \A i \in DOMAIN messages : (messages \o more)[i] = messages[i]
         /\ \A i \in DOMAIN more : /\ Len(messages) + i \in DOMAIN (messages \o more)
                                   /\ (messages \o more)[Len(messages) + i] = more[i]
         /\ \A k \in DOMAIN (messages \o more) :
              \/ k \in DOMAIN messages /\ (messages \o more)[k] = messages[k]
              \/ \E i \in DOMAIN more : (messages \o more)[k] = more[i] /\ k = Len(messages) + i
<1> DEFINE all == messages \o more
<1>1. /\ DOMAIN messages \subseteq DOMAIN all
      /\ \A i \in DOMAIN messages : all[i] = messages[i]
  BY DEF Messages
<1>2. \A i \in DOMAIN more : Len(messages) + i \in DOMAIN all /\ all[Len(messages) + i] = more[i]
  BY DEF Messages
<1>3. ASSUME NEW k \in DOMAIN all
      PROVE  \/ k \in DOMAIN messages /\ all[k] = messages[k]
             \/ \E i \in DOMAIN more : all[k] = more[i] /\ k = Len(messages) + i
  <2>1. k \in DOMAIN messages \/ k - Len(messages) \in DOMAIN more
    BY DEF Messages
  <2>2. CASE k - Len(messages) \in DOMAIN more
    <3>1. all[k] = more[k - Len(messages)] /\ k = Len(messages) + (k - Len(messages))
      BY <2>2 DEF Messages
    <3> HIDE DEF all
    <3> QED BY <2>2, <3>1
  <2> HIDE DEF all
  <2> QED BY <1>1, <2>1, <2>2
<1>4. all \in Messages
  BY DEF Messages
<1> HIDE DEF all
<1> QED BY <1>1, <1>2, <1>3, <1>4 DEF all

(* What more messages doom is more.                                        *)
LEMMA DoomedByMore ==
  ASSUME NEW r \in Work, NEW messages \in Messages, NEW more \in Messages, NEW dead
  PROVE  DoomedBy(r, messages, dead) \subseteq DoomedBy(r, messages \o more, dead)
<1> DEFINE all == messages \o more
<1>1. /\ DOMAIN messages \subseteq DOMAIN all
      /\ \A i \in DOMAIN messages : all[i] = messages[i]
  BY MoreMessages
<1> HIDE DEF all
<1>2. CondemnedBy(r, messages, dead) \subseteq CondemnedBy(r, all, dead)
  BY <1>1 DEF CondemnedBy
<1>3. CondemnedBy(r, messages, dead) \in SUBSET Live(r) /\ CondemnedBy(r, all, dead) \in SUBSET Live(r)
  BY DEF CondemnedBy
<1>4. IsFiniteSet(Live(r))
  BY WorkIs
<1>5. /\ Taken(r, CondemnedBy(r, messages, dead)) \subseteq Taken(r, CondemnedBy(r, all, dead))
      /\ Taken(r, CondemnedBy(r, messages, dead)) \subseteq Live(r)
  <2>1. \A n \in Live(r) : r.local[n].parent \in Live(r) => r.local[n].parent = r.local[n].parent
    OBVIOUS
  <2> QED BY <1>2, <1>3, <1>4, <2>1, TakenGrows, TakenIs
<1>6. DoomedBy(r, messages, dead) \subseteq DoomedBy(r, all, dead)
  BY <1>1, <1>5 DEF DoomedBy
<1> QED BY <1>6 DEF all

(* What the server adds has numbers of its own, and a parent among what    *)
(* there is.                                                               *)
IsAdded(added, next) ==
  /\ added \in SUBSET EntityRecord /\ IsFiniteSet(added)
  /\ \A e \in added : nextID <= e.id /\ e.id < next
  /\ \A e, f \in added : e.id = f.id => e = f
  /\ \A e \in added : e.is = "map" \/ IsPlayer(e.is) => e.parent = EntityID_Invalid
  /\ \A e \in added : e.is = "weapon" => \E f \in added : f.id = e.parent /\ IsPlayer(f.is) /\ f.id < e.id
  /\ \A e \in added : e.is = "pickup" => \E f \in server : f.is = "map" /\ e.parent = f.id

(* What the snapshots had grows by the entities that are added, and stays  *)
(* one thing per number.                                                   *)
LEMMA KnownGrows ==
  ASSUME ReplicaInv, joined, NEW next \in Nat, nextID <= next, NEW added, IsAdded(added, next)
  PROVE  KnownIs(Shown \cup Networked(added), next)
<1> DEFINE known == Shown \cup Networked(added)
<1>1. KnownIs(Shown, nextID) /\ nextID \in Nat /\ ServerIs(server, Shown, nextID, joined)
  BY DEF ReplicaInv
<1>2. /\ \A e \in Shown : e \in EntityRecord /\ e.id \in Nat /\ e.id < nextID
      /\ \A e \in added : e \in EntityRecord /\ e.id \in Nat /\ nextID <= e.id /\ e.id < next
  BY <1>1 DEF KnownIs, IsAdded, EntityRecord
<1>3. Networked(added) \subseteq added /\ \A e \in added : e \in Networked(added) <=> e.is # "map"
  BY DEF Networked
<1>4. known \in SUBSET EntityRecord
  BY <1>2, <1>3
<1>5. \A e, f \in known : e.id = f.id => e = f
  <2>1. \A e \in Shown : \A f \in added : e.id # f.id
    BY <1>1, <1>2
  <2> QED BY <1>1, <1>3, <2>1 DEF KnownIs, IsAdded
<1>6. \A e \in known : e.id < next /\ e.is # "map"
  <2>1. \A e \in Shown : e.id < next
    BY <1>1, <1>2
  <2> QED BY <1>1, <1>2, <1>3, <2>1 DEF KnownIs
<1>7. \A e \in known : IsPlayer(e.is) => e.parent = EntityID_Invalid
  BY <1>1, <1>3 DEF KnownIs, IsAdded
<1>8. ASSUME NEW e \in known, e.is = "weapon"
      PROVE  \E f \in known : f.id = e.parent /\ IsPlayer(f.is) /\ f.id < e.id
  <2>1. CASE e \in Shown
    BY <1>1, <1>8, <2>1 DEF KnownIs
  <2>2. CASE e \in added
    <3>1. PICK f \in added : f.id = e.parent /\ IsPlayer(f.is) /\ f.id < e.id
      BY <1>8, <2>2 DEF IsAdded
    <3>2. f \in known
      BY <1>3, <3>1 DEF IsPlayer
    <3> QED BY <3>1, <3>2
  <2> QED BY <1>3, <2>1, <2>2
<1>9. ASSUME NEW e \in known, e.is = "pickup"
      PROVE  e.parent \in Nat /\ e.parent < next /\ e.parent \notin Ids(known)
  <2>1. e.parent \in Nat /\ e.parent < nextID /\ e.parent \notin Ids(Shown)
    <3>1. CASE e \in Shown
      BY <1>1, <1>9, <3>1 DEF KnownIs
    <3>2. CASE e \in added
      <4>1. PICK f \in server : f.is = "map" /\ e.parent = f.id
        BY <1>9, <3>2 DEF IsAdded
      <4> QED BY <1>1, <4>1 DEF ServerIs, EntityRecord
    <3> QED BY <1>3, <3>1, <3>2
  <2>2. \A f \in added : f.id # e.parent
    BY <1>1, <1>2, <2>1
  <2> QED BY <1>1, <1>3, <2>1, <2>2 DEF Ids
<1> HIDE DEF known
<1>10. KnownIs(known, next)
  BY <1>4, <1>5, <1>6, <1>7, <1>8, <1>9 DEF KnownIs
<1> QED BY <1>10 DEF known

(* A change of the server's world keeps the invariant if what it takes     *)
(* away is announced.                                                      *)
LEMMA BecomesKeeps ==
  ASSUME ReplicaInv, NEW world, NEW next \in Nat, NEW messages \in Messages, NEW added,
         Becomes(world, next, messages), nextID <= next, IsAdded(added, next),
         world \in SUBSET (server \cup added), added \subseteq world,
         \A e \in world : e.parent # EntityID_Invalid => e.parent \in Ids(world),
         \A i \in DOMAIN messages : IsMessage(messages[i], Shown \cup Networked(added), Ids(world), next),
         \A n \in Live(replica) : replica.local[n].of \in Ids(server) /\ replica.local[n].of \notin Ids(world) =>
           n \in DoomedBy(replica, tcp \o messages, deaths \cup dying)
  PROVE  ReplicaInv'
<1> DEFINE known == Shown \cup Networked(added)
           dead == deaths \cup dying
<1>1. /\ nextID \in Nat /\ KnownIs(Shown, nextID) /\ ServerIs(server, Shown, nextID, joined) /\ WorldsAre(worlds)
      /\ MessagesAre(tcp, Shown, Ids(server), nextID)
      /\ SaneBy(replica, Shown, Ids(server), nextID, tcp, dead)
  BY DEF ReplicaInv
<1>2. /\ joined /\ server' = world /\ nextID' = next /\ tcp' = tcp \o messages
      /\ worlds' = worlds \cup {Networked(world)}
      /\ joined' = joined /\ replica' = replica /\ deaths' = deaths /\ dying' = dying /\ localPlayer' = localPlayer
  BY DEF Becomes
<1>3. \A e \in world : e.is # "map" => e \in known
  <2>1. \A e \in server : e.is # "map" => e \in Shown
    BY <1>1, <1>2 DEF ServerIs
  <2> QED BY <2>1 DEF Networked
<1>4. Shown' = known
  <2>1. UNION (worlds \cup {Networked(world)}) = Shown \cup Networked(world)
    BY DEF Shown
  <2>2. Networked(world) \subseteq known
    BY <1>3 DEF Networked
  <2>3. Networked(added) \subseteq Networked(world)
    BY DEF Networked
  <2> QED BY <1>2, <2>1, <2>2, <2>3 DEF Shown
<1>5. KnownIs(known, next)
  BY <1>2, KnownGrows
<1>6. \A e \in server : e.id \in Nat /\ e.id < nextID
  BY <1>1 DEF ServerIs, EntityRecord
<1>7. \A e \in added : e.id \in Nat /\ nextID <= e.id /\ e.id < next /\ e \in EntityRecord
  BY DEF IsAdded, EntityRecord
<1>8. \A s \in Ids(known) : s \in Ids(Shown) \/ (s \in Nat /\ nextID <= s)
  BY <1>7 DEF Ids, Networked
<1>9. ServerIs(world, known, next, TRUE)
  <2>1. world \in SUBSET EntityRecord /\ IsFiniteSet(world)
    <3>1. IsFiniteSet(server) /\ IsFiniteSet(added)
      BY <1>1 DEF ServerIs, IsAdded
    <3>2. IsFiniteSet(server \cup added)
      BY <3>1, FS_Union
    <3> QED BY <1>1, <1>7, <3>2, FS_Subset DEF ServerIs
  <2>2. \A e, f \in world : e.id = f.id => e = f
    <3>1. \A e \in server : \A f \in added : e.id # f.id
      BY <1>1, <1>6, <1>7
    <3> QED BY <1>1, <3>1 DEF ServerIs, IsAdded
  <2>3. \A e \in world : e.id < next
    <3>1. \A e \in server : e.id < next
      BY <1>1, <1>6
    <3> QED BY <1>7, <3>1
  <2>4. ASSUME NEW e \in world, e.is = "map"
        PROVE  e.parent = EntityID_Invalid /\ e.id \notin Ids(known)
    <3>1. CASE e \in server
      <4>1. e.parent = EntityID_Invalid /\ e.id \notin Ids(Shown)
        BY <1>1, <2>4, <3>1 DEF ServerIs
      <4> HIDE DEF known
      <4> QED BY <1>1, <1>6, <1>8, <3>1, <4>1
    <3>2. CASE e \in added
      <4>1. e.parent = EntityID_Invalid
        BY <2>4, <3>2 DEF IsAdded
      <4>2. e.id \notin Ids(Shown)
        <5>1. \A f \in Shown : f.id \in Nat /\ f.id < nextID
          BY <1>1 DEF KnownIs, EntityRecord
        <5>2. \A f \in Shown : f.id # e.id
          BY <1>1, <1>7, <3>2, <5>1
        <5> QED BY <5>2 DEF Ids
      <4>3. e.id \notin Ids(Networked(added))
        BY <2>4, <3>2 DEF Ids, Networked, IsAdded
      <4> QED BY <4>1, <4>2, <4>3 DEF Ids
    <3> QED BY <3>1, <3>2
  <2> HIDE DEF known
  <2> QED BY <1>3, <2>1, <2>2, <2>3, <2>4 DEF ServerIs
<1>10. WorldsAre(worlds')
  <2>1. IsFiniteSet(Networked(world))
    BY <1>9, FS_Subset DEF ServerIs, Networked
  <2>2. ASSUME NEW e \in Networked(world), e.is = "weapon"
        PROVE  \E f \in Networked(world) : f.id = e.parent /\ f.id < e.id
    <3>1. e \in world /\ e \in known
      BY <1>3, <2>2 DEF Networked
    <3>2. PICK f \in known : f.id = e.parent /\ f.id < e.id
      BY <1>5, <2>2, <3>1 DEF KnownIs
    <3>3. e.parent # EntityID_Invalid
      BY <1>5, <3>2 DEF KnownIs, EntityRecord, EntityID_Invalid
    <3>4. PICK g \in world : g.id = e.parent
      BY <3>1, <3>3 DEF Ids
    <3>5. g.is # "map"
      BY <1>9, <3>2, <3>4 DEF ServerIs, Ids
    <3> QED BY <3>2, <3>4, <3>5 DEF Networked
  <2> QED BY <1>1, <1>2, <2>1, <2>2 DEF WorldsAre
<1>11. Ids(world) \subseteq Ids(server) \cup {s \in Nat : nextID <= s}
  BY <1>7 DEF Ids
<1>12. MessagesAre(tcp \o messages, known, Ids(world), next)
  <2>1. tcp \in Messages
    BY <1>1 DEF MessagesAre
  <2>2. ASSUME NEW m, IsMessage(m, Shown, Ids(server), nextID)
        PROVE  IsMessage(m, known, Ids(world), next)
    <3>1. ASSUME NEW k \in Nat, k < nextID, k \notin Ids(Shown)
          PROVE  k < next /\ k \notin Ids(known)
      <4> HIDE DEF known
      <4> QED BY <1>1, <1>8, <3>1
    <3>2. ASSUME NEW k \in Nat, k < nextID, k \notin Ids(server)
          PROVE  k < next /\ k \notin Ids(world)
      BY <1>1, <1>11, <3>2
    <3>3. Shown \subseteq known
      OBVIOUS
    <3> HIDE DEF known
    <3> QED BY <2>2, <3>1, <3>2, <3>3 DEF IsMessage
  <2>3. /\ tcp \o messages \in Messages
        /\ \A k \in DOMAIN (tcp \o messages) :
              \/ k \in DOMAIN tcp /\ (tcp \o messages)[k] = tcp[k]
              \/ \E i \in DOMAIN messages : (tcp \o messages)[k] = messages[i]
    BY <2>1, MoreMessages
  <2> DEFINE all == tcp \o messages
  <2> HIDE DEF all, known
  <2> QED BY <1>1, <2>2, <2>3 DEF MessagesAre, all, known
<1>13. ASSUME NEW n \in Live(replica)
       PROVE  /\ replica.local[n].of \in Nat /\ replica.local[n].of < nextID
              /\ replica.local[n].of \notin Ids(server) => replica.local[n].of \notin Ids(world)
  <2>1. replica.local[n].of \in Nat
    BY <1>1, WorkIs DEF SaneBy, LocalEntity
  <2>2. replica.local[n].of < nextID
    <3>1. \A e \in Shown : IsCopyOf(replica, n, e) => replica.local[n].of < nextID
      BY <1>1 DEF IsCopyOf, KnownIs
    <3> QED BY <1>1, <3>1 DEF SaneBy, CopiesBy
  <2> QED BY <1>1, <1>11, <2>1, <2>2
<1>14. CopiesBy(replica, known, Ids(world), next)
  <2>1. SUFFICES ASSUME NEW n \in Live(replica)
                 PROVE  /\ replica.local[n].late => replica.local[n].of \notin Ids(world)
                        /\ \/ /\ replica.local[n].is = "map" /\ replica.local[n].parent = EntityID_Invalid
                              /\ replica.local[n].of < next /\ replica.local[n].of \notin Ids(known)
                           \/ \E e \in known : IsCopyOf(replica, n, e)
    BY DEF CopiesBy
  <2>2. /\ replica.local[n].late => replica.local[n].of \notin Ids(server)
        /\ \/ /\ replica.local[n].is = "map" /\ replica.local[n].parent = EntityID_Invalid
              /\ replica.local[n].of < nextID /\ replica.local[n].of \notin Ids(Shown)
           \/ \E e \in Shown : IsCopyOf(replica, n, e)
    BY <1>1 DEF SaneBy, CopiesBy
  <2>3. replica.local[n].of < next
    BY <1>1, <1>13
  <2>4. replica.local[n].of \notin Ids(Shown) => replica.local[n].of \notin Ids(known)
    <3> HIDE DEF known
    <3> QED BY <1>1, <1>8, <1>13
  <2>5. Shown \subseteq known
    OBVIOUS
  <2> HIDE DEF known
  <2> QED BY <1>13, <2>2, <2>3, <2>4, <2>5
<1>15. GhostsBy(replica, tcp \o messages, dead, Ids(world))
  <2>1. SUFFICES ASSUME NEW n \in Live(replica), replica.local[n].of \notin Ids(world), ~replica.local[n].late
                 PROVE  n \in DoomedBy(replica, tcp \o messages, dead)
    BY DEF GhostsBy
  <2>2. CASE replica.local[n].of \in Ids(server)
    BY <2>1, <2>2
  <2>3. CASE replica.local[n].of \notin Ids(server)
    <3>1. n \in DoomedBy(replica, tcp, dead)
      BY <1>1, <2>1, <2>3 DEF SaneBy, GhostsBy
    <3>2. replica \in Work /\ tcp \in Messages
      BY <1>1 DEF SaneBy, MessagesAre
    <3> QED BY <3>1, <3>2, DoomedByMore
  <2> QED BY <2>2, <2>3
<1>16. SaneBy(replica, known, Ids(world), next, tcp \o messages, dead)
  BY <1>1, <1>13, <1>14, <1>15 DEF SaneBy
<1> HIDE DEF known
<1>17. OthersTyped'
  BY <1>2 DEF ReplicaInv, OthersTyped
<1>18. nextID' \in Nat /\ joined' = TRUE /\ localPlayer' \in [id : Int, stale : BOOLEAN]
  BY <1>2 DEF ReplicaInv
<1> QED BY <1>2, <1>4, <1>5, <1>9, <1>10, <1>12, <1>16, <1>17, <1>18 DEF ReplicaInv

(* A player who is spawned keeps the invariant.                            *)
LEMMA SpawnPlayerKeeps ==
  ASSUME ReplicaInv, NEW is \in {"self", "player"}, SpawnPlayer(is)
  PROVE  ReplicaInv'
<1> DEFINE p == Entity(nextID, is, EntityID_Invalid)
           w == Entity(nextID + 1, "weapon", nextID)
           added == {p, w}
           world == server \cup added
           next == nextID + 2
           messages == IF is = "self" THEN <<Spawned(nextID)>> ELSE <<>>
<1>1. Becomes(world, next, messages)
  BY DEF SpawnPlayer
<1>2. /\ p.id = nextID /\ p.is = is /\ p.parent = EntityID_Invalid
      /\ w.id = nextID + 1 /\ w.is = "weapon" /\ w.parent = nextID
  BY DEF Entity
<1>3. nextID \in Nat /\ joined
  BY <1>1 DEF ReplicaInv, Becomes
<1>4. p \in EntityRecord /\ w \in EntityRecord
  BY <1>3 DEF Entity, EntityRecord, Kind, EntityID_Invalid
<1>5. messages \in Messages /\ \A i \in DOMAIN messages : messages[i] = Spawned(nextID) /\ is = "self"
  <2>1. Spawned(nextID) \in Message
    BY <1>3 DEF Message
  <2>2. CASE is = "self"
    BY <2>1, <2>2 DEF Messages
  <2>3. CASE is # "self"
    BY <2>3 DEF Messages
  <2> QED BY <2>2, <2>3
<1> HIDE DEF p, w, messages
<1>6. IsFiniteSet(added)
  <2>1. IsFiniteSet({p}) /\ IsFiniteSet({w})
    BY FS_Singleton
  <2>2. IsFiniteSet({p} \cup {w})
    BY <2>1, FS_Union, Zenon
  <2>3. added = {p} \cup {w}
    OBVIOUS
  <2> HIDE DEF added
  <2> QED BY <2>2, <2>3
<1>7. IsAdded(added, next)
  BY <1>2, <1>3, <1>4, <1>6 DEF IsAdded, IsPlayer
<1>8. \A e \in world : e.parent # EntityID_Invalid => e.parent \in Ids(world)
  <2>1. \A e \in server : e.parent # EntityID_Invalid => e.parent \in Ids(server)
    BY DEF ReplicaInv, ServerIs
  <2> QED BY <1>2, <2>1 DEF Ids
<1>9. \A i \in DOMAIN messages : IsMessage(messages[i], Shown \cup Networked(added), Ids(world), next)
  BY <1>2, <1>3, <1>5 DEF IsMessage, Networked
<1>10. Ids(server) \subseteq Ids(world)
  BY DEF Ids
<1>11. nextID <= next /\ next \in Nat
  BY <1>3
<1>12. world \in SUBSET (server \cup added) /\ added \subseteq world
  OBVIOUS
<1> HIDE DEF added, world, next
<1> QED BY <1>1, <1>5, <1>7, <1>8, <1>9, <1>10, <1>11, <1>12, BecomesKeeps

(* A pickup that is spawned keeps the invariant.                           *)
LEMMA SpawnPickupKeeps ==
  ASSUME ReplicaInv, SpawnPickup
  PROVE  ReplicaInv'
<1>1. PICK map \in server : /\ map.is = "map"
                            /\ Becomes(server \cup {Entity(nextID, "pickup", map.id)}, nextID + 1, <<>>)
  BY DEF SpawnPickup
<1> DEFINE p == Entity(nextID, "pickup", map.id)
           added == {p}
           world == server \cup added
           next == nextID + 1
<1>2. p.id = nextID /\ p.is = "pickup" /\ p.parent = map.id
  BY DEF Entity
<1>3. nextID \in Nat /\ joined /\ map.id \in Nat
  BY <1>1 DEF ReplicaInv, Becomes, ServerIs, EntityRecord
<1>4. p \in EntityRecord
  BY <1>3 DEF Entity, EntityRecord, Kind
<1>5. <<>> \in Messages /\ DOMAIN <<>> = {}
  BY DEF Messages
<1>6. Becomes(world, next, <<>>)
  BY <1>1
<1> HIDE DEF p
<1>7. IsFiniteSet(added)
  BY FS_Singleton
<1>8. IsAdded(added, next)
  BY <1>1, <1>2, <1>3, <1>4, <1>7 DEF IsAdded, IsPlayer
<1>9. \A e \in world : e.parent # EntityID_Invalid => e.parent \in Ids(world)
  <2>1. \A e \in server : e.parent # EntityID_Invalid => e.parent \in Ids(server)
    BY DEF ReplicaInv, ServerIs
  <2> QED BY <1>1, <1>2, <2>1 DEF Ids
<1>10. Ids(server) \subseteq Ids(world)
  BY DEF Ids
<1>11. nextID <= next /\ next \in Nat
  BY <1>3
<1>12. world \in SUBSET (server \cup added) /\ added \subseteq world
  OBVIOUS
<1> HIDE DEF added, world, next
<1> QED BY <1>5, <1>6, <1>8, <1>9, <1>10, <1>11, <1>12, BecomesKeeps

(* A deleted player takes his weapon along, and so does the copy; a pickup *)
(* has nothing below it, nor has a weapon.                                 *)
LEMMA DeleteKeeps ==
  ASSUME ReplicaInv, NEW e \in server, Delete(e)
  PROVE  ReplicaInv'
<1> DEFINE gone == Cascade(server, {e.id})
           world == {f \in server : f.id \notin gone}
           messages == <<Deleted(e.id)>>
           all == tcp \o messages
           dead == deaths \cup dying
           none == {}
<1>1. Becomes(world, nextID, messages) /\ (IsPlayer(e.is) \/ e.is = "pickup")
  BY DEF Delete
<1>2. /\ nextID \in Nat /\ joined /\ KnownIs(Shown, nextID) /\ ServerIs(server, Shown, nextID, TRUE)
      /\ MessagesAre(tcp, Shown, Ids(server), nextID)
      /\ SaneBy(replica, Shown, Ids(server), nextID, tcp, dead)
  BY <1>1 DEF ReplicaInv, Becomes
<1>3. e.id \in Nat /\ e.id < nextID /\ e \in Shown
  BY <1>1, <1>2 DEF ServerIs, EntityRecord, IsPlayer
<1>4. {e.id} \in SUBSET Ids(server) /\ IsFiniteSet(Ids(server))
  <2> DEFINE g == [f \in server |-> f.id]
  <2>1. g \in Surjection(server, Ids(server))
    BY DEF Ids, Surjection
  <2> HIDE DEF g
  <2>2. IsFiniteSet(server)
    BY <1>2 DEF ServerIs
  <2>3. IsFiniteSet(Ids(server))
    BY <2>1, <2>2, FS_Surjection
  <2> QED BY <2>3 DEF Ids
<1>5. gone = Least(server, {e.id})
  BY <1>4, CascadeIs
<1> HIDE DEF gone
<1>6. e.id \in gone /\ Closed(server, gone) /\ gone \subseteq Ids(server)
  BY <1>4, <1>5 DEF Least, Closed, Ids
<1>7. messages \in Messages /\ \A i \in DOMAIN messages : messages[i] = Deleted(e.id)
  <2>1. Deleted(e.id) \in Message
    BY <1>3 DEF Message
  <2> QED BY <2>1 DEF Messages
<1>8. IsAdded(none, nextID)
  BY FS_EmptySet DEF IsAdded
<1>9. \A f \in world : f.parent # EntityID_Invalid => f.parent \in Ids(world)
  <2>1. ASSUME NEW f \in world, f.parent # EntityID_Invalid
        PROVE  f.parent \in Ids(world)
    <3>1. f.parent \in Ids(server)
      BY <1>2, <2>1 DEF ServerIs
    <3>2. f.parent \notin gone
      BY <1>6 DEF Closed
    <3> QED BY <3>1, <3>2 DEF Ids
  <2> QED BY <2>1
<1>10. e.id \notin Ids(world)
  BY <1>6 DEF Ids
<1>11. \A i \in DOMAIN messages : IsMessage(messages[i], Shown \cup Networked(none), Ids(world), nextID)
  BY <1>3, <1>7, <1>10 DEF IsMessage
(* What is condemned takes with it every copy of what the server took.     *)
<1>12. ASSUME NEW n \in Live(replica), replica.local[n].of \in Ids(server), replica.local[n].of \notin Ids(world)
       PROVE  n \in DoomedBy(replica, all, dead)
  <2> DEFINE r == replica
             C == CondemnedBy(r, all, dead)
             D == Taken(r, C)
             T == {f.id : f \in {g \in server : g.is # "map" /\ \A m \in Live(r) : r.local[m].of = g.id => m \in D}}
  <2>1. r \in Work /\ IsFiniteSet(Live(r)) /\ tcp \in Messages /\ all \in Messages
    <3>1. r \in Work /\ tcp \in Messages
      BY <1>2 DEF SaneBy, MessagesAre
    <3>2. all \in Messages
      BY <1>7, <3>1 DEF Messages
    <3> QED BY <3>1, <3>2, WorkIs
  <2>2. \E i \in DOMAIN all : all[i] = Deleted(e.id)
    <3>1. 1 \in DOMAIN messages
      OBVIOUS
    <3> HIDE DEF messages
    <3>2. Len(tcp) + 1 \in DOMAIN all /\ all[Len(tcp) + 1] = messages[1]
      BY <1>7, <2>1, <3>1, MoreMessages
    <3> HIDE DEF all
    <3> QED BY <1>7, <3>1, <3>2
  <2> HIDE DEF all
  <2>3. C \in SUBSET Live(r) /\ \A m \in Live(r) : r.local[m].of = e.id => m \in C
    BY <2>2 DEF CondemnedBy
  <2> HIDE DEF C
  <2>4. C \subseteq D /\ D \subseteq Live(r) /\ ClosedIn(r, D)
    BY <2>1, <2>3, TakenIs
  <2> HIDE DEF D
  <2>5. e.id \in T
    BY <1>1, <2>3, <2>4 DEF IsPlayer
  <2>6. ASSUME NEW f \in server, f.parent \in T
        PROVE  f.id \in T
    <3>1. PICK g \in server : g.id = f.parent /\ g.is # "map" /\ \A m \in Live(r) : r.local[m].of = g.id => m \in D
      BY <2>6
    <3>2. g \in Shown /\ g.id \in Nat /\ f.parent # EntityID_Invalid
      BY <1>2, <3>1 DEF ServerIs, EntityRecord, EntityID_Invalid
    <3>3. f.is # "map" /\ f \in Shown
      BY <1>2, <3>2 DEF ServerIs
    <3>4. f.is = "weapon"
      <4>1. f.is \in Kind
        BY <1>2 DEF ServerIs, EntityRecord
      <4>2. f.is # "pickup"
        BY <1>2, <3>1, <3>2, <3>3 DEF KnownIs, Ids
      <4>3. ~IsPlayer(f.is)
        BY <1>2, <3>2, <3>3 DEF KnownIs
      <4> QED BY <3>3, <4>1, <4>2, <4>3 DEF Kind, IsPlayer
    <3>5. ASSUME NEW m \in Live(r), r.local[m].of = f.id
          PROVE  m \in D
      <4>1. PICK h \in Shown : IsCopyOf(r, m, h)
        BY <1>2, <3>3, <3>5 DEF SaneBy, CopiesBy, Ids
      <4>2. h = f
        BY <1>2, <3>3, <3>5, <4>1 DEF IsCopyOf, KnownIs
      <4>3. r.local[m].parent \in Live(r) /\ r.local[r.local[m].parent].of = g.id
        BY <3>1, <3>4, <4>1, <4>2 DEF IsCopyOf
      <4> QED BY <2>4, <3>1, <4>3 DEF ClosedIn
    <3> QED BY <3>3, <3>5
  <2>7. gone \subseteq T
    <3>1. T \in SUBSET Ids(server)
      BY DEF Ids
    <3> HIDE DEF T
    <3> QED BY <1>5, <2>5, <2>6, <3>1 DEF Least, Closed
  <2>8. replica.local[n].of \in gone
    BY <1>12 DEF Ids
  <2>9. n \in D
    <3>1. replica.local[n].of \in T
      BY <2>7, <2>8
    <3> QED BY <3>1
  <2> QED BY <2>4, <2>9 DEF DoomedBy, D, C
<1>13. world \in SUBSET (server \cup none) /\ none \subseteq world /\ nextID <= nextID
  BY <1>2
<1> HIDE DEF world, messages, none
<1> QED BY <1>1, <1>2, <1>7, <1>8, <1>9, <1>11, <1>12, <1>13, BecomesKeeps

(* A reset of the map keeps the invariant: everything there was is         *)
(* removed, and announced as deleted after that.                           *)
LEMMA ResetMapKeeps ==
  ASSUME ReplicaInv, ResetMap
  PROVE  ReplicaInv'
<1> DEFINE map == [Map EXCEPT !.id = nextID]
           new == {map}
           old == {e \in server : e.parent = EntityID_Invalid}
           roots == InOrder(old)
           deletions == [i \in DOMAIN roots |-> Deleted(roots[i].id)]
           messages == <<RemoveWorld, Snapshot(new)>> \o deletions
           next == nextID + 1
<1>1. Becomes(new, next, messages)
  BY DEF ResetMap
<1>2. /\ nextID \in Nat /\ joined /\ KnownIs(Shown, nextID) /\ ServerIs(server, Shown, nextID, TRUE)
      /\ MessagesAre(tcp, Shown, Ids(server), nextID)
      /\ SaneBy(replica, Shown, Ids(server), nextID, tcp, deaths \cup dying)
  BY <1>1 DEF ReplicaInv, Becomes
<1>3. /\ map = Entity(nextID, "map", EntityID_Invalid)
      /\ map.id = nextID /\ map.is = "map" /\ map.parent = EntityID_Invalid
  BY DEF Map, Entity
<1>4. map \in EntityRecord
  BY <1>2, <1>3 DEF Entity, EntityRecord, Kind, EntityID_Invalid
<1> HIDE DEF map
<1>5. IsAdded(new, next)
  <2>1. IsFiniteSet(new)
    BY FS_Singleton
  <2> QED BY <1>2, <1>3, <1>4, <2>1 DEF IsAdded
<1>6. /\ Len(roots) \in Nat /\ DOMAIN roots = 1 .. Len(roots)
      /\ \A i \in DOMAIN roots : roots[i] \in server
  <2>1. IsFiniteSet(old)
    BY <1>2, FS_Subset DEF ServerIs
  <2>2. /\ \A e \in old : e.id \in Nat /\ e \in server
        /\ \A e, f \in old : e.id = f.id => e = f
    BY <1>2 DEF ServerIs, EntityRecord
  <2> HIDE DEF old
  <2> QED BY <2>1, <2>2, InOrderIs
<1>7. \A i \in DOMAIN roots : roots[i].id \in Nat /\ roots[i].id < nextID
  BY <1>2, <1>6 DEF ServerIs, EntityRecord
<1> HIDE DEF roots
<1>8. deletions \in Messages
  <2>1. \A i \in DOMAIN roots : deletions[i] \in Message
    BY <1>7 DEF Message
  <2>2. deletions = [i \in 1 .. Len(roots) |-> deletions[i]]
    BY <1>6
  <2> HIDE DEF deletions
  <2> QED BY <1>6, <2>1, <2>2, IsSequence DEF Messages
<1> DEFINE two == <<RemoveWorld, Snapshot(new)>>
<1>9. /\ two \in Messages /\ DOMAIN two = {1, 2}
      /\ two[1] = RemoveWorld /\ two[2] = Snapshot({Entity(nextID, "map", EntityID_Invalid)})
  <2>1. RemoveWorld \in Message /\ Snapshot(new) \in Message
    BY <1>2, <1>3 DEF Message
  <2>2. two \in Messages
    BY <2>1 DEF Messages
  <2> QED BY <1>3, <2>2
<1>10. messages = two \o deletions
  OBVIOUS
<1>11. \A i \in DOMAIN deletions : \E s \in Nat : deletions[i] = Deleted(s) /\ s < nextID
  BY <1>7
<1> HIDE DEF two, deletions, messages
<1>12. replica \in Work /\ tcp \in Messages
  BY <1>2 DEF SaneBy, MessagesAre
<1>13. /\ messages \in Messages
       /\ \E k \in DOMAIN messages : messages[k] = RemoveWorld
       /\ \A k \in DOMAIN messages : (k \in DOMAIN two /\ messages[k] = two[k])
                                     \/ \E i \in DOMAIN deletions : messages[k] = deletions[i]
  BY <1>8, <1>9, <1>10, MoreMessages
<1>14. ASSUME NEW k \in DOMAIN messages
       PROVE  IsMessage(messages[k], Shown \cup Networked(new), Ids(new), next)
  <2>1. Networked(new) = {} /\ Ids(new) = {nextID}
    BY <1>3 DEF Networked, Ids
  <2>2. nextID \notin Ids(Shown) /\ nextID < next
    <3>1. \A e \in Shown : e.id \in Nat /\ e.id < nextID
      BY <1>2 DEF KnownIs, EntityRecord
    <3>2. \A e \in Shown : e.id # nextID
      BY <1>2, <3>1
    <3> QED BY <1>2, <3>2 DEF Ids
  <2>3. CASE \E i \in DOMAIN deletions : messages[k] = deletions[i]
    <3>1. PICK s \in Nat : messages[k] = Deleted(s) /\ s < nextID
      BY <1>11, <2>3
    <3>2. s < next /\ s # nextID
      BY <1>2, <3>1
    <3> QED BY <2>1, <3>1, <3>2 DEF IsMessage
  <2>4. CASE messages[k] = RemoveWorld
    BY <2>4 DEF IsMessage
  <2>5. CASE messages[k] = Snapshot({Entity(nextID, "map", EntityID_Invalid)})
    BY <1>2, <2>1, <2>2, <2>5 DEF IsMessage
  <2> QED BY <1>9, <1>13, <2>3, <2>4, <2>5
<1>15. ASSUME NEW n \in Live(replica)
       PROVE  n \in DoomedBy(replica, tcp \o messages, deaths \cup dying)
  <2> DEFINE all == tcp \o messages
  <2>1. \E k \in DOMAIN all : all[k] = RemoveWorld
    <3>1. PICK k \in DOMAIN messages : messages[k] = RemoveWorld
      BY <1>13
    <3>2. Len(tcp) + k \in DOMAIN all /\ all[Len(tcp) + k] = messages[k]
      BY <1>12, <1>13, MoreMessages
    <3> HIDE DEF all
    <3> QED BY <3>1, <3>2
  <2> HIDE DEF all
  <2>2. n \in DoomedBy(replica, all, deaths \cup dying)
    BY <2>1 DEF DoomedBy
  <2> QED BY <2>2 DEF all
<1>16. /\ new \in SUBSET (server \cup new) /\ new \subseteq new /\ nextID <= next /\ next \in Nat
       /\ \A e \in new : e.parent # EntityID_Invalid => e.parent \in Ids(new)
  BY <1>2, <1>3
<1> HIDE DEF new, next
<1> QED BY <1>1, <1>5, <1>13, <1>14, <1>15, <1>16, BecomesKeeps

(***************************************************************************)
(* The client.                                                             *)
(***************************************************************************)

(* What a step of the client must keep for the invariant.                  *)
LEMMA ClientKeeps ==
  ASSUME ReplicaInv, UNCHANGED <<server, nextID, worlds, joined>>,
         OthersTyped', localPlayer' \in [id : Int, stale : BOOLEAN],
         MessagesAre(tcp', Shown, Ids(server), nextID),
         SaneBy(replica', Shown, Ids(server), nextID, tcp', deaths' \cup dying'),
         ~joined => tcp' = <<>> /\ Live(replica') = {}
  PROVE  ReplicaInv'
<1>1. Shown' = Shown
  BY DEF Shown
<1> QED BY <1>1 DEF ReplicaInv

(* The parsing of a snapshot keeps the replica sane.                       *)
LEMMA SnapshotIsParsed ==
  ASSUME ReplicaInv, NEW r, Sane(r), NEW world, Says(world)
  PROVE  Sane(ParseSnapshot(r, world))
<1> DEFINE t == ParseEntities(r, InOrder(world))
<1>1. KnownInv /\ OthersTyped
  BY IsKnown DEF ReplicaInv
<1>2. Sane(t)
  BY <1>1, EntitiesAreParsed
<1> HIDE DEF t
<1>3. PICK list : IsAnnounced(ParseSpawnEvents(t), t, list)
  BY <1>2, SpawnEventsAreParsed DEF Sane
<1>4. Sane(ParseSpawnEvents(t))
  BY <1>2, <1>3, AnnouncedIsSane
<1> QED BY <1>4 DEF ParseSnapshot, t

(* A snapshot that is read, however late, keeps the invariant.             *)
LEMMA ReadSnapshotKeeps ==
  ASSUME ReplicaInv, NEW world \in worlds, ReadSnapshot(world)
  PROVE  ReplicaInv'
<1>1. Sane(replica)
  BY SaneIs DEF ReplicaInv
<1>2. Says(world)
  BY SnapshotsSay DEF ReplicaInv
<1>3. Sane(replica')
  BY <1>1, <1>2, SnapshotIsParsed DEF ReadSnapshot
<1>4. /\ joined
      /\ UNCHANGED <<server, nextID, worlds, joined, tcp, deaths, dying, localPlayer>>
  BY DEF ReadSnapshot, Keeps, network, worldVars
<1>5. SaneBy(replica', Shown, Ids(server), nextID, tcp', deaths' \cup dying')
  BY <1>3, <1>4, SaneIs
<1>6. /\ OthersTyped' /\ localPlayer' \in [id : Int, stale : BOOLEAN]
      /\ MessagesAre(tcp', Shown, Ids(server), nextID)
  BY <1>4 DEF ReplicaInv, OthersTyped
<1> QED BY <1>4, <1>5, <1>6, ClientKeeps

(* The stream without the message that was read.                           *)
LEMMA TailIs ==
  ASSUME NEW messages \in Messages, messages # <<>>
  PROVE  /\ Tail(messages) \in Messages /\ Head(messages) = messages[1] /\ 1 \in DOMAIN messages
         /\ \A i \in DOMAIN messages :
              \/ i = 1
              \/ i - 1 \in DOMAIN Tail(messages) /\ Tail(messages)[i - 1] = messages[i]
         /\ \A i \in DOMAIN Tail(messages) : i + 1 \in DOMAIN messages /\ Tail(messages)[i] = messages[i + 1]
<1>1. Tail(messages) \in Messages /\ Head(messages) = messages[1] /\ 1 \in DOMAIN messages
  BY DEF Messages
<1>2. \A i \in DOMAIN Tail(messages) : i + 1 \in DOMAIN messages /\ Tail(messages)[i] = messages[i + 1]
  BY DEF Messages
<1>3. \A i \in DOMAIN messages :
              \/ i = 1
              \/ i - 1 \in DOMAIN Tail(messages) /\ Tail(messages)[i - 1] = messages[i]
  BY DEF Messages
<1> QED BY <1>1, <1>2, <1>3

(* To delete nothing is a deletion.                                        *)
LEMMA NothingIsDeleted ==
  ASSUME NEW r \in Work, Mirrors(r)
  PROVE  IsDeleted(r, r, {})
BY DEF IsDeleted, ClosedIn

(* A deletion that covers what is not condemned by what comes after it.    *)
LEMMA DeletedIsSane ==
  ASSUME NEW r, NEW t, NEW gone, IsDeleted(t, r, gone),
         NEW known, NEW ids, NEW next,
         NEW messages, NEW dead, NEW messages2, NEW dead2,
         SaneBy(r, known, ids, next, messages, dead),
         CondemnedBy(r, messages, dead) \subseteq CondemnedBy(t, messages2, dead2) \cup gone,
         (\E i \in DOMAIN messages : messages[i] = RemoveWorld) =>
            \E i \in DOMAIN messages2 : messages2[i] = RemoveWorld,
         \A a \in Live(t) : a \in dead2 /\ a \notin dead => t.local[a].of \notin ids
  PROVE  SaneBy(t, known, ids, next, messages2, dead2)
<1>1. r \in Work /\ Mirrors(r) /\ GhostsBy(r, messages, dead, ids)
  BY DEF SaneBy
<1>2. GhostsBy(t, messages2, dead2, ids)
  BY <1>1, DoomedIsLeft
<1>3. /\ t \in Work /\ Mirrors(t) /\ Live(t) = Live(r) \ gone /\ ClosedIn(r, gone)
      /\ \A n \in Live(t) : n \in Live(r) /\ t.local[n] = r.local[n]
  BY DEF IsDeleted
<1>4. \A a \in Live(t) : a \in dead2 => t.local[a].of \notin ids
  BY <1>3 DEF SaneBy
<1>5. CopiesBy(t, known, ids, next)
  <2>1. SUFFICES ASSUME NEW n \in Live(t)
                 PROVE  /\ t.local[n].late => t.local[n].of \notin ids
                        /\ \/ /\ t.local[n].is = "map" /\ t.local[n].parent = EntityID_Invalid
                              /\ t.local[n].of < next /\ t.local[n].of \notin Ids(known)
                           \/ \E e \in known : IsCopyOf(t, n, e)
    BY DEF CopiesBy
  <2>2. /\ r.local[n].late => r.local[n].of \notin ids
        /\ \/ /\ r.local[n].is = "map" /\ r.local[n].parent = EntityID_Invalid
              /\ r.local[n].of < next /\ r.local[n].of \notin Ids(known)
           \/ \E e \in known : IsCopyOf(r, n, e)
    BY <1>3 DEF SaneBy, CopiesBy
  <2>3. ASSUME NEW e \in known, IsCopyOf(r, n, e)
        PROVE  IsCopyOf(t, n, e)
    <3>1. r.local[n].parent \notin gone
      BY <1>3 DEF ClosedIn
    <3>2. r.local[n].parent \in Live(r) =>
             r.local[n].parent \in Live(t) /\ t.local[r.local[n].parent] = r.local[r.local[n].parent]
      BY <1>3, <3>1
    <3> QED BY <1>3, <2>3, <3>2 DEF IsCopyOf
  <2> QED BY <1>3, <2>2, <2>3
<1> QED BY <1>2, <1>3, <1>4, <1>5 DEF SaneBy

(* An empty world is sane, whatever the maps have.                         *)
LEMMA EmptiedIsSane ==
  ASSUME NEW r \in Work, Mirrors(r), NEW known, NEW ids, NEW next, NEW messages, NEW dead
  PROVE  SaneBy(Emptied(r), known, ids, next, messages, dead) /\ Live(Emptied(r)) = {}
<1> DEFINE t == Emptied(r)
<1>1. <<>> \in LocalEntities
  <2>1. <<>> \in [{} -> LocalEntity]
    OBVIOUS
  <2>2. IsFiniteSet({}) /\ {} \in SUBSET Nat
    BY FS_EmptySet
  <2> QED BY <2>1, <2>2 DEF LocalEntities, Maps
<1>2. /\ t \in Work /\ t.local = <<>> /\ t.toClient = r.toClient /\ t.toServer = r.toServer
  BY <1>1 DEF Emptied, Work
<1> HIDE DEF t
<1>3. Live(t) = {}
  BY <1>2 DEF Live
<1>4. Mirrors(t)
  BY <1>2, <1>3 DEF Mirrors
<1>5. SaneBy(t, known, ids, next, messages, dead) /\ Live(t) = {}
  BY <1>2, <1>3, <1>4 DEF SaneBy, CopiesBy, GhostsBy
<1> QED BY <1>5 DEF t

(* A spawn more in the queue keeps the replica sane.                       *)
LEMMA WaitingIsSane ==
  ASSUME NEW r, Sane(r), NEW s \in Nat
  PROVE  Sane([r EXCEPT !.spawns = Append(@, [id |-> s, stale |-> FALSE])])
<1> DEFINE t == [r EXCEPT !.spawns = Append(@, [id |-> s, stale |-> FALSE])]
<1>1. r \in Work /\ Mirrors(r)
  BY DEF Sane
<1>2. [id |-> s, stale |-> FALSE] \in Spawn
  BY DEF Spawn
<1>3. Append(r.spawns, [id |-> s, stale |-> FALSE]) \in Spawns
  BY <1>1, <1>2, WorkIs DEF Spawns
<1>4. t \in Work /\ t.local = r.local /\ t.toClient = r.toClient /\ t.toServer = r.toServer
  BY <1>1, <1>3 DEF Work
<1> HIDE DEF t
<1>5. Live(t) = Live(r)
  BY <1>4 DEF Live
<1>6. Doomed(t, tcp) = Doomed(r, tcp)
  BY <1>4, <1>5, DoomedDependsOn
<1>7. Sane(t)
  BY <1>1, <1>4, <1>5, <1>6 DEF Sane, CopiesAreKnown, IsCopyOf, IsCopyOfMap, GhostsOf, DeathsAreTrue, Mirrors
<1> QED BY <1>7 DEF t

(* A message that deletes nothing, or only what has died by now.           *)
LEMMA ReadIsSane ==
  ASSUME NEW r, NEW known, NEW ids, NEW next, NEW messages \in Messages, messages # <<>>, NEW dead, NEW dead2,
         SaneBy(r, known, ids, next, messages, dead), messages[1] # RemoveWorld,
         dead \subseteq dead2,
         \A a \in Live(r) : messages[1] = Deleted(r.local[a].of) => a \in dead2,
         \A a \in Live(r) : a \in dead2 /\ a \notin dead => r.local[a].of \notin ids
  PROVE  SaneBy(r, known, ids, next, Tail(messages), dead2)
<1> DEFINE tail == Tail(messages)
<1>1. \A i \in DOMAIN messages : (i = 1) \/ (i - 1 \in DOMAIN tail /\ tail[i - 1] = messages[i])
  BY TailIs
<1> HIDE DEF tail
<1>2. r \in Work /\ Mirrors(r)
  BY DEF SaneBy
<1>3. IsDeleted(r, r, {})
  BY <1>2, NothingIsDeleted
<1>4. \A m : m # messages[1] /\ (\E i \in DOMAIN messages : messages[i] = m) => \E i \in DOMAIN tail : tail[i] = m
  BY <1>1
<1>5. CondemnedBy(r, messages, dead) \subseteq CondemnedBy(r, tail, dead2) \cup {}
  BY <1>4 DEF CondemnedBy
<1>6. (\E i \in DOMAIN messages : messages[i] = RemoveWorld) => \E i \in DOMAIN tail : tail[i] = RemoveWorld
  BY <1>4
<1>7. SaneBy(r, known, ids, next, tail, dead2)
  BY <1>3, <1>5, <1>6, DeletedIsSane
<1> QED BY <1>7 DEF tail

(* The map that comes on joining or on a reset keeps the replica sane.     *)
LEMMA SnapshotMessageKeeps ==
  ASSUME ReplicaInv, tcp # <<>>, tcp[1].is = "Snapshot"
  PROVE  SaneBy(ParseSnapshot(replica, tcp[1].world), Shown, Ids(server), nextID, Tail(tcp), deaths \cup dying)
<1>1. tcp \in Messages /\ 1 \in DOMAIN tcp
  BY TailIs DEF ReplicaInv, MessagesAre
<1>2. IsMessage(tcp[1], Shown, Ids(server), nextID)
  BY <1>1 DEF ReplicaInv, MessagesAre
<1>3. PICK k \in Nat : tcp[1].world = {Entity(k, "map", EntityID_Invalid)} /\ k < nextID /\ k \notin Ids(Shown)
  BY <1>2, MessageIs
<1>4. \A s : tcp[1] # Deleted(s)
  BY <1>2, MessageIs
<1>5. tcp[1] # RemoveWorld
  BY <1>2, MessageIs
<1> DEFINE e == Entity(k, "map", EntityID_Invalid)
<1>6. e.is = "map" /\ Told(e)
  BY <1>3 DEF Entity, Told
<1>7. tcp[1].world = {e}
  BY <1>3
<1> HIDE DEF e
<1>8. Says(tcp[1].world)
  <2>1. IsFiniteSet({e})
    BY FS_Singleton
  <2> QED BY <1>6, <1>7, <2>1 DEF Says
<1>9. Sane(replica)
  BY SaneIs DEF ReplicaInv
<1> DEFINE t == ParseSnapshot(replica, tcp[1].world)
<1>10. Sane(t)
  BY <1>8, <1>9, SnapshotIsParsed
<1> HIDE DEF t
<1>11. SaneBy(t, Shown, Ids(server), nextID, tcp, deaths \cup dying)
  BY <1>10, SaneIs
<1>12. SaneBy(t, Shown, Ids(server), nextID, Tail(tcp), deaths \cup dying)
  BY <1>1, <1>4, <1>5, <1>11, ReadIsSane
<1> QED BY <1>12 DEF t

(* A spawn that is read keeps the replica sane.                            *)
LEMMA SpawnMessageKeeps ==
  ASSUME ReplicaInv, tcp # <<>>, tcp[1].is = "OnPlayerSpawned"
  PROVE  SaneBy(ParsePlayersSpawned(replica, tcp[1].id), Shown, Ids(server), nextID, Tail(tcp), deaths \cup dying)
<1>1. tcp \in Messages /\ 1 \in DOMAIN tcp
  BY TailIs DEF ReplicaInv, MessagesAre
<1>2. IsMessage(tcp[1], Shown, Ids(server), nextID)
  BY <1>1 DEF ReplicaInv, MessagesAre
<1>3. tcp[1].id \in Nat /\ tcp[1] # RemoveWorld /\ \A s : tcp[1] # Deleted(s)
  BY <1>2, MessageIs
<1> DEFINE r == [replica EXCEPT !.spawns = Append(@, [id |-> tcp[1].id, stale |-> FALSE])]
           t == ParsePlayersSpawned(replica, tcp[1].id)
<1>4. Sane(r)
  BY <1>3, SaneIs, WaitingIsSane DEF ReplicaInv
<1>5. t = ParseSpawnEvents(r)
  BY DEF ParsePlayersSpawned
<1> HIDE DEF r, t
<1>6. PICK list : IsAnnounced(t, r, list)
  BY <1>4, <1>5, SpawnEventsAreParsed DEF Sane
<1>7. SaneBy(t, Shown, Ids(server), nextID, tcp, deaths \cup dying)
  BY <1>4, <1>6, AnnouncedIsSane, SaneIs
<1>8. SaneBy(t, Shown, Ids(server), nextID, Tail(tcp), deaths \cup dying)
  BY <1>1, <1>3, <1>7, ReadIsSane
<1> QED BY <1>8 DEF t

(* The copy that is deleted goes with what is below it, and is forgotten.  *)
LEMMA DeletionIs ==
  ASSUME NEW r \in Work, Mirrors(r), NEW s, HasEntity(r, s), ~Dies(r, s)
  PROVE  IsDeleted(ParseEntityDeletion(r, s), r, Taken(r, {r.toClient[s]})) /\ r.toClient[s] \in Taken(r, {r.toClient[s]})
<1> DEFINE ns == {r.toClient[s]}
           d == DeleteEntities(r, ns)
           gone == Taken(r, ns)
           t == ParseEntityDeletion(r, s)
<1>1. ns \cap Live(r) = ns /\ ns \in SUBSET Live(r) /\ IsFiniteSet(Live(r))
  BY WorkIs, HasIs
<1>2. IsDeleted(d, r, gone) /\ d.toClient = r.toClient
  BY <1>1, DeletedIs
<1>3. r.toClient[s] \in gone
  BY <1>1, TakenIs
<1>4. t = DeleteFromServerClientMaps(d, {s})
  BY DEF ParseEntityDeletion
<1> HIDE DEF t, d, gone
<1>5. d \in Work /\ Mirrors(d) /\ {s} \in SUBSET DOMAIN d.toClient /\ ~HasEntity(d, s)
  BY <1>2, <1>3 DEF IsDeleted, HasEntity
<1>6. IsForgotten(t, d, {s})
  BY <1>4, <1>5, Forgotten
<1>7. Live(t) = Live(d)
  BY <1>6 DEF IsForgotten, Live
<1>8. IsDeleted(t, r, gone)
  BY <1>2, <1>6, <1>7 DEF IsDeleted, IsForgotten
<1> QED BY <1>3, <1>8 DEF t, gone

(* A deletion that is read is carried out, or, of a player, noted as a     *)
(* death: what it dooms is gone or still doomed.                           *)
LEMMA DeletionMessageKeeps ==
  ASSUME ReplicaInv, tcp # <<>>, tcp[1].is = "EntityDeleted"
  PROVE  LET s == tcp[1].id
             dead == IF Dies(replica, s) THEN deaths \cup {replica.toClient[s]} ELSE deaths IN
         /\ SaneBy(ParseEntityDeletion(replica, s), Shown, Ids(server), nextID, Tail(tcp), dead \cup dying)
         /\ dead \in SUBSET Nat /\ IsFiniteSet(dead)
<1> DEFINE s == tcp[1].id
           dead == IF Dies(replica, s) THEN deaths \cup {replica.toClient[s]} ELSE deaths
           r == replica
           t == ParseEntityDeletion(replica, s)
           ids == Ids(server)
<1>1. tcp \in Messages /\ 1 \in DOMAIN tcp
  BY TailIs DEF ReplicaInv, MessagesAre
<1>2. IsMessage(tcp[1], Shown, ids, nextID)
  BY <1>1 DEF ReplicaInv, MessagesAre
<1>3. s \in Nat /\ tcp[1] = Deleted(s) /\ s \notin ids /\ tcp[1] # RemoveWorld /\ \A x : tcp[1] = Deleted(x) => x = s
  BY <1>2, MessageIs
<1>4. SaneBy(r, Shown, ids, nextID, tcp, deaths \cup dying) /\ r \in Work /\ Mirrors(r)
  BY DEF ReplicaInv, SaneBy
<1>5. \A a \in Live(r) : r.local[a].of = s => HasEntity(r, s) /\ r.toClient[s] = a
  BY <1>4, HasIs
<1>6. HasEntity(r, s) => r.toClient[s] \in Nat /\ r.local[r.toClient[s]].of = s
  BY <1>4, HasIs, WorkIs
<1>7. deaths \in SUBSET Nat /\ IsFiniteSet(deaths)
  BY DEF ReplicaInv, OthersTyped
<1> HIDE DEF s, ids
<1>8. CASE Dies(r, s)
  <2>1. t = r /\ dead = deaths \cup {r.toClient[s]} /\ HasEntity(r, s)
    BY <1>8 DEF ParseEntityDeletion, Dies
  <2> HIDE DEF t, dead
  <2>2. dead \in SUBSET Nat /\ IsFiniteSet(dead)
    <3>1. IsFiniteSet(deaths \cup {r.toClient[s]})
      BY <1>7, FS_AddElement
    <3> QED BY <1>6, <1>7, <2>1, <3>1
  <2>3. \A a \in Live(r) : tcp[1] = Deleted(r.local[a].of) => a \in dead \cup dying
    BY <1>3, <1>5, <2>1
  <2>4. \A a \in Live(r) : a \in dead \cup dying /\ a \notin deaths \cup dying => r.local[a].of \notin ids
    BY <1>3, <1>6, <2>1
  <2>5. deaths \cup dying \subseteq dead \cup dying
    BY <2>1
  <2>6. SaneBy(r, Shown, ids, nextID, Tail(tcp), dead \cup dying)
    BY <1>1, <1>3, <1>4, <2>3, <2>4, <2>5, ReadIsSane
  <2> QED BY <2>1, <2>2, <2>6 DEF dead, t, s, ids
<1>9. CASE ~HasEntity(r, s)
  <2>1. t = r /\ dead = deaths
    BY <1>9 DEF ParseEntityDeletion, Dies
  <2> HIDE DEF t, dead
  <2>2. \A a \in Live(r) : tcp[1] # Deleted(r.local[a].of)
    BY <1>3, <1>5, <1>9
  <2>3. SaneBy(r, Shown, ids, nextID, Tail(tcp), deaths \cup dying)
    BY <1>1, <1>3, <1>4, <2>2, ReadIsSane
  <2> QED BY <1>7, <2>1, <2>3 DEF dead, t, s, ids
<1>10. CASE HasEntity(r, s) /\ ~Dies(r, s)
  <2> DEFINE gone == Taken(r, {r.toClient[s]})
             tail == Tail(tcp)
  <2>1. dead = deaths
    BY <1>10
  <2>2. IsDeleted(t, r, gone) /\ r.toClient[s] \in gone
    BY <1>4, <1>10, DeletionIs
  <2> HIDE DEF t, dead, gone
  <2>3. \A i \in DOMAIN tcp : (i = 1) \/ (i - 1 \in DOMAIN tail /\ tail[i - 1] = tcp[i])
    BY <1>1, TailIs
  <2> HIDE DEF tail
  <2>4. ASSUME NEW a \in CondemnedBy(r, tcp, deaths \cup dying), a \notin gone
        PROVE  a \in CondemnedBy(t, tail, deaths \cup dying)
    <3>1. a \in Live(r) /\ a \in Live(t) /\ t.local[a] = r.local[a]
      BY <2>2, <2>4 DEF CondemnedBy, IsDeleted
    <3>2. r.local[a].of # s
      BY <1>5, <2>2, <2>4, <3>1
    <3>3. a \in deaths \cup dying \/ \E i \in DOMAIN tcp : tcp[i] = Deleted(r.local[a].of)
      BY <2>4 DEF CondemnedBy
    <3> QED BY <1>3, <2>3, <3>1, <3>2, <3>3 DEF CondemnedBy
  <2>5. (\E i \in DOMAIN tcp : tcp[i] = RemoveWorld) => \E i \in DOMAIN tail : tail[i] = RemoveWorld
    BY <1>3, <2>3
  <2>6. SaneBy(t, Shown, ids, nextID, tail, deaths \cup dying)
    <3>1. CondemnedBy(r, tcp, deaths \cup dying) \subseteq CondemnedBy(t, tail, deaths \cup dying) \cup gone
      BY <2>4
    <3> QED BY <1>4, <2>2, <2>5, <3>1, DeletedIsSane
  <2> QED BY <1>7, <2>1, <2>6 DEF dead, t, s, ids, tail
<1> QED BY <1>8, <1>9, <1>10 DEF Dies

(* A message that is read keeps the invariant.                             *)
LEMMA ReadMessageKeeps ==
  ASSUME ReplicaInv, ReadMessage
  PROVE  ReplicaInv'
<1> DEFINE m == tcp[1]
<1>1. /\ joined /\ tcp # <<>> /\ tcp' = Tail(tcp) /\ m = Head(tcp)
      /\ UNCHANGED <<server, nextID, worlds, joined, dying, localPlayer>>
      /\ replica' = Parsed(replica, m)
      /\ deaths' = IF m.is = "EntityDeleted" /\ Dies(replica, m.id)
                   THEN deaths \cup {replica.toClient[m.id]} ELSE deaths
  <2>1. joined /\ tcp # <<>> /\ tcp' = Tail(tcp)
    BY DEF ReadMessage
  <2>2. Head(tcp) = m
    BY <2>1, TailIs DEF ReplicaInv, MessagesAre
  <2> HIDE DEF m
  <2> QED BY <2>1, <2>2 DEF ReadMessage, Keeps, worldVars
<1>2. tcp \in Messages /\ 1 \in DOMAIN tcp /\ Tail(tcp) \in Messages
  BY <1>1, TailIs DEF ReplicaInv, MessagesAre
<1>3. IsMessage(m, Shown, Ids(server), nextID)
  BY <1>2 DEF ReplicaInv, MessagesAre
<1>4. MessagesAre(tcp', Shown, Ids(server), nextID)
  <2>1. \A i \in DOMAIN Tail(tcp) : i + 1 \in DOMAIN tcp /\ Tail(tcp)[i] = tcp[i + 1]
    BY <1>1, <1>2, TailIs
  <2> QED BY <1>1, <1>2, <2>1 DEF ReplicaInv, MessagesAre
<1>5. OthersTyped /\ localPlayer \in [id : Int, stale : BOOLEAN]
  BY DEF ReplicaInv
<1>6. /\ SaneBy(replica', Shown, Ids(server), nextID, tcp', deaths' \cup dying')
      /\ deaths' \in SUBSET Nat /\ IsFiniteSet(deaths')
  <2>1. CASE m.is = "EntityDeleted"
    <3>1. replica' = ParseEntityDeletion(replica, m.id)
      BY <1>1, <2>1 DEF Parsed
    <3>2. deaths' = IF Dies(replica, m.id) THEN deaths \cup {replica.toClient[m.id]} ELSE deaths
      BY <1>1, <2>1
    <3> QED BY <1>1, <2>1, <3>1, <3>2, DeletionMessageKeeps
  <2>2. CASE m.is # "EntityDeleted"
    <3>1. deaths' = deaths /\ deaths \in SUBSET Nat /\ IsFiniteSet(deaths)
      BY <1>1, <1>5, <2>2 DEF OthersTyped
    <3>2. CASE m.is = "Snapshot"
      <4>1. replica' = ParseSnapshot(replica, m.world)
        BY <1>1, <3>2 DEF Parsed
      <4> QED BY <1>1, <3>1, <3>2, <4>1, SnapshotMessageKeeps
    <3>3. CASE m.is = "OnPlayerSpawned"
      <4>1. replica' = ParsePlayersSpawned(replica, m.id)
        BY <1>1, <3>3 DEF Parsed
      <4> QED BY <1>1, <3>1, <3>3, <4>1, SpawnMessageKeeps
    <3>4. CASE m.is = "RemoveWorld"
      <4>1. replica' = Emptied(replica)
        BY <1>1, <3>4 DEF Parsed
      <4>2. replica \in Work /\ Mirrors(replica)
        BY DEF ReplicaInv, SaneBy
      <4>3. SaneBy(Emptied(replica), Shown, Ids(server), nextID, Tail(tcp), deaths \cup dying)
        BY <4>2, EmptiedIsSane
      <4> QED BY <1>1, <3>1, <4>1, <4>3
    <3> QED BY <1>3, <2>2, <3>2, <3>3, <3>4, MessageIs
  <2> QED BY <2>1, <2>2
<1>7. OthersTyped' /\ localPlayer' \in [id : Int, stale : BOOLEAN]
  BY <1>1, <1>5, <1>6 DEF OthersTyped
<1> HIDE DEF m
<1> QED BY <1>1, <1>4, <1>6, <1>7, ClientKeeps

(* Whether a replica is sane does not depend on its queues.                *)
LEMMA SaneDependsOn ==
  ASSUME NEW r, NEW t \in Work, t.local = r.local, t.toClient = r.toClient, t.toServer = r.toServer,
         NEW known, NEW ids, NEW next, NEW messages, NEW dead, SaneBy(r, known, ids, next, messages, dead)
  PROVE  SaneBy(t, known, ids, next, messages, dead)
<1>1. Live(t) = Live(r) /\ Copies(t) = Copies(r)
  BY DEF Live, Copies
<1>2. DoomedBy(t, messages, dead) = DoomedBy(r, messages, dead)
  BY <1>1 DEF DoomedBy, CondemnedBy, Taken
<1> QED BY <1>1, <1>2 DEF SaneBy, Mirrors, CopiesBy, IsCopyOf, GhostsBy

(* The end of a frame, in which the dead are deleted, keeps the invariant. *)
LEMMA EndFrameKeeps ==
  ASSUME ReplicaInv, EndFrame
  PROVE  ReplicaInv'
<1> DEFINE r == replica
           d == DeleteEntities(r, dying)
           gone == Taken(r, dying \cap Live(r))
           t == [d EXCEPT !.published = <<>>]
<1>1. /\ replica' = t /\ dying' = deaths /\ deaths' = {}
      /\ localPlayer' = IF r.published = <<>> THEN localPlayer ELSE r.published[Len(r.published)]
      /\ UNCHANGED <<server, nextID, worlds, joined, tcp>>
  BY DEF EndFrame, worldVars, network
<1>2. SaneBy(r, Shown, Ids(server), nextID, tcp, deaths \cup dying) /\ r \in Work /\ Mirrors(r)
  BY DEF ReplicaInv, SaneBy
<1>3. IsDeleted(d, r, gone)
  BY <1>2, DeletedIs
<1>4. dying \cap Live(r) \subseteq gone
  BY <1>2, TakenIs, WorkIs
<1> HIDE DEF d, gone
<1>5. d \in Work
  BY <1>3 DEF IsDeleted
<1>6. t \in Work /\ t.local = d.local /\ t.toClient = d.toClient /\ t.toServer = d.toServer
  <2>1. <<>> \in Spawns
    BY DEF Spawns
  <2> QED BY <1>5, <2>1 DEF Work
<1> HIDE DEF t
<1>7. CondemnedBy(r, tcp, deaths \cup dying) \subseteq CondemnedBy(d, tcp, deaths) \cup gone
  <2>1. \A a \in Live(r) : a \notin gone => a \in Live(d) /\ d.local[a] = r.local[a]
    BY <1>3 DEF IsDeleted
  <2> QED BY <1>4, <2>1 DEF CondemnedBy
<1>8. SaneBy(d, Shown, Ids(server), nextID, tcp, deaths)
  BY <1>2, <1>3, <1>7, DeletedIsSane
<1>9. SaneBy(t, Shown, Ids(server), nextID, tcp, deaths)
  BY <1>6, <1>8, SaneDependsOn
<1>10. deaths' \cup dying' = deaths
  BY <1>1
<1>11. Live(t) \subseteq Live(r)
  BY <1>3, <1>6 DEF IsDeleted, Live
<1>12. localPlayer' \in [id : Int, stale : BOOLEAN]
  <2>1. CASE r.published = <<>>
    BY <1>1, <2>1 DEF ReplicaInv
  <2>2. CASE r.published # <<>>
    <3>1. r.published \in Seq(Spawn)
      BY <1>2, WorkIs DEF Spawns
    <3>2. r.published[Len(r.published)] \in Spawn
      BY <2>2, <3>1
    <3> QED BY <1>1, <2>2, <3>2 DEF Spawn
  <2> QED BY <2>1, <2>2
<1>13. OthersTyped'
  <2>1. localPlayer'.id \in Int
    BY <1>12
  <2> QED BY <1>1, <2>1, FS_EmptySet DEF ReplicaInv, OthersTyped
<1> QED BY <1>1, <1>9, <1>10, <1>11, <1>12, <1>13, ClientKeeps DEF ReplicaInv

(* To disconnect keeps the invariant: what the maps still have has no      *)
(* copy.                                                                   *)
LEMMA LeaveKeeps ==
  ASSUME ReplicaInv, Leave
  PROVE  ReplicaInv'
<1> DEFINE e == Emptied(replica)
           list == [i \in DOMAIN e.spawns |-> [e.spawns[i] EXCEPT !.stale = TRUE]]
           t == [e EXCEPT !.spawns = list]
<1>1. /\ joined' = FALSE /\ tcp' = <<>> /\ worlds' = {} /\ replica' = t
      /\ UNCHANGED <<server, nextID, deaths, dying, localPlayer>>
  BY DEF Leave, worldVars
<1>2. replica \in Work /\ Mirrors(replica)
  BY DEF ReplicaInv, SaneBy
<1>3. SaneBy(e, {}, Ids(server), nextID, <<>>, deaths \cup dying) /\ Live(e) = {}
  BY <1>2, EmptiedIsSane
<1> HIDE DEF e
<1>4. e \in Work
  BY <1>3 DEF SaneBy
<1>5. list \in Spawns
  <2>1. Len(e.spawns) \in Nat /\ DOMAIN e.spawns = 1 .. Len(e.spawns) /\ \A i \in DOMAIN e.spawns : e.spawns[i] \in Spawn
    BY <1>4, WorkIs, SpawnsAre
  <2>2. \A i \in 1 .. Len(e.spawns) : list[i] \in Spawn
    BY <2>1 DEF Spawn
  <2>3. list = [i \in 1 .. Len(e.spawns) |-> list[i]]
    BY <2>1
  <2> HIDE DEF list
  <2> QED BY <2>1, <2>2, <2>3, IsSequence DEF Spawns
<1> HIDE DEF list
<1>6. t \in Work /\ t.local = e.local /\ t.toClient = e.toClient /\ t.toServer = e.toServer
  BY <1>4, <1>5 DEF Work
<1> HIDE DEF t
<1>7. SaneBy(t, {}, Ids(server), nextID, <<>>, deaths \cup dying) /\ Live(t) = {}
  <2>1. Live(t) = Live(e)
    BY <1>6 DEF Live
  <2> QED BY <1>3, <1>6, <2>1, SaneDependsOn
<1>8. Shown' = {}
  BY <1>1 DEF Shown
<1>9. KnownIs({}, nextID) /\ WorldsAre({})
  BY DEF KnownIs, WorldsAre
<1>10. ServerIs(server, {}, nextID, FALSE)
  BY DEF ReplicaInv, ServerIs, Ids
<1>11. MessagesAre(<<>>, {}, Ids(server), nextID)
  BY DEF MessagesAre, Messages
<1>12. OthersTyped' /\ nextID' \in Nat /\ localPlayer' \in [id : Int, stale : BOOLEAN]
  BY <1>1 DEF ReplicaInv, OthersTyped
<1> QED BY <1>1, <1>7, <1>8, <1>9, <1>10, <1>11, <1>12 DEF ReplicaInv

(* The world a server begins with.                                         *)
LEMMA FirstWorldIs ==
  /\ KnownIs({}, 1) /\ WorldsAre({}) /\ ServerIs({Map}, {}, 1, TRUE)
  /\ MessagesAre(<<Snapshot({Map})>>, {}, Ids({Map}), 1)
<1>1. Map = Entity(0, "map", EntityID_Invalid) /\ Map.id = 0 /\ Map.is = "map" /\ Map.parent = EntityID_Invalid
  BY DEF Map, Entity
<1>2. Map \in EntityRecord
  BY DEF Map, Entity, EntityRecord, Kind, EntityID_Invalid
<1>3. IsFiniteSet({Map})
  BY FS_Singleton
<1>4. ServerIs({Map}, {}, 1, TRUE)
  <2> DEFINE e == Map
  <2>1. e.id = 0 /\ e.is = "map" /\ e.parent = EntityID_Invalid /\ e \in EntityRecord /\ IsFiniteSet({e})
    BY <1>1, <1>2, <1>3
  <2> HIDE DEF e
  <2>2. ServerIs({e}, {}, 1, TRUE)
    BY <2>1 DEF ServerIs, Ids
  <2> QED BY <2>2 DEF e
<1>5. KnownIs({}, 1) /\ WorldsAre({})
  BY DEF KnownIs, WorldsAre
<1> DEFINE m == Snapshot({Map})
<1>6. m \in Message /\ IsMessage(m, {}, Ids({Map}), 1)
  <2>1. \E k \in Nat : m = Snapshot({Entity(k, "map", EntityID_Invalid)}) /\ k < 1 /\ k \notin Ids({})
    <3>1. 0 \in Nat /\ 0 < 1 /\ 0 \notin Ids({})
      BY DEF Ids
    <3> QED BY <1>1, <3>1
  <2> HIDE DEF m
  <2> QED BY <2>1 DEF Message, IsMessage
<1> HIDE DEF m
<1>7. MessagesAre(<<m>>, {}, Ids({Map}), 1)
  BY <1>6 DEF MessagesAre, Messages
<1> QED BY <1>4, <1>5, <1>7 DEF m

(* To join another server keeps the invariant.                             *)
LEMMA JoinKeeps ==
  ASSUME ReplicaInv, Join
  PROVE  ReplicaInv'
<1>1. /\ joined = FALSE /\ joined' = TRUE /\ server' = {Map} /\ nextID' = 1
      /\ tcp' = <<Snapshot({Map})>> /\ worlds' = {}
      /\ UNCHANGED <<replica, deaths, dying, localPlayer>>
  BY DEF Join, ReplicaInv
<1>2. Live(replica) = {} /\ replica \in Work /\ Mirrors(replica)
  BY <1>1 DEF ReplicaInv, SaneBy
<1>3. SaneBy(replica, {}, Ids({Map}), 1, <<Snapshot({Map})>>, deaths \cup dying)
  BY <1>2 DEF SaneBy, CopiesBy, GhostsBy
<1>4. Shown' = {}
  BY <1>1 DEF Shown
<1>5. OthersTyped' /\ localPlayer' \in [id : Int, stale : BOOLEAN]
  BY <1>1 DEF ReplicaInv, OthersTyped
<1>6. 1 \in Nat /\ TRUE \in BOOLEAN
  OBVIOUS
<1> QED BY <1>1, <1>3, <1>4, <1>5, <1>6, FirstWorldIs DEF ReplicaInv

(* ReplicaInv holds of the first session's first world.                    *)
LEMMA ReplicaInitInv == ReplicaInit => ReplicaInv
<1> SUFFICES ASSUME ReplicaInit PROVE ReplicaInv
  OBVIOUS
<1>1. /\ server = {Map} /\ nextID = 1 /\ tcp = <<Snapshot({Map})>> /\ worlds = {} /\ joined = TRUE
      /\ deaths = {} /\ dying = {} /\ localPlayer = Nobody
      /\ replica = [local |-> <<>>, toClient |-> <<>>, toServer |-> <<>>, spawns |-> <<>>, published |-> <<>>]
  BY DEF ReplicaInit
<1>2. <<>> \in LocalEntities /\ <<>> \in IDs /\ <<>> \in Spawns
  <2>1. <<>> \in [{} -> LocalEntity] /\ <<>> \in [{} -> Nat] /\ <<>> \in Seq(Spawn)
    OBVIOUS
  <2>2. IsFiniteSet({}) /\ {} \in SUBSET Nat
    BY FS_EmptySet
  <2> QED BY <2>1, <2>2 DEF LocalEntities, IDs, Maps, Spawns
<1>3. replica \in Work
  BY <1>1, <1>2 DEF Work
<1>4. Live(replica) = {} /\ DOMAIN replica.toClient = {}
  BY <1>1 DEF Live
<1>5. SaneBy(replica, {}, Ids({Map}), 1, <<Snapshot({Map})>>, deaths \cup dying)
  BY <1>3, <1>4 DEF SaneBy, CopiesBy, GhostsBy, Mirrors
<1>6. Shown = {}
  BY <1>1 DEF Shown
<1>7. localPlayer \in [id : Int, stale : BOOLEAN] /\ localPlayer.id \in Int
  BY <1>1 DEF Nobody, EntityID_Invalid
<1>8. OthersTyped
  BY <1>1, <1>7, FS_EmptySet DEF OthersTyped
<1>9. 1 \in Nat /\ TRUE \in BOOLEAN
  OBVIOUS
<1> QED BY <1>1, <1>5, <1>6, <1>7, <1>8, <1>9, FirstWorldIs DEF ReplicaInv

(* Every step keeps ReplicaInv.                                            *)
LEMMA ReplicaStepInv == ReplicaInv /\ [ReplicaNext]_replicaVars => ReplicaInv'
<1> SUFFICES ASSUME ReplicaInv, [ReplicaNext]_replicaVars PROVE ReplicaInv'
  OBVIOUS
<1>1. CASE ServerStep
  BY <1>1, SpawnPlayerKeeps, SpawnPickupKeeps, DeleteKeeps, ResetMapKeeps DEF ServerStep
<1>2. CASE ClientStep
  BY <1>2, ReadSnapshotKeeps, ReadMessageKeeps, EndFrameKeeps DEF ClientStep
<1>3. CASE Leave \/ Join
  BY <1>3, LeaveKeeps, JoinKeeps
<1>4. CASE UNCHANGED replicaVars
  <2>1. UNCHANGED <<server, nextID, tcp, worlds, joined, replica, deaths, dying, localPlayer>>
    BY <1>4 DEF replicaVars, worldVars, network
  <2> QED BY <2>1 DEF ReplicaInv, OthersTyped, Shown
<1> QED BY <1>1, <1>2, <1>3, <1>4 DEF ReplicaNext

(* What snapshots had of an entity is always the same; every message in    *)
(* the stream is about what it can be about; both maps of the replica      *)
(* mirror its copies; every copy is of something a snapshot or a reset     *)
(* had; and what is gone on the server and not late is doomed by what was  *)
(* read or is to come.                                                     *)
THEOREM ReplicaIsSane == ReplicaSpec => []ReplicaInv
<1>1. ReplicaInit => ReplicaInv
  BY ReplicaInitInv
<1>2. ReplicaInv /\ [ReplicaNext]_replicaVars => ReplicaInv'
  BY ReplicaStepInv
<1> QED BY <1>1, <1>2, PTL DEF ReplicaSpec

(* Every entity of the server has one copy at most, which both maps lead   *)
(* to and from, and the copy of one that is gone came late or is going to  *)
(* be deleted, whatever snapshots are lost, doubled or late and for any    *)
(* number of entities and servers (parseSnapshot, parseEntityDeletion and  *)
(* DeleteEntity).                                                          *)
THEOREM CopiesAreAlwaysExplained == ReplicaSpec => []CopiesAreExplained
<1>1. ReplicaInv => CopiesAreExplained
  <2> SUFFICES ASSUME ReplicaInv PROVE CopiesAreExplained
    OBVIOUS
  <2>1. Sane(replica)
    BY SaneIs DEF ReplicaInv
  <2>2. MapsMirror
    BY <2>1 DEF Sane, Mirrors, MapsMirror
  <2>3. GhostsAreExplained
    BY <2>1 DEF Sane, GhostsOf, GhostsAreExplained
  <2> QED BY <2>2, <2>3 DEF CopiesAreExplained
<1> QED BY <1>1, ReplicaIsSane, PTL

(***************************************************************************)
(* What stays.                                                             *)
(***************************************************************************)

(* Below a copy of what is gone there is only what is gone.                *)
LEMMA OnlyTheGoneGo ==
  ASSUME ReplicaInv, joined, NEW ns \in SUBSET Live(replica), \A n \in ns : ~Exists(replica.local[n].of)
  PROVE  \A n \in Taken(replica, ns) : ~Exists(replica.local[n].of)
<1> DEFINE r == replica
           T == {n \in Live(r) : ~Exists(r.local[n].of)}
<1>1. /\ KnownIs(Shown, nextID) /\ ServerIs(server, Shown, nextID, TRUE)
      /\ CopiesBy(r, Shown, Ids(server), nextID) /\ r \in Work
  BY DEF ReplicaInv, SaneBy
<1>2. ASSUME NEW n \in Live(r), r.local[n].parent \in T, Exists(r.local[n].of)
      PROVE  FALSE
  <2>1. /\ r.local[n].parent \in Live(r) /\ r.local[n].parent # EntityID_Invalid
        /\ r.local[r.local[n].parent].of \in Nat
    BY <1>1, <1>2, WorkIs DEF EntityID_Invalid, LocalEntity
  <2>2. PICK e \in Shown : IsCopyOf(r, n, e)
    BY <1>1, <2>1 DEF CopiesBy
  <2>3. e.parent = r.local[r.local[n].parent].of /\ e.id = r.local[n].of
    BY <2>1, <2>2 DEF IsCopyOf
  <2>4. PICK f \in server : f.id = e.id
    BY <1>2, <2>3 DEF Exists, Ids
  <2>5. f = e
    <3>1. f.is # "map"
      BY <1>1, <2>4 DEF ServerIs, Ids
    <3> QED BY <1>1, <2>4, <3>1 DEF ServerIs, KnownIs
  <2>6. e.parent \in Ids(server)
    BY <1>1, <2>1, <2>3, <2>5 DEF ServerIs, EntityID_Invalid
  <2> QED BY <1>2, <2>3, <2>6 DEF Exists
<1>3. ClosedIn(r, T)
  BY <1>2 DEF ClosedIn
<1>4. ns \subseteq T /\ T \in SUBSET Live(r) /\ IsFiniteSet(Live(r))
  BY <1>1, WorkIs
<1> HIDE DEF T
<1>5. Taken(r, ns) \subseteq T
  BY <1>3, <1>4, TakenIs
<1> QED BY <1>5 DEF T

(* What the parsing of a snapshot comes to.                                *)
IsSnapshotParsed(t, u, list, r, world) ==
  /\ Sane(u) /\ Kept(u, r) /\ IsAnnounced(t, u, list)
  /\ \A e \in world : HasEntity(u, e.id)

(* What the parsing of a snapshot comes to, from a replica that is sane.   *)
LEMMA SnapshotParsedIs ==
  ASSUME ReplicaInv, NEW world, Says(world)
  PROVE  \E u, list : IsSnapshotParsed(ParseSnapshot(replica, world), u, list, replica, world)
<1> DEFINE u == ParseEntities(replica, InOrder(world))
<1>1. KnownInv /\ OthersTyped /\ Sane(replica)
  BY IsKnown, SaneIs DEF ReplicaInv
<1>2. Sane(u) /\ Kept(u, replica) /\ \A e \in world : HasEntity(u, e.id)
  BY <1>1, EntitiesAreParsed
<1> HIDE DEF u
<1>3. PICK list : IsAnnounced(ParseSpawnEvents(u), u, list)
  BY <1>2, SpawnEventsAreParsed DEF Sane
<1>4. IsSnapshotParsed(ParseSnapshot(replica, world), u, list, replica, world)
  BY <1>2, <1>3 DEF IsSnapshotParsed, ParseSnapshot, u
<1> QED BY <1>4

(* No snapshot takes a copy away.                                          *)
LEMMA SnapshotKeepsLive ==
  ASSUME ReplicaInv, NEW world, Says(world)
  PROVE  Live(replica) \subseteq Live(ParseSnapshot(replica, world))
<1>1. PICK u, list : IsSnapshotParsed(ParseSnapshot(replica, world), u, list, replica, world)
  BY SnapshotParsedIs
<1>2. Live(ParseSnapshot(replica, world)) = Live(u)
  BY <1>1 DEF IsSnapshotParsed, IsAnnounced, Live
<1> QED BY <1>1, <1>2 DEF IsSnapshotParsed, Kept

(* The map that a message of the stream has.                               *)
LEMMA FirstMessageIs ==
  ASSUME ReplicaInv, tcp # <<>>
  PROVE  /\ tcp \in Messages /\ 1 \in DOMAIN tcp /\ Head(tcp) = tcp[1]
         /\ IsMessage(tcp[1], Shown, Ids(server), nextID)
         /\ tcp[1].is = "Snapshot" => Says(tcp[1].world)
<1>1. tcp \in Messages /\ 1 \in DOMAIN tcp /\ Head(tcp) = tcp[1]
  BY TailIs DEF ReplicaInv, MessagesAre
<1>2. IsMessage(tcp[1], Shown, Ids(server), nextID)
  BY <1>1 DEF ReplicaInv, MessagesAre
<1>3. ASSUME tcp[1].is = "Snapshot"
      PROVE  Says(tcp[1].world)
  <2>1. PICK k \in Nat : tcp[1].world = {Entity(k, "map", EntityID_Invalid)} /\ k < nextID /\ k \notin Ids(Shown)
    BY <1>2, <1>3, MessageIs
  <2> DEFINE e == Entity(k, "map", EntityID_Invalid)
  <2>2. e.is = "map" /\ Told(e) /\ tcp[1].world = {e}
    BY <2>1 DEF Entity, Told
  <2> HIDE DEF e
  <2>3. IsFiniteSet({e})
    BY FS_Singleton
  <2> QED BY <2>2, <2>3 DEF Says
<1> QED BY <1>1, <1>2, <1>3

(* No spawn that is read takes a copy away or makes one.                   *)
LEMMA SpawnKeepsLive ==
  ASSUME ReplicaInv, NEW s \in Nat
  PROVE  Live(ParsePlayersSpawned(replica, s)) = Live(replica)
<1> DEFINE r == [replica EXCEPT !.spawns = Append(@, [id |-> s, stale |-> FALSE])]
           t == ParsePlayersSpawned(replica, s)
<1>1. Sane(r)
  BY SaneIs, WaitingIsSane DEF ReplicaInv
<1>2. t = ParseSpawnEvents(r)
  BY DEF ParsePlayersSpawned
<1>3. replica \in Work
  BY DEF ReplicaInv, SaneBy
<1>4. r.local = replica.local
  BY <1>3 DEF Work
<1> HIDE DEF t, r
<1>5. PICK list : IsAnnounced(t, r, list)
  BY <1>1, <1>2, SpawnEventsAreParsed DEF Sane
<1>6. Live(t) = Live(replica)
  BY <1>4, <1>5 DEF IsAnnounced, Live
<1> QED BY <1>6 DEF t

(* The copy of an entity that is there stays, whatever a message says that *)
(* is not about all of them, and when the frame ends.                      *)
LEMMA CopiesStayInMessage ==
  ASSUME ReplicaInv, ReadMessage, Head(tcp).is # "RemoveWorld",
         NEW n \in Live(replica), Exists(replica.local[n].of)
  PROVE  n \in Live(replica')
<1> DEFINE m == tcp[1]
<1>1. /\ joined /\ tcp # <<>> /\ m = Head(tcp) /\ IsMessage(m, Shown, Ids(server), nextID)
      /\ m.is = "Snapshot" => Says(m.world)
      /\ replica' = Parsed(replica, m)
  <2>1. joined /\ tcp # <<>> /\ replica' = Parsed(replica, Head(tcp))
    BY DEF ReadMessage
  <2> HIDE DEF m
  <2> QED BY <2>1, FirstMessageIs DEF m
<1>2. replica \in Work /\ Mirrors(replica)
  BY DEF ReplicaInv, SaneBy
<1> HIDE DEF m
<1>3. CASE m.is = "Snapshot"
  <2>1. replica' = ParseSnapshot(replica, m.world)
    BY <1>1, <1>3 DEF Parsed
  <2> QED BY <1>1, <1>3, <2>1, SnapshotKeepsLive
<1>4. CASE m.is = "OnPlayerSpawned"
  <2>1. replica' = ParsePlayersSpawned(replica, m.id) /\ m.id \in Nat
    BY <1>1, <1>4, MessageIs DEF Parsed
  <2> QED BY <2>1, SpawnKeepsLive
<1>5. CASE m.is = "EntityDeleted"
  <2>1. replica' = ParseEntityDeletion(replica, m.id) /\ m.id \notin Ids(server)
    BY <1>1, <1>5, MessageIs DEF Parsed
  <2>2. CASE ~HasEntity(replica, m.id) \/ Dies(replica, m.id)
    BY <2>1, <2>2 DEF ParseEntityDeletion
  <2>3. CASE HasEntity(replica, m.id) /\ ~Dies(replica, m.id)
    <3> DEFINE c == replica.toClient[m.id]
               gone == Taken(replica, {c})
    <3>1. IsDeleted(replica', replica, gone)
      BY <1>2, <2>1, <2>3, DeletionIs
    <3>2. c \in Live(replica) /\ replica.local[c].of = m.id
      BY <1>2, <2>3, HasIs
    <3>3. \A k \in gone : ~Exists(replica.local[k].of)
      <4>1. {c} \in SUBSET Live(replica) /\ \A k \in {c} : ~Exists(replica.local[k].of)
        BY <2>1, <3>2 DEF Exists
      <4> HIDE DEF c
      <4> QED BY <1>1, <4>1, OnlyTheGoneGo
    <3> QED BY <3>1, <3>3 DEF IsDeleted
  <2> QED BY <2>2, <2>3
<1> QED BY <1>1, <1>3, <1>4, <1>5, MessageIs

(* What the end of a frame does to the replica: the dead go with what is   *)
(* below them.                                                             *)
LEMMA FrameDeletes ==
  ASSUME ReplicaInv, EndFrame
  PROVE  LET gone == Taken(replica, dying \cap Live(replica)) IN
         /\ IsDeleted(DeleteEntities(replica, dying), replica, gone)
         /\ replica' = [DeleteEntities(replica, dying) EXCEPT !.published = <<>>]
         /\ DeleteEntities(replica, dying) \in Work
         /\ replica'.local = DeleteEntities(replica, dying).local /\ replica'.toClient = replica.toClient
         /\ replica'.spawns = replica.spawns /\ replica'.published = <<>>
         /\ Live(replica') = Live(replica) \ gone
<1> DEFINE d == DeleteEntities(replica, dying)
           gone == Taken(replica, dying \cap Live(replica))
<1>1. IsDeleted(d, replica, gone) /\ d.toClient = replica.toClient
  BY DeletedIs DEF ReplicaInv, SaneBy
<1>2. replica' = [d EXCEPT !.published = <<>>]
  BY DEF EndFrame
<1> HIDE DEF d, gone
<1>3. d \in Work /\ d.spawns = replica.spawns /\ Live(d) = Live(replica) \ gone
  BY <1>1 DEF IsDeleted
<1>4. /\ replica'.local = d.local /\ replica'.toClient = d.toClient /\ replica'.spawns = d.spawns
      /\ replica'.published = <<>>
  BY <1>2, <1>3 DEF Work
<1>5. Live(replica') = Live(d)
  BY <1>4 DEF Live
<1> QED BY <1>1, <1>2, <1>3, <1>4, <1>5 DEF d, gone

(* The end of a frame takes no copy of what is still there.                *)
LEMMA CopiesStayInFrame ==
  ASSUME ReplicaInv, EndFrame, joined, NEW n \in Live(replica), Exists(replica.local[n].of)
  PROVE  n \in Live(replica')
<1>1. \A k \in dying \cap Live(replica) : ~Exists(replica.local[k].of)
  BY DEF ReplicaInv, SaneBy, Exists
<1>2. \A k \in Taken(replica, dying \cap Live(replica)) : ~Exists(replica.local[k].of)
  BY <1>1, OnlyTheGoneGo
<1>3. Live(replica') = Live(replica) \ Taken(replica, dying \cap Live(replica))
  BY FrameDeletes
<1> QED BY <1>2, <1>3

(* The copy of an entity that is still there stays: no message about       *)
(* another, however late, takes it away, nor a death. Only the removal of  *)
(* the world does (parseRemoveWorld).                                      *)
THEOREM CopiesAlwaysStay == ReplicaSpec => CopiesStay
<1> DEFINE Stays ==
      (joined /\ joined') =>
       \A n \in Live(replica) :
         LET s == replica.local[n].of IN
         Exists(s) /\ s \in Ids(server') =>
           n \in Live(replica') \/ (tcp # tcp' /\ Head(tcp).is = "RemoveWorld")
<1>1. ReplicaInv /\ [ReplicaNext]_replicaVars => Stays
  <2> SUFFICES ASSUME ReplicaInv, [ReplicaNext]_replicaVars, joined, joined',
                      NEW n \in Live(replica), Exists(replica.local[n].of),
                      ~(tcp # tcp' /\ Head(tcp).is = "RemoveWorld")
               PROVE  n \in Live(replica')
    BY Zenon
  <2>1. CASE ServerStep \/ UNCHANGED replicaVars
    BY <2>1 DEF ServerStep, SpawnPlayer, SpawnPickup, Delete, ResetMap, Becomes, replicaVars
  <2>2. ASSUME NEW world \in worlds, ReadSnapshot(world)
        PROVE  n \in Live(replica')
    <3>1. Says(world)
      BY SnapshotsSay DEF ReplicaInv
    <3> QED BY <2>2, <3>1, SnapshotKeepsLive DEF ReadSnapshot
  <2>3. CASE ReadMessage
    <3>1. tcp # <<>> /\ tcp' = Tail(tcp) /\ tcp \in Messages
      BY <2>3, FirstMessageIs DEF ReadMessage
    <3>2. tcp # tcp'
      <4>1. Len(Tail(tcp)) # Len(tcp)
        BY <3>1 DEF Messages
      <4> QED BY <3>1, <4>1
    <3> QED BY <2>3, <3>2, CopiesStayInMessage
  <2>4. CASE EndFrame
    BY <2>4, CopiesStayInFrame
  <2>5. CASE Leave \/ Join
    BY <2>5 DEF Leave, Join
  <2> QED BY <2>1, <2>2, <2>3, <2>4, <2>5 DEF ReplicaNext, ClientStep
<1> QED BY <1>1, ReplicaIsSane, PTL DEF ReplicaSpec, CopiesStay

(***************************************************************************)
(* The local player.                                                       *)
(***************************************************************************)
SelfIn(known, s) == \E e \in known : e.id = s /\ e.is = "self"

(* What takes away the copy of a player of this client.                    *)
Undoes(m, known) == m = RemoveWorld \/ \E s \in Nat : m = Deleted(s) /\ SelfIn(known, s)

(* The copy of whoever was the player before has gone by the time that the *)
(* next one is announced.                                                  *)
UndoneBefore(id, messages, known) ==
  \A j \in DOMAIN messages : Undoes(messages[j], known) =>
    \E i \in DOMAIN messages : j < i /\ messages[i] = Spawned(id)

SpawnsAreUndone(messages, known, ids) ==
  \A i \in DOMAIN messages : \A s \in Nat : messages[i] = Spawned(s) /\ s \notin ids =>
    \E j \in DOMAIN messages : i < j /\ Undoes(messages[j], known)

(* A spawn that waits has no copy, and was a spawn of this client's player *)
(* unless it is of an earlier session.                                     *)
WaitBy(r, known, in) ==
  \A i \in DOMAIN r.spawns :
    /\ ~HasEntity(r, r.spawns[i].id)
    /\ ~r.spawns[i].stale => in /\ SelfIn(known, r.spawns[i].id)

(* The local player once all that was published is handled.                *)
CandidateOf(r, player) == IF r.published = <<>> THEN player ELSE r.published[Len(r.published)]

IsLate(r, player, dead) ==
  /\ player.id \in Live(r) /\ r.local[player.id].late /\ r.local[player.id].is = "self"
  /\ player.id \notin dead

IsFollowed(id, r, messages, dead, player) ==
  \/ \E i \in DOMAIN messages : messages[i] = Spawned(id)
  \/ \E i \in DOMAIN r.spawns : r.spawns[i].id = id
  \/ HasEntity(r, id) /\ player.id = r.toClient[id]
  \/ player.stale
  \/ IsLate(r, player, dead)

OneSelf(world) == \A e, f \in world : e.is = "self" /\ f.is = "self" => e = f

FollowBy(world, r, messages, known, dead, player) ==
  \A e \in world : e.is = "self" =>
    UndoneBefore(e.id, messages, known) /\ IsFollowed(e.id, r, messages, dead, player)

FollowInv ==
  /\ WaitBy(replica, Shown, joined)
  /\ SpawnsAreUndone(tcp, Shown, Ids(server))
  /\ joined => /\ OneSelf(server)
               /\ FollowBy(server, replica, tcp, Shown, deaths \cup dying, CandidateOf(replica, localPlayer))

(* A player's copy has nothing above it.                                   *)
LEMMA SelfIsRoot ==
  ASSUME NEW r, NEW known, NEW ids, NEW next, NEW messages, NEW dead,
         SaneBy(r, known, ids, next, messages, dead), KnownIs(known, next),
         NEW n \in Live(r), r.local[n].is = "self"
  PROVE  /\ r.local[n].parent = EntityID_Invalid /\ SelfIn(known, r.local[n].of)
         /\ \A ns \in SUBSET Live(r) : n \notin ns => n \notin Taken(r, ns)
<1>1. r \in Work /\ CopiesBy(r, known, ids, next)
  BY DEF SaneBy
<1>2. PICK e \in known : IsCopyOf(r, n, e)
  BY <1>1 DEF CopiesBy
<1>3. e.is = "self" /\ e.parent = EntityID_Invalid /\ e.id = r.local[n].of
  BY <1>2 DEF IsCopyOf, KnownIs, IsPlayer
<1>4. r.local[n].parent = EntityID_Invalid
  <2>1. \A m \in Live(r) : r.local[m].of \in Nat
    BY <1>1, WorkIs DEF LocalEntity
  <2> QED BY <1>2, <1>3, <2>1 DEF IsCopyOf, EntityID_Invalid
<1>5. ASSUME NEW ns \in SUBSET Live(r), n \notin ns
      PROVE  n \notin Taken(r, ns)
  <2> DEFINE T == Taken(r, ns) \ {n}
  <2>1. ns \subseteq Taken(r, ns) /\ Taken(r, ns) \subseteq Live(r) /\ ClosedIn(r, Taken(r, ns)) /\ IsFiniteSet(Live(r))
    BY <1>1, TakenIs, WorkIs
  <2>2. EntityID_Invalid \notin Live(r)
    BY <1>1, WorkIs DEF EntityID_Invalid
  <2>3. ns \subseteq T /\ T \in SUBSET Live(r) /\ ClosedIn(r, T)
    BY <1>4, <1>5, <2>1, <2>2 DEF ClosedIn
  <2>4. n \notin T
    OBVIOUS
  <2> HIDE DEF T
  <2> QED BY <2>1, <2>3, <2>4, TakenIs
<1> QED BY <1>3, <1>4, <1>5 DEF SelfIn

(* A copy of a player who is no more either came late, or has died, or     *)
(* there is something to come that takes it away.                          *)
LEMMA GoneSelf ==
  ASSUME NEW r, NEW known, NEW ids, NEW next, NEW messages, NEW dead,
         SaneBy(r, known, ids, next, messages, dead), KnownIs(known, next),
         NEW n \in Live(r), r.local[n].is = "self", r.local[n].of \notin ids,
         n \notin dead, ~r.local[n].late
  PROVE  \E j \in DOMAIN messages : Undoes(messages[j], known)
<1>1. n \in DoomedBy(r, messages, dead)
  BY DEF SaneBy, GhostsBy
<1>2. CASE \E j \in DOMAIN messages : messages[j] = RemoveWorld
  BY <1>2 DEF Undoes
<1>3. CASE ~ \E j \in DOMAIN messages : messages[j] = RemoveWorld
  <2>1. n \in Taken(r, CondemnedBy(r, messages, dead))
    BY <1>1, <1>3 DEF DoomedBy
  <2>2. CondemnedBy(r, messages, dead) \in SUBSET Live(r)
    BY DEF CondemnedBy
  <2>3. n \in CondemnedBy(r, messages, dead) /\ SelfIn(known, r.local[n].of)
    BY <2>1, <2>2, SelfIsRoot
  <2>4. \E j \in DOMAIN messages : messages[j] = Deleted(r.local[n].of)
    BY <2>3 DEF CondemnedBy
  <2>5. r.local[n].of \in Nat
    BY WorkIs DEF SaneBy, LocalEntity
  <2> QED BY <2>3, <2>4, <2>5 DEF Undoes
<1> QED BY <1>2, <1>3

(* Whatever is announced last: the player, someone of an earlier session,  *)
(* or a copy that came late - or the announcement of the player is to come.*)
LEMMA AnnouncedIsFollowed ==
  ASSUME NEW t, NEW known, NEW world, NEW next, NEW messages, NEW dead,
         SaneBy(t, known, Ids(world), next, messages, dead), KnownIs(known, next),
         ServerIs(world, known, next, TRUE), OneSelf(world),
         NEW e \in world, e.is = "self", UndoneBefore(e.id, messages, known),
         NEW player, NEW s, HasEntity(t, s), player.id = t.toClient[s],
         ~player.stale => SelfIn(known, s),
         player.id \in dead => s \in Ids(world) \/ \E j \in DOMAIN messages : Undoes(messages[j], known)
  PROVE  IsFollowed(e.id, t, messages, dead, player)
<1>1. CASE player.stale \/ s = e.id
  BY <1>1 DEF IsFollowed
<1>2. CASE ~player.stale /\ s # e.id
  <2>1. PICK f \in known : f.id = s /\ f.is = "self"
    BY <1>2 DEF SelfIn
  <2>2. s \notin Ids(world)
    <3>1. SUFFICES ASSUME NEW g \in world, g.id = s PROVE FALSE
      BY DEF Ids
    <3>2. g.is # "map"
      BY <2>1, <3>1 DEF ServerIs, Ids
    <3>3. g = f
      BY <2>1, <3>1, <3>2 DEF ServerIs, KnownIs
    <3> QED BY <1>2, <2>1, <3>1, <3>3 DEF OneSelf
  <2> DEFINE n == player.id
  <2>3. n \in Live(t) /\ t.local[n].of = s
    BY HasIs DEF SaneBy
  <2> HIDE DEF n
  <2>4. t.local[n].is = "self"
    <3>1. PICK g \in known : IsCopyOf(t, n, g)
      BY <2>1, <2>3 DEF SaneBy, CopiesBy, Ids
    <3>2. g = f
      BY <2>1, <2>3, <3>1 DEF IsCopyOf, KnownIs
    <3> QED BY <2>1, <3>1, <3>2 DEF IsCopyOf
  <2>5. CASE n \notin dead /\ t.local[n].late
    BY <2>3, <2>4, <2>5 DEF IsFollowed, IsLate, n
  <2>6. CASE n \in dead \/ ~t.local[n].late
    <3>1. \E j \in DOMAIN messages : Undoes(messages[j], known)
      BY <2>2, <2>3, <2>4, <2>6, GoneSelf DEF n
    <3> QED BY <3>1 DEF UndoneBefore, IsFollowed
  <2> QED BY <2>5, <2>6
<1> QED BY <1>1, <1>2

(* The candidate after an announcement is the last that was announced.     *)
LEMMA CandidateIs ==
  ASSUME NEW r \in Work, NEW t, NEW list, IsAnnounced(t, r, list), NEW player
  PROVE  /\ DOMAIN list = {} => CandidateOf(t, player) = CandidateOf(r, player)
         /\ DOMAIN list # {} => \E k \in DOMAIN list : CandidateOf(t, player) = list[k]
<1>1. r.published \in Seq(Spawn) /\ list \in Seq(Spawn) /\ t.published = r.published \o list
  BY WorkIs DEF Spawns, IsAnnounced
<1>2. CASE DOMAIN list = {}
  <2>1. list = <<>>
    BY <1>1, <1>2
  <2>2. t.published = r.published
    BY <1>1, <2>1
  <2> QED BY <1>2, <2>2 DEF CandidateOf
<1>3. CASE DOMAIN list # {}
  <2>1. Len(list) \in DOMAIN list /\ Len(list) > 0 /\ Len(list) \in Nat
    BY <1>1, <1>3
  <2>2. t.published # <<>> /\ t.published[Len(t.published)] = list[Len(list)]
    <3>1. Len(r.published \o list) = Len(r.published) + Len(list)
      BY <1>1
    <3>2. (r.published \o list)[Len(r.published) + Len(list)] = list[Len(list)]
      BY <1>1, <2>1
    <3>3. r.published \o list # <<>>
      BY <1>1, <2>1, <3>1
    <3> QED BY <1>1, <3>1, <3>2, <3>3
  <2> QED BY <1>3, <2>1, <2>2 DEF CandidateOf
<1> QED BY <1>2, <1>3

(* A step of the server keeps FollowInv when it says so in time: a player  *)
(* of this client who goes is undone, and then announced anew.             *)
LEMMA BecomesFollows ==
  ASSUME ReplicaInv, FollowInv, NEW world, NEW next, NEW messages \in Messages, Becomes(world, next, messages),
         \A e \in world : e \in server \/ (e.id \in Nat /\ nextID <= e.id),
         OneSelf(world),
         \A e \in world : e.is = "self" =>
           \/ e \in server /\ \A i \in DOMAIN messages : ~Undoes(messages[i], Shown)
           \/ messages = <<Spawned(e.id)>>,
         \A i \in DOMAIN messages : \A s \in Nat : messages[i] = Deleted(s) => s < nextID,
         \A i \in DOMAIN messages : \A s \in Nat : messages[i] = Spawned(s) => s \in Ids(world),
         \A s \in Ids(server) : s \notin Ids(world) /\ SelfIn(Shown, s) =>
           \E i \in DOMAIN messages : Undoes(messages[i], Shown)
  PROVE  FollowInv'
<1> DEFINE all == tcp \o messages
           known == Shown'
<1>1. /\ joined /\ joined' = joined /\ server' = world /\ tcp' = all /\ worlds' = worlds \cup {Networked(world)}
      /\ replica' = replica /\ deaths' = deaths /\ dying' = dying /\ localPlayer' = localPlayer
  BY DEF Becomes
<1>2. /\ nextID \in Nat /\ KnownIs(Shown, nextID) /\ ServerIs(server, Shown, nextID, TRUE)
      /\ MessagesAre(tcp, Shown, Ids(server), nextID)
  BY <1>1 DEF ReplicaInv
<1>3. Shown \subseteq known /\ known \subseteq Shown \cup Networked(world)
  BY <1>1 DEF Shown
<1> HIDE DEF known
<1>4. \A s \in Nat : s < nextID => (SelfIn(known, s) <=> SelfIn(Shown, s))
  <2>1. ASSUME NEW s \in Nat, s < nextID, NEW e \in known, e.id = s, e.is = "self"
        PROVE  e \in Shown
    <3>1. e \in Shown \/ e \in world
      BY <1>3 DEF Networked
    <3>2. e \in server => e \in Shown
      BY <1>2, <2>1 DEF ServerIs
    <3>3. ~(nextID <= e.id)
      BY <1>2, <2>1
    <3> QED BY <3>1, <3>2, <3>3
  <2> QED BY <1>3, <2>1 DEF SelfIn
<1>5. tcp \in Messages
  BY <1>2 DEF MessagesAre
<1>6. /\ \A j \in DOMAIN tcp : j \in DOMAIN all /\ all[j] = tcp[j]
      /\ \A i \in DOMAIN messages : Len(tcp) + i \in DOMAIN all /\ all[Len(tcp) + i] = messages[i]
      /\ \A k \in DOMAIN all : \/ k \in DOMAIN tcp /\ all[k] = tcp[k]
                               \/ \E i \in DOMAIN messages : all[k] = messages[i] /\ k = Len(tcp) + i
  BY <1>5, MoreMessages
<1>7. /\ \A j \in DOMAIN tcp : j \in Nat /\ j <= Len(tcp)
      /\ \A i \in DOMAIN messages : i \in Nat /\ 1 <= i
      /\ Len(tcp) \in Nat
  BY <1>5 DEF Messages
<1> HIDE DEF all
<1>8. \A j \in DOMAIN tcp : Undoes(tcp[j], known) <=> Undoes(tcp[j], Shown)
  <2>1. ASSUME NEW j \in DOMAIN tcp, NEW s \in Nat, tcp[j] = Deleted(s)
        PROVE  s < nextID
    <3>1. IsMessage(tcp[j], Shown, Ids(server), nextID)
      BY <1>2 DEF MessagesAre
    <3> QED BY <2>1, <3>1, MessageIs
  <2> QED BY <1>4, <2>1 DEF Undoes
<1>9. \A j \in DOMAIN messages : Undoes(messages[j], known) <=> Undoes(messages[j], Shown)
  BY <1>4 DEF Undoes
<1>10. WaitBy(replica, known, TRUE)
  <2>1. \A s : SelfIn(Shown, s) => SelfIn(known, s)
    BY <1>3 DEF SelfIn
  <2> QED BY <1>1, <2>1 DEF FollowInv, WaitBy
<1>11. SpawnsAreUndone(all, known, Ids(world))
  <2>1. SUFFICES ASSUME NEW i \in DOMAIN all, NEW s \in Nat, all[i] = Spawned(s), s \notin Ids(world)
                 PROVE  \E j \in DOMAIN all : i < j /\ Undoes(all[j], known)
    BY DEF SpawnsAreUndone
  <2>2. i \in DOMAIN tcp /\ tcp[i] = Spawned(s)
    BY <1>6, <2>1
  <2>3. CASE s \notin Ids(server)
    <3>1. PICK j \in DOMAIN tcp : i < j /\ Undoes(tcp[j], Shown)
      BY <2>2, <2>3 DEF FollowInv, SpawnsAreUndone
    <3> QED BY <1>6, <1>8, <3>1
  <2>4. CASE s \in Ids(server)
    <3>1. SelfIn(Shown, s)
      <4>1. IsMessage(tcp[i], Shown, Ids(server), nextID)
        BY <1>2, <2>2 DEF MessagesAre
      <4>2. tcp[i].is = "OnPlayerSpawned" /\ tcp[i].id = s
        BY <2>2 DEF Spawned
      <4> QED BY <4>1, <4>2, MessageIs DEF SelfIn
    <3>2. PICK j \in DOMAIN messages : Undoes(messages[j], Shown)
      BY <2>1, <2>4, <3>1
    <3>3. i < Len(tcp) + j
      BY <1>7, <2>2
    <3>4. Len(tcp) + j \in DOMAIN all /\ Undoes(all[Len(tcp) + j], known)
      BY <1>6, <1>9, <3>2
    <3> QED BY <3>3, <3>4
  <2> QED BY <2>3, <2>4
<1>12. ASSUME NEW e \in world, e.is = "self"
       PROVE  /\ UndoneBefore(e.id, all, known)
              /\ IsFollowed(e.id, replica, all, deaths \cup dying, CandidateOf(replica, localPlayer))
  <2>1. CASE e \in server /\ \A i \in DOMAIN messages : ~Undoes(messages[i], Shown)
    <3>1. /\ UndoneBefore(e.id, tcp, Shown)
          /\ IsFollowed(e.id, replica, tcp, deaths \cup dying, CandidateOf(replica, localPlayer))
      BY <1>1, <1>12, <2>1 DEF FollowInv, FollowBy
    <3>2. UndoneBefore(e.id, all, known)
      <4>1. SUFFICES ASSUME NEW j \in DOMAIN all, Undoes(all[j], known)
                     PROVE  \E i \in DOMAIN all : j < i /\ all[i] = Spawned(e.id)
        BY DEF UndoneBefore
      <4>2. j \in DOMAIN tcp /\ Undoes(tcp[j], Shown)
        BY <1>6, <1>8, <1>9, <2>1, <4>1
      <4>3. PICK i \in DOMAIN tcp : j < i /\ tcp[i] = Spawned(e.id)
        BY <3>1, <4>2 DEF UndoneBefore
      <4> QED BY <1>6, <4>3
    <3>3. IsFollowed(e.id, replica, all, deaths \cup dying, CandidateOf(replica, localPlayer))
      BY <1>6, <3>1 DEF IsFollowed
    <3> QED BY <3>2, <3>3
  <2>2. CASE messages = <<Spawned(e.id)>>
    <3>1. DOMAIN messages = {1} /\ messages[1] = Spawned(e.id)
      BY <2>2
    <3>2. Len(tcp) + 1 \in DOMAIN all /\ all[Len(tcp) + 1] = Spawned(e.id)
      BY <1>6, <3>1
    <3>3. ~Undoes(Spawned(e.id), known)
      <4>1. Spawned(e.id).is = "OnPlayerSpawned" /\ RemoveWorld.is = "RemoveWorld"
        BY DEF Spawned, RemoveWorld
      <4>2. \A s : Deleted(s).is = "EntityDeleted"
        BY DEF Deleted
      <4> QED BY <4>1, <4>2 DEF Undoes
    <3>4. UndoneBefore(e.id, all, known)
      <4>1. SUFFICES ASSUME NEW j \in DOMAIN all, Undoes(all[j], known)
                     PROVE  j < Len(tcp) + 1
        BY <3>2 DEF UndoneBefore
      <4>2. CASE j \in DOMAIN tcp
        BY <1>7, <4>2
      <4>3. CASE \E i \in DOMAIN messages : all[j] = messages[i]
        <5>1. all[j] = Spawned(e.id)
          BY <3>1, <4>3
        <5> QED BY <3>3, <4>1, <5>1
      <4> QED BY <1>6, <4>2, <4>3
    <3> QED BY <3>2, <3>4 DEF IsFollowed
  <2> QED BY <1>12, <2>1, <2>2
<1> QED BY <1>1, <1>10, <1>11, <1>12 DEF FollowInv, FollowBy, known

(* A player who is spawned is announced, which keeps FollowInv.            *)
LEMMA SpawnPlayerFollows ==
  ASSUME ReplicaInv, FollowInv, NEW is \in {"self", "player"}, SpawnPlayer(is)
  PROVE  FollowInv'
<1> DEFINE p == Entity(nextID, is, EntityID_Invalid)
           w == Entity(nextID + 1, "weapon", nextID)
           world == server \cup {p, w}
           messages == IF is = "self" THEN <<Spawned(nextID)>> ELSE <<>>
<1>1. Becomes(world, nextID + 2, messages) /\ (is = "self" => \A e \in server : e.is # "self")
  BY DEF SpawnPlayer
<1>2. p.id = nextID /\ p.is = is /\ w.id = nextID + 1 /\ w.is = "weapon"
  BY DEF Entity
<1>3. nextID \in Nat /\ joined /\ OneSelf(server)
  BY <1>1 DEF ReplicaInv, Becomes, FollowInv
<1>4. /\ is = "self" => messages = <<Spawned(nextID)>>
      /\ is # "self" => messages = <<>>
  OBVIOUS
<1>5. messages \in Messages
  <2>1. Spawned(nextID) \in Message
    BY <1>3 DEF Message
  <2> QED BY <1>4, <2>1 DEF Messages
<1> HIDE DEF p, w, messages
<1>6. \A i \in DOMAIN messages : messages[i] = Spawned(nextID)
  BY <1>4
<1>7. \A i \in DOMAIN messages : \A s \in Nat : messages[i] # Deleted(s) /\ (messages[i] = Spawned(s) => s = nextID)
  BY <1>6 DEF Spawned, Deleted
<1>8. OneSelf(world)
  BY <1>1, <1>2, <1>3 DEF OneSelf
<1>9. \A e \in world : e \in server \/ (e.id \in Nat /\ nextID <= e.id)
  BY <1>2, <1>3
<1>10. \A e \in world : e.is = "self" =>
         \/ e \in server /\ \A i \in DOMAIN messages : ~Undoes(messages[i], Shown)
         \/ messages = <<Spawned(e.id)>>
  <2>1. is # "self" => DOMAIN messages = {}
    BY <1>4
  <2> QED BY <1>1, <1>2, <1>4, <2>1
<1>11. nextID \in Ids(world) /\ Ids(server) \subseteq Ids(world)
  BY <1>2 DEF Ids
<1> HIDE DEF world
<1> QED BY <1>1, <1>5, <1>7, <1>8, <1>9, <1>10, <1>11, BecomesFollows

(* A pickup keeps FollowInv.                                               *)
LEMMA SpawnPickupFollows ==
  ASSUME ReplicaInv, FollowInv, SpawnPickup
  PROVE  FollowInv'
<1>1. PICK map \in server : Becomes(server \cup {Entity(nextID, "pickup", map.id)}, nextID + 1, <<>>)
  BY DEF SpawnPickup
<1> DEFINE p == Entity(nextID, "pickup", map.id)
           world == server \cup {p}
           next == nextID + 1
           messages == <<>>
<1>2. p.id = nextID /\ p.is = "pickup"
  BY DEF Entity
<1>3. nextID \in Nat /\ joined /\ OneSelf(server)
  BY <1>1 DEF ReplicaInv, Becomes, FollowInv
<1>4. messages \in Messages /\ DOMAIN messages = {}
  BY DEF Messages
<1>5. Becomes(world, next, messages)
  BY <1>1
<1> HIDE DEF p, messages
<1>6. OneSelf(world) /\ (\A e \in world : e \in server \/ (e.id \in Nat /\ nextID <= e.id))
  BY <1>2, <1>3 DEF OneSelf
<1>7. \A e \in world : e.is = "self" => e \in server
  BY <1>2
<1>8. Ids(server) \subseteq Ids(world)
  BY DEF Ids
<1> HIDE DEF world, next
<1> QED BY <1>4, <1>5, <1>6, <1>7, <1>8, BecomesFollows

(* A deletion keeps FollowInv: when this client's player goes, that is     *)
(* said.                                                                   *)
LEMMA DeleteFollows ==
  ASSUME ReplicaInv, FollowInv, NEW e \in server, Delete(e)
  PROVE  FollowInv'
<1> DEFINE gone == Cascade(server, {e.id})
           world == {f \in server : f.id \notin gone}
           messages == <<Deleted(e.id)>>
<1>1. Becomes(world, nextID, messages) /\ (IsPlayer(e.is) \/ e.is = "pickup")
  BY DEF Delete
<1>2. /\ nextID \in Nat /\ joined /\ KnownIs(Shown, nextID) /\ ServerIs(server, Shown, nextID, TRUE) /\ OneSelf(server)
  BY <1>1 DEF ReplicaInv, Becomes, FollowInv
<1>3. e.id \in Nat /\ e.id < nextID /\ e \in Shown
  BY <1>1, <1>2 DEF ServerIs, EntityRecord, IsPlayer
<1>4. {e.id} \in SUBSET Ids(server) /\ IsFiniteSet(Ids(server))
  <2> DEFINE g == [f \in server |-> f.id]
  <2>1. g \in Surjection(server, Ids(server))
    BY DEF Ids, Surjection
  <2> HIDE DEF g
  <2>2. IsFiniteSet(server)
    BY <1>2 DEF ServerIs
  <2>3. IsFiniteSet(Ids(server))
    BY <2>1, <2>2, FS_Surjection
  <2> QED BY <2>3 DEF Ids
<1>5. gone = Least(server, {e.id})
  BY <1>4, CascadeIs
<1> HIDE DEF gone
<1>6. e.id \in gone /\ Closed(server, gone) /\ gone \subseteq Ids(server)
  BY <1>4, <1>5 DEF Least, Closed, Ids
<1>7. messages \in Messages /\ DOMAIN messages = {1} /\ messages[1] = Deleted(e.id)
  <2>1. Deleted(e.id) \in Message
    BY <1>3 DEF Message
  <2> QED BY <2>1 DEF Messages
<1> HIDE DEF messages
<1>8. OneSelf(world) /\ \A f \in world : f \in server
  BY <1>2 DEF OneSelf
<1>9. \A s : messages[1] = Deleted(s) => s = e.id
  BY <1>7 DEF Deleted
<1>10. \A s : messages[1] # Spawned(s)
  BY <1>7 DEF Deleted, Spawned
<1>11. messages[1] # RemoveWorld
  BY <1>7 DEF Deleted, RemoveWorld
<1>12. SelfIn(Shown, e.id) => e.is = "self"
  BY <1>2, <1>3 DEF SelfIn, KnownIs
<1>13. ASSUME NEW f \in world, f.is = "self"
       PROVE  ~Undoes(messages[1], Shown)
  <2>1. e.is # "self"
    BY <1>2, <1>6, <1>13 DEF OneSelf
  <2> QED BY <1>9, <1>11, <1>12, <2>1 DEF Undoes
(* A player is below nothing: the deletion of another does not take him.   *)
<1>14. ASSUME NEW s \in Ids(server), s \notin Ids(world), SelfIn(Shown, s)
       PROVE  Undoes(messages[1], Shown)
  <2>1. PICK f \in server : f.id = s
    BY DEF Ids
  <2>2. f.is # "map" /\ f \in Shown
    <3>1. f.is # "map"
      BY <1>2, <1>14, <2>1 DEF ServerIs, SelfIn, Ids
    <3> QED BY <1>2, <3>1 DEF ServerIs
  <2>3. f.is = "self" /\ f.parent = EntityID_Invalid
    BY <1>2, <1>14, <2>1, <2>2 DEF SelfIn, KnownIs, IsPlayer
  <2>4. s \in gone
    BY <1>14, <2>1 DEF Ids
  <2>5. s = e.id
    <3>1. SUFFICES ASSUME s # e.id PROVE FALSE
      OBVIOUS
    <3> DEFINE T == gone \ {s}
    <3>2. T \in SUBSET Ids(server) /\ {e.id} \subseteq T
      BY <1>6, <3>1
    <3>3. Closed(server, T)
      <4>1. SUFFICES ASSUME NEW g \in server, g.parent \in T PROVE g.id \in T
        BY DEF Closed
      <4>2. g.id \in gone
        BY <1>6, <4>1 DEF Closed
      <4>3. g.parent # EntityID_Invalid
        BY <1>2, <1>6, <4>1 DEF ServerIs, EntityRecord, EntityID_Invalid, Ids
      <4>4. g.id # s
        BY <1>2, <2>1, <2>3, <4>3 DEF ServerIs
      <4> QED BY <4>2, <4>4
    <3>4. s \notin T
      OBVIOUS
    <3> HIDE DEF T
    <3> QED BY <1>5, <2>4, <3>2, <3>3, <3>4 DEF Least
  <2> QED BY <1>3, <1>7, <1>14, <2>5 DEF Undoes
<1> HIDE DEF world
<1> QED BY <1>1, <1>3, <1>7, <1>8, <1>9, <1>10, <1>13, <1>14, BecomesFollows

(* A reset keeps FollowInv: it undoes all.                                 *)
LEMMA ResetMapFollows ==
  ASSUME ReplicaInv, FollowInv, ResetMap
  PROVE  FollowInv'
<1> DEFINE map == [Map EXCEPT !.id = nextID]
           new == {map}
           old == {e \in server : e.parent = EntityID_Invalid}
           roots == InOrder(old)
           deletions == [i \in DOMAIN roots |-> Deleted(roots[i].id)]
           two == <<RemoveWorld, Snapshot(new)>>
           messages == two \o deletions
           next == nextID + 1
<1>1. Becomes(new, next, messages)
  BY DEF ResetMap
<1>2. /\ nextID \in Nat /\ joined /\ ServerIs(server, Shown, nextID, TRUE)
  BY <1>1 DEF ReplicaInv, Becomes
<1>3. map = Entity(nextID, "map", EntityID_Invalid) /\ map.id = nextID /\ map.is = "map"
  BY DEF Map, Entity
<1> HIDE DEF map
<1>4. /\ Len(roots) \in Nat /\ DOMAIN roots = 1 .. Len(roots)
      /\ \A i \in DOMAIN roots : roots[i] \in server
  <2>1. IsFiniteSet(old)
    BY <1>2, FS_Subset DEF ServerIs
  <2>2. /\ \A e \in old : e.id \in Nat /\ e \in server
        /\ \A e, f \in old : e.id = f.id => e = f
    BY <1>2 DEF ServerIs, EntityRecord
  <2> HIDE DEF old
  <2> QED BY <2>1, <2>2, InOrderIs
<1>5. \A i \in DOMAIN roots : roots[i].id \in Nat /\ roots[i].id < nextID
  BY <1>2, <1>4 DEF ServerIs, EntityRecord
<1> HIDE DEF roots
<1>6. deletions \in Messages
  <2>1. \A i \in DOMAIN roots : deletions[i] \in Message
    BY <1>5 DEF Message
  <2>2. deletions = [i \in 1 .. Len(roots) |-> deletions[i]]
    BY <1>4
  <2> HIDE DEF deletions
  <2> QED BY <1>4, <2>1, <2>2, IsSequence DEF Messages
<1>7. \A i \in DOMAIN deletions : deletions[i] = Deleted(roots[i].id) /\ roots[i].id < nextID
  BY <1>5
<1>8. /\ two \in Messages /\ DOMAIN two = {1, 2} /\ two[1] = RemoveWorld /\ two[2] = Snapshot(new)
  <2>1. RemoveWorld \in Message /\ Snapshot(new) \in Message
    BY <1>2, <1>3 DEF Message
  <2>2. two \in Messages
    BY <2>1 DEF Messages
  <2> QED BY <2>2
<1>a. messages = two \o deletions
  OBVIOUS
<1> HIDE DEF two, deletions, messages
<1>9. /\ messages \in Messages
      /\ 1 \in DOMAIN messages /\ messages[1] = RemoveWorld
      /\ \A k \in DOMAIN messages : (k \in DOMAIN two /\ messages[k] = two[k])
                                    \/ \E i \in DOMAIN deletions : messages[k] = deletions[i]
  <2>1. /\ messages \in Messages
        /\ DOMAIN two \subseteq DOMAIN messages /\ \A i \in DOMAIN two : messages[i] = two[i]
        /\ \A k \in DOMAIN messages : (k \in DOMAIN two /\ messages[k] = two[k])
                                      \/ \E i \in DOMAIN deletions : messages[k] = deletions[i]
    <3>1. two \in Messages /\ deletions \in Messages
      BY <1>6, <1>8
    <3> QED BY <1>a, <3>1, MoreMessages, Zenon
  <2> QED BY <1>8, <2>1
<1>10. ASSUME NEW k \in DOMAIN messages, NEW s \in Nat
       PROVE  messages[k] # Spawned(s) /\ (messages[k] = Deleted(s) => s < nextID)
  <2>1. CASE messages[k] = RemoveWorld
    BY <2>1 DEF RemoveWorld, Spawned, Deleted
  <2>2. CASE messages[k] = Snapshot(new)
    BY <2>2 DEF Snapshot, Spawned, Deleted
  <2>3. CASE \E i \in DOMAIN deletions : messages[k] = deletions[i]
    <3>1. PICK x : messages[k] = Deleted(x) /\ x < nextID
      BY <1>7, <2>3
    <3> QED BY <3>1 DEF Deleted, Spawned
  <2> QED BY <1>8, <1>9, <2>1, <2>2, <2>3
<1>11. Undoes(messages[1], Shown)
  BY <1>9 DEF Undoes
<1>12. OneSelf(new) /\ \A e \in new : e.is # "self" /\ e.id \in Nat /\ nextID <= e.id
  BY <1>2, <1>3 DEF OneSelf
<1> HIDE DEF new, next
<1> QED BY <1>1, <1>9, <1>10, <1>11, <1>12, BecomesFollows

(* What is said of the stream is true of it without the message that was   *)
(* read; and when that undoes a player, the announcement of the next is    *)
(* still to come.                                                          *)
LEMMA TailIsUndone ==
  ASSUME NEW messages \in Messages, messages # <<>>, NEW known, NEW ids
  PROVE  /\ SpawnsAreUndone(messages, known, ids) => SpawnsAreUndone(Tail(messages), known, ids)
         /\ \A id : UndoneBefore(id, messages, known) => UndoneBefore(id, Tail(messages), known)
         /\ \A id : UndoneBefore(id, messages, known) /\ Undoes(messages[1], known) =>
              \E i \in DOMAIN Tail(messages) : Tail(messages)[i] = Spawned(id)
         /\ \A m : (\E i \in DOMAIN messages : messages[i] = m) =>
              m = messages[1] \/ \E i \in DOMAIN Tail(messages) : Tail(messages)[i] = m
<1> DEFINE tail == Tail(messages)
<1>1. /\ 1 \in DOMAIN messages
      /\ \A i \in DOMAIN messages : (i = 1) \/ (i - 1 \in DOMAIN tail /\ tail[i - 1] = messages[i])
      /\ \A i \in DOMAIN tail : i + 1 \in DOMAIN messages /\ tail[i] = messages[i + 1]
  BY TailIs
<1>2. \A i \in DOMAIN messages : i \in Nat /\ 1 <= i
  BY DEF Messages
<1>3. \A i \in DOMAIN tail : i \in Nat /\ 1 <= i
  BY TailIs DEF Messages
<1> HIDE DEF tail
<1>4. ASSUME SpawnsAreUndone(messages, known, ids)
      PROVE  SpawnsAreUndone(tail, known, ids)
  <2>1. SUFFICES ASSUME NEW i \in DOMAIN tail, NEW s \in Nat, tail[i] = Spawned(s), s \notin ids
                 PROVE  \E j \in DOMAIN tail : i < j /\ Undoes(tail[j], known)
    BY DEF SpawnsAreUndone
  <2>2. i + 1 \in DOMAIN messages /\ messages[i + 1] = Spawned(s)
    BY <1>1, <2>1
  <2>3. PICK j \in DOMAIN messages : i + 1 < j /\ Undoes(messages[j], known)
    BY <1>4, <2>1, <2>2 DEF SpawnsAreUndone
  <2>4. j - 1 \in DOMAIN tail /\ tail[j - 1] = messages[j] /\ i < j - 1
    BY <1>1, <1>2, <1>3, <2>3
  <2> QED BY <2>3, <2>4
<1>5. ASSUME NEW id, UndoneBefore(id, messages, known), NEW j \in DOMAIN messages, Undoes(messages[j], known)
      PROVE  \E i \in DOMAIN tail : j - 1 < i /\ tail[i] = Spawned(id)
  <2>1. PICK i \in DOMAIN messages : j < i /\ messages[i] = Spawned(id)
    BY <1>5 DEF UndoneBefore
  <2>2. i - 1 \in DOMAIN tail /\ tail[i - 1] = messages[i] /\ j - 1 < i - 1
    BY <1>1, <1>2, <2>1
  <2> QED BY <2>1, <2>2
<1>6. ASSUME NEW id, UndoneBefore(id, messages, known)
      PROVE  UndoneBefore(id, tail, known)
  <2>1. SUFFICES ASSUME NEW j \in DOMAIN tail, Undoes(tail[j], known)
                 PROVE  \E i \in DOMAIN tail : j < i /\ tail[i] = Spawned(id)
    BY DEF UndoneBefore
  <2>2. j + 1 \in DOMAIN messages /\ Undoes(messages[j + 1], known)
    BY <1>1, <2>1
  <2>3. PICK i \in DOMAIN tail : j + 1 - 1 < i /\ tail[i] = Spawned(id)
    BY <1>5, <1>6, <2>2
  <2>4. j + 1 - 1 = j
    BY <1>3
  <2> QED BY <2>3, <2>4
<1>7. ASSUME NEW id, UndoneBefore(id, messages, known), Undoes(messages[1], known)
      PROVE  \E i \in DOMAIN tail : tail[i] = Spawned(id)
  BY <1>1, <1>5, <1>7
<1>8. \A m : (\E i \in DOMAIN messages : messages[i] = m) => m = messages[1] \/ \E i \in DOMAIN tail : tail[i] = m
  BY <1>1
<1> HIDE DEF tail
<1>9. /\ SpawnsAreUndone(messages, known, ids) => SpawnsAreUndone(tail, known, ids)
      /\ \A id : UndoneBefore(id, messages, known) => UndoneBefore(id, tail, known)
      /\ \A id : UndoneBefore(id, messages, known) /\ Undoes(messages[1], known) =>
           \E i \in DOMAIN tail : tail[i] = Spawned(id)
      /\ \A m : (\E i \in DOMAIN messages : messages[i] = m) => m = messages[1] \/ \E i \in DOMAIN tail : tail[i] = m
  BY <1>4, <1>6, <1>7, <1>8
<1> QED BY <1>9 DEF tail

(* What a step of the client leaves to be shown.                           *)
LEMMA ClientFollows ==
  ASSUME ReplicaInv, FollowInv, UNCHANGED <<server, nextID, worlds, joined>>,
         tcp' = tcp \/ (tcp # <<>> /\ tcp' = Tail(tcp)),
         WaitBy(replica', Shown, joined),
         joined => \A e \in server : e.is = "self" =>
           IsFollowed(e.id, replica', tcp', deaths' \cup dying', CandidateOf(replica', localPlayer'))
  PROVE  FollowInv'
<1>1. Shown' = Shown
  BY DEF Shown
<1>2. tcp \in Messages
  BY DEF ReplicaInv, MessagesAre
<1>3. SpawnsAreUndone(tcp', Shown, Ids(server))
  BY <1>2, TailIsUndone DEF FollowInv
<1>4. joined => \A e \in server : e.is = "self" => UndoneBefore(e.id, tcp', Shown)
  BY <1>2, TailIsUndone DEF FollowInv, FollowBy
<1> QED BY <1>1, <1>3, <1>4 DEF FollowInv, FollowBy

(* Something was announced: whoever it is, its copy is new, or its spawn   *)
(* was read in this step.                                                  *)
LEMMA SnapshotFollows ==
  ASSUME ReplicaInv, FollowInv, joined, NEW world, Says(world), NEW messages,
         SaneBy(ParseSnapshot(replica, world), Shown, Ids(server), nextID, messages, deaths \cup dying),
         \A e \in server : e.is = "self" => UndoneBefore(e.id, messages, Shown),
         \A s : (\E i \in DOMAIN tcp : tcp[i] = Spawned(s)) => \E i \in DOMAIN messages : messages[i] = Spawned(s)
  PROVE  LET t == ParseSnapshot(replica, world) IN
         /\ WaitBy(t, Shown, joined)
         /\ \A e \in server : e.is = "self" =>
              IsFollowed(e.id, t, messages, deaths \cup dying, CandidateOf(t, localPlayer))
<1> DEFINE t == ParseSnapshot(replica, world)
           dead == deaths \cup dying
<1>1. PICK u, list : IsSnapshotParsed(t, u, list, replica, world)
  BY SnapshotParsedIs
<1>2. SaneBy(t, Shown, Ids(server), nextID, messages, dead)
  OBVIOUS
<1> HIDE DEF t
<1>3. /\ Sane(u) /\ Kept(u, replica) /\ IsAnnounced(t, u, list) /\ u \in Work /\ Mirrors(u)
      /\ replica \in Work /\ Mirrors(replica)
  BY <1>1 DEF IsSnapshotParsed, Sane, ReplicaInv, SaneBy
<1>4. /\ KnownIs(Shown, nextID) /\ ServerIs(server, Shown, nextID, TRUE) /\ OneSelf(server)
      /\ WaitBy(replica, Shown, TRUE)
      /\ FollowBy(server, replica, tcp, Shown, dead, CandidateOf(replica, localPlayer))
  BY DEF ReplicaInv, FollowInv
<1>5. /\ u.spawns = replica.spawns /\ u.published = replica.published /\ t.local = u.local /\ Live(t) = Live(u)
      /\ Live(replica) \subseteq Live(u)
      /\ \A n \in Live(replica) : u.local[n].of = replica.local[n].of /\ u.local[n].is = replica.local[n].is
                                  /\ u.local[n].late = replica.local[n].late
      /\ \A s : HasEntity(replica, s) => HasEntity(t, s) /\ t.toClient[s] = replica.toClient[s]
      /\ \A s : HasEntity(t, s) <=> HasEntity(u, s)
      /\ \A n \in Live(u) : n \notin Live(replica) => n \notin dead
  BY <1>3 DEF Kept, IsAnnounced, Live
<1>6. WaitBy(t, Shown, joined)
  <2>1. SUFFICES ASSUME NEW k \in DOMAIN t.spawns
                 PROVE  /\ ~HasEntity(t, t.spawns[k].id)
                        /\ ~t.spawns[k].stale => SelfIn(Shown, t.spawns[k].id)
    BY DEF WaitBy
  <2>2. PICK i \in DOMAIN u.spawns : t.spawns[k] = u.spawns[i] /\ ~HasEntity(u, u.spawns[i].id)
    BY <1>3 DEF IsAnnounced
  <2> QED BY <1>4, <1>5, <2>2 DEF WaitBy
<1>7. ASSUME NEW e \in server, e.is = "self"
      PROVE  IsFollowed(e.id, t, messages, dead, CandidateOf(t, localPlayer))
  <2>1. UndoneBefore(e.id, messages, Shown) /\ IsFollowed(e.id, replica, tcp, dead, CandidateOf(replica, localPlayer))
    BY <1>4, <1>7 DEF FollowBy
  <2>2. /\ DOMAIN list = {} => CandidateOf(t, localPlayer) = CandidateOf(u, localPlayer)
        /\ DOMAIN list # {} => \E k \in DOMAIN list : CandidateOf(t, localPlayer) = list[k]
    BY <1>3, CandidateIs
  <2>3. CASE DOMAIN list # {}
    <3>1. PICK k \in DOMAIN list : CandidateOf(t, localPlayer) = list[k]
      BY <2>2, <2>3
    <3>2. PICK i \in DOMAIN u.spawns : /\ HasEntity(u, u.spawns[i].id)
                                       /\ list[k].id = u.toClient[u.spawns[i].id] /\ list[k].stale = u.spawns[i].stale
      BY <1>3 DEF IsAnnounced
    <3> DEFINE s == u.spawns[i].id
               player == list[k]
    <3>3. /\ HasEntity(t, s) /\ player.id = t.toClient[s] /\ player.id \in Live(u) /\ u.local[player.id].of = s
          /\ ~player.stale => SelfIn(Shown, s)
          /\ ~HasEntity(replica, s)
      <4>1. player.id \in Live(u) /\ u.local[player.id].of = s
        BY <1>3, <3>2, HasIs
      <4>2. HasEntity(t, s) /\ player.id = t.toClient[s]
        BY <1>3, <3>2 DEF IsAnnounced
      <4>3. i \in DOMAIN replica.spawns /\ s = replica.spawns[i].id /\ player.stale = replica.spawns[i].stale
        BY <1>5, <3>2
      <4> QED BY <1>4, <4>1, <4>2, <4>3 DEF WaitBy
    <3> HIDE DEF s, player
    <3>4. player.id \notin dead
      <4>1. player.id \notin Live(replica)
        BY <1>3, <1>5, <3>3, HasIs
      <4> QED BY <1>5, <3>3, <4>1
    <3>5. IsFollowed(e.id, t, messages, dead, player)
      BY <1>2, <1>4, <1>7, <2>1, <3>3, <3>4, AnnouncedIsFollowed
    <3> QED BY <3>1, <3>5 DEF player
  <2>4. CASE DOMAIN list = {}
    <3>1. CandidateOf(t, localPlayer) = CandidateOf(replica, localPlayer)
      <4>1. CandidateOf(u, localPlayer) = CandidateOf(replica, localPlayer)
        BY <1>5 DEF CandidateOf
      <4> QED BY <2>2, <2>4, <4>1
    <3> DEFINE player == CandidateOf(replica, localPlayer)
    <3> HIDE DEF player
    <3>2. CASE \E i \in DOMAIN tcp : tcp[i] = Spawned(e.id)
      BY <3>2 DEF IsFollowed
    <3>3. CASE \E i \in DOMAIN replica.spawns : replica.spawns[i].id = e.id
      <4>1. PICK i \in DOMAIN u.spawns : u.spawns[i].id = e.id
        BY <1>5, <3>3
      <4>2. ~HasEntity(u, e.id)
        BY <1>3, <2>4, <4>1 DEF IsAnnounced
      <4>3. \E k \in DOMAIN t.spawns : t.spawns[k] = u.spawns[i]
        BY <1>3, <4>1, <4>2 DEF IsAnnounced
      <4> QED BY <4>1, <4>3 DEF IsFollowed
    <3>4. CASE HasEntity(replica, e.id) /\ player.id = replica.toClient[e.id]
      BY <1>5, <3>1, <3>4 DEF IsFollowed, player
    <3>5. CASE player.stale
      BY <3>1, <3>5 DEF IsFollowed, player
    <3>6. CASE IsLate(replica, player, dead)
      <4>1. IsLate(t, player, dead)
        BY <1>5, <3>6 DEF IsLate
      <4> QED BY <3>1, <4>1 DEF IsFollowed, player
    <3> QED BY <2>1, <3>2, <3>3, <3>4, <3>5, <3>6 DEF IsFollowed, player
  <2> QED BY <2>3, <2>4
<1> QED BY <1>6, <1>7 DEF t

(* A snapshot that is read keeps FollowInv.                                *)
LEMMA ReadSnapshotFollows ==
  ASSUME ReplicaInv, FollowInv, NEW world \in worlds, ReadSnapshot(world)
  PROVE  FollowInv'
<1>1. /\ joined /\ replica' = ParseSnapshot(replica, world)
      /\ UNCHANGED <<server, nextID, worlds, joined, tcp, deaths, dying, localPlayer>>
  BY DEF ReadSnapshot, Keeps, network, worldVars
<1>2. Says(world)
  BY SnapshotsSay DEF ReplicaInv
<1>3. SaneBy(ParseSnapshot(replica, world), Shown, Ids(server), nextID, tcp, deaths \cup dying)
  <2>1. Sane(ParseSnapshot(replica, world))
    BY <1>2, SaneIs, SnapshotIsParsed DEF ReplicaInv
  <2> QED BY <2>1, SaneIs
<1>4. \A e \in server : e.is = "self" => UndoneBefore(e.id, tcp, Shown)
  BY <1>1 DEF FollowInv, FollowBy
<1>5. LET t == ParseSnapshot(replica, world) IN
      /\ WaitBy(t, Shown, joined)
      /\ \A e \in server : e.is = "self" =>
           IsFollowed(e.id, t, tcp, deaths \cup dying, CandidateOf(t, localPlayer))
  BY <1>1, <1>2, <1>3, <1>4, SnapshotFollows
<1> QED BY <1>1, <1>5, ClientFollows

(* What the player is followed by is the copies, the maps and the queue.   *)
LEMMA FollowDependsOn ==
  ASSUME NEW r, NEW t, t.local = r.local, t.toClient = r.toClient, t.spawns = r.spawns
  PROVE  /\ \A s : HasEntity(t, s) <=> HasEntity(r, s)
         /\ \A known, in : WaitBy(t, known, in) <=> WaitBy(r, known, in)
         /\ \A id, messages, dead, player :
              IsFollowed(id, t, messages, dead, player) <=> IsFollowed(id, r, messages, dead, player)
<1>1. Live(t) = Live(r)
  BY DEF Live
<1>2. \A s : HasEntity(t, s) <=> HasEntity(r, s)
  BY <1>1 DEF HasEntity
<1> QED BY <1>1, <1>2 DEF WaitBy, IsFollowed, IsLate

(* A deletion of copies of what is gone leaves the copy of the player, and *)
(* a late one unless it was to die.                                        *)
LEMMA DeletionFollows ==
  ASSUME ReplicaInv, FollowInv, joined, NEW t, NEW ns \in SUBSET Live(replica),
         IsDeleted(t, replica, Taken(replica, ns)),
         \A n \in ns : ~Exists(replica.local[n].of) /\ (replica.local[n].is = "self" => n \in deaths \cup dying),
         NEW messages, NEW dead, dead \subseteq deaths \cup dying,
         \A s : (\E i \in DOMAIN tcp : tcp[i] = Spawned(s)) => \E i \in DOMAIN messages : messages[i] = Spawned(s)
  PROVE  /\ WaitBy(t, Shown, joined)
         /\ \A e \in server : e.is = "self" =>
              IsFollowed(e.id, t, messages, dead, CandidateOf(replica, localPlayer))
<1> DEFINE r == replica
           gone == Taken(r, ns)
           player == CandidateOf(r, localPlayer)
           old == deaths \cup dying
<1>1. /\ SaneBy(r, Shown, Ids(server), nextID, tcp, old) /\ r \in Work /\ Mirrors(r) /\ KnownIs(Shown, nextID)
      /\ WaitBy(r, Shown, joined) /\ FollowBy(server, r, tcp, Shown, old, player)
  BY DEF ReplicaInv, SaneBy, FollowInv
<1>2. /\ t \in Work /\ Mirrors(t) /\ t.spawns = r.spawns /\ Live(t) = Live(r) \ gone
      /\ \A n \in Live(t) : t.local[n] = r.local[n]
      /\ \A s \in DOMAIN t.toClient : s \in DOMAIN r.toClient /\ t.toClient[s] = r.toClient[s]
  BY DEF IsDeleted
<1>3. \A n \in gone : ~Exists(r.local[n].of)
  BY OnlyTheGoneGo
<1>4. \A n \in Live(r) : r.local[n].is = "self" /\ n \notin ns => n \notin gone
  BY <1>1, SelfIsRoot
<1> HIDE DEF gone, player, old
<1>5. \A s : HasEntity(t, s) => HasEntity(r, s)
  BY <1>2 DEF HasEntity
<1>6. WaitBy(t, Shown, joined)
  BY <1>1, <1>2, <1>5 DEF WaitBy
<1>7. ASSUME NEW e \in server, e.is = "self"
      PROVE  IsFollowed(e.id, t, messages, dead, player)
  <2>1. IsFollowed(e.id, r, tcp, old, player)
    BY <1>1, <1>7 DEF FollowBy
  <2>2. CASE \E i \in DOMAIN tcp : tcp[i] = Spawned(e.id)
    BY <2>2 DEF IsFollowed
  <2>3. CASE \E i \in DOMAIN r.spawns : r.spawns[i].id = e.id
    BY <1>2, <2>3 DEF IsFollowed
  <2>4. CASE HasEntity(r, e.id) /\ player.id = r.toClient[e.id]
    <3> DEFINE n == r.toClient[e.id]
    <3>1. n \in Live(r) /\ r.local[n].of = e.id
      BY <1>1, <2>4, HasIs
    <3>2. Exists(e.id)
      BY DEF Exists, Ids
    <3> HIDE DEF n
    <3>3. n \in Live(t) /\ t.local[n].of = e.id
      BY <1>2, <1>3, <3>1, <3>2
    <3>4. HasEntity(t, e.id) /\ t.toClient[e.id] = n
      BY <1>2, <3>3, HasIs
    <3> QED BY <2>4, <3>4 DEF IsFollowed, n
  <2>5. CASE player.stale
    BY <2>5 DEF IsFollowed
  <2>6. CASE IsLate(r, player, old)
    <3>1. player.id \in Live(r) /\ r.local[player.id].is = "self" /\ player.id \notin old /\ r.local[player.id].late
      BY <2>6 DEF IsLate
    <3>2. player.id \notin ns /\ player.id \notin dead
      BY <3>1 DEF old
    <3>3. player.id \in Live(t) /\ t.local[player.id] = r.local[player.id]
      BY <1>2, <1>4, <3>1, <3>2
    <3> QED BY <3>1, <3>2, <3>3 DEF IsFollowed, IsLate
  <2> QED BY <2>1, <2>2, <2>3, <2>4, <2>5, <2>6 DEF IsFollowed
<1> QED BY <1>6, <1>7 DEF player

(* The spawn that was read is announced, or waits for its copy.            *)
LEMMA SpawnMessageFollows ==
  ASSUME ReplicaInv, FollowInv, joined, tcp # <<>>, tcp[1].is = "OnPlayerSpawned"
  PROVE  LET t == ParsePlayersSpawned(replica, tcp[1].id) IN
         /\ WaitBy(t, Shown, joined)
         /\ \A e \in server : e.is = "self" =>
              IsFollowed(e.id, t, Tail(tcp), deaths \cup dying, CandidateOf(t, localPlayer))
<1> DEFINE s == tcp[1].id
           x == [id |-> s, stale |-> FALSE]
           r == [replica EXCEPT !.spawns = Append(@, x)]
           t == ParsePlayersSpawned(replica, s)
           dead == deaths \cup dying
           tail == Tail(tcp)
<1>1. /\ tcp \in Messages /\ 1 \in DOMAIN tcp /\ IsMessage(tcp[1], Shown, Ids(server), nextID)
  BY FirstMessageIs
<1>2. s \in Nat /\ tcp[1] = Spawned(s) /\ SelfIn(Shown, s)
  BY <1>1, MessageIs DEF SelfIn
<1>3. SaneBy(t, Shown, Ids(server), nextID, tail, dead)
  BY SpawnMessageKeeps
<1>4. /\ KnownIs(Shown, nextID) /\ ServerIs(server, Shown, nextID, TRUE) /\ OneSelf(server)
      /\ WaitBy(replica, Shown, TRUE) /\ replica \in Work
      /\ FollowBy(server, replica, tcp, Shown, dead, CandidateOf(replica, localPlayer))
      /\ SpawnsAreUndone(tcp, Shown, Ids(server))
  BY DEF ReplicaInv, FollowInv, SaneBy
<1>5. Sane(r)
  BY <1>2, SaneIs, WaitingIsSane DEF ReplicaInv
<1>6. t = ParseSpawnEvents(r)
  BY DEF ParsePlayersSpawned
<1>7. r.local = replica.local /\ r.toClient = replica.toClient /\ r.published = replica.published
      /\ r.spawns = Append(replica.spawns, x)
  BY <1>4 DEF Work
<1>8. x.id = s /\ ~x.stale
  OBVIOUS
<1>9. /\ \A i \in DOMAIN r.spawns : r.spawns[i] = x \/ (i \in DOMAIN replica.spawns /\ r.spawns[i] = replica.spawns[i])
      /\ \A i \in DOMAIN replica.spawns : i \in DOMAIN r.spawns /\ r.spawns[i] = replica.spawns[i]
      /\ \E i \in DOMAIN r.spawns : r.spawns[i] = x
  <2>1. replica.spawns \in Seq(Spawn)
    BY <1>4, WorkIs DEF Spawns
  <2> DEFINE old == replica.spawns
             new == Append(old, x)
  <2> HIDE DEF x
  <2>2. /\ \A i \in DOMAIN new : new[i] = x \/ (i \in DOMAIN old /\ new[i] = old[i])
        /\ \A i \in DOMAIN old : i \in DOMAIN new /\ new[i] = old[i]
        /\ Len(old) + 1 \in DOMAIN new /\ new[Len(old) + 1] = x
    BY <2>1
  <2> HIDE DEF new, r
  <2> QED BY <1>7, <2>2 DEF new
<1> HIDE DEF r, x, t, tail
<1>10. PICK list : IsAnnounced(t, r, list)
  BY <1>5, <1>6, SpawnEventsAreParsed DEF Sane
<1>11. /\ t.local = replica.local /\ Live(t) = Live(replica) /\ r \in Work
       /\ \A y : HasEntity(r, y) <=> HasEntity(replica, y)
       /\ \A y : HasEntity(t, y) <=> HasEntity(replica, y)
       /\ \A y : HasEntity(replica, y) => t.toClient[y] = replica.toClient[y]
  <2>1. Live(r) = Live(replica)
    BY <1>7 DEF Live
  <2>2. \A y : HasEntity(r, y) <=> HasEntity(replica, y)
    BY <1>7, <2>1 DEF HasEntity
  <2> QED BY <1>5, <1>7, <1>10, <2>1, <2>2 DEF IsAnnounced, Live, Sane
<1>12. WaitBy(t, Shown, joined)
  <2>1. SUFFICES ASSUME NEW k \in DOMAIN t.spawns
                 PROVE  /\ ~HasEntity(t, t.spawns[k].id)
                        /\ ~t.spawns[k].stale => SelfIn(Shown, t.spawns[k].id)
    BY DEF WaitBy
  <2>2. PICK i \in DOMAIN r.spawns : t.spawns[k] = r.spawns[i] /\ ~HasEntity(r, r.spawns[i].id)
    BY <1>10 DEF IsAnnounced
  <2>3. ~r.spawns[i].stale => SelfIn(Shown, r.spawns[i].id)
    BY <1>2, <1>4, <1>8, <1>9 DEF WaitBy
  <2> QED BY <1>11, <2>2, <2>3
<1>13. ASSUME NEW e \in server, e.is = "self"
       PROVE  IsFollowed(e.id, t, tail, dead, CandidateOf(t, localPlayer))
  <2>1. UndoneBefore(e.id, tcp, Shown) /\ IsFollowed(e.id, replica, tcp, dead, CandidateOf(replica, localPlayer))
    BY <1>4, <1>13 DEF FollowBy
  <2>2. UndoneBefore(e.id, tail, Shown)
    BY <1>1, <2>1, TailIsUndone DEF tail
  <2>3. /\ DOMAIN list = {} => CandidateOf(t, localPlayer) = CandidateOf(r, localPlayer)
        /\ DOMAIN list # {} => \E k \in DOMAIN list : CandidateOf(t, localPlayer) = list[k]
    BY <1>10, <1>11, CandidateIs
  <2>4. CASE DOMAIN list # {}
    <3>1. PICK k \in DOMAIN list : CandidateOf(t, localPlayer) = list[k]
      BY <2>3, <2>4
    <3>2. PICK i \in DOMAIN r.spawns : /\ HasEntity(r, r.spawns[i].id)
                                       /\ list[k].id = r.toClient[r.spawns[i].id] /\ list[k].stale = r.spawns[i].stale
      BY <1>10 DEF IsAnnounced
    <3>3. r.spawns[i] = x
      BY <1>4, <1>9, <1>11, <3>2 DEF WaitBy
    <3> DEFINE player == list[k]
    <3>4. HasEntity(t, s) /\ player.id = t.toClient[s] /\ HasEntity(replica, s)
      BY <1>7, <1>8, <1>11, <3>2, <3>3
    <3> HIDE DEF player
    <3>5. s \in Ids(server) \/ \E j \in DOMAIN tail : Undoes(tail[j], Shown)
      <4>1. SUFFICES ASSUME s \notin Ids(server) PROVE \E j \in DOMAIN tail : Undoes(tail[j], Shown)
        OBVIOUS
      <4>2. PICK j \in DOMAIN tcp : 1 < j /\ Undoes(tcp[j], Shown)
        BY <1>1, <1>2, <1>4, <4>1 DEF SpawnsAreUndone
      <4>3. j - 1 \in DOMAIN tail /\ tail[j - 1] = tcp[j]
        <5>1. \A a \in DOMAIN tcp : (a = 1) \/ (a - 1 \in DOMAIN tail /\ tail[a - 1] = tcp[a])
          BY <1>1, TailIs DEF tail
        <5> QED BY <4>2, <5>1
      <4> QED BY <4>2, <4>3
    <3>6. IsFollowed(e.id, t, tail, dead, player)
      BY <1>2, <1>3, <1>4, <1>13, <2>2, <3>4, <3>5, AnnouncedIsFollowed
    <3> QED BY <3>1, <3>6 DEF player
  <2>5. CASE DOMAIN list = {}
    <3> DEFINE player == CandidateOf(replica, localPlayer)
    <3>1. CandidateOf(t, localPlayer) = player
      <4>1. CandidateOf(r, localPlayer) = CandidateOf(replica, localPlayer)
        BY <1>7 DEF CandidateOf
      <4> QED BY <2>3, <2>5, <4>1
    <3> HIDE DEF player
    <3>2. \A i \in DOMAIN r.spawns : \E k \in DOMAIN t.spawns : t.spawns[k] = r.spawns[i]
      BY <1>10, <2>5 DEF IsAnnounced
    <3>3. CASE \E i \in DOMAIN tcp : tcp[i] = Spawned(e.id)
      <4>1. Spawned(e.id) = tcp[1] \/ \E i \in DOMAIN tail : tail[i] = Spawned(e.id)
        BY <1>1, <3>3, TailIsUndone DEF tail
      <4>2. CASE Spawned(e.id) = tcp[1]
        <5>1. s = e.id
          BY <1>2, <4>2 DEF Spawned
        <5>2. \E k \in DOMAIN t.spawns : t.spawns[k] = x
          BY <1>9, <3>2
        <5> QED BY <1>8, <5>1, <5>2 DEF IsFollowed
      <4> QED BY <4>1, <4>2 DEF IsFollowed
    <3>4. CASE \E i \in DOMAIN replica.spawns : replica.spawns[i].id = e.id
      <4>1. \E i \in DOMAIN r.spawns : r.spawns[i].id = e.id
        BY <1>9, <3>4
      <4> QED BY <3>2, <4>1 DEF IsFollowed
    <3>5. CASE HasEntity(replica, e.id) /\ player.id = replica.toClient[e.id]
      BY <1>11, <3>1, <3>5 DEF IsFollowed
    <3>6. CASE player.stale
      BY <3>1, <3>6 DEF IsFollowed
    <3>7. CASE IsLate(replica, player, dead)
      BY <1>11, <3>1, <3>7 DEF IsFollowed, IsLate
    <3> QED BY <2>1, <3>3, <3>4, <3>5, <3>6, <3>7 DEF IsFollowed, player
  <2> QED BY <2>4, <2>5
<1> QED BY <1>12, <1>13 DEF t, s, tail

(* A deletion that is read takes no copy of the player there is, and when  *)
(* it is of one there was, the next is announced after it.                 *)
LEMMA DeletionMessageFollows ==
  ASSUME ReplicaInv, FollowInv, joined, tcp # <<>>, tcp[1].is = "EntityDeleted"
  PROVE  LET s == tcp[1].id
             t == ParseEntityDeletion(replica, s)
             dead == IF Dies(replica, s) THEN deaths \cup {replica.toClient[s]} ELSE deaths IN
         /\ WaitBy(t, Shown, joined)
         /\ \A e \in server : e.is = "self" =>
              IsFollowed(e.id, t, Tail(tcp), dead \cup dying, CandidateOf(t, localPlayer))
<1> DEFINE s == tcp[1].id
           r == replica
           t == ParseEntityDeletion(r, s)
           dead == IF Dies(r, s) THEN deaths \cup {r.toClient[s]} ELSE deaths
           tail == Tail(tcp)
           player == CandidateOf(r, localPlayer)
<1>1. tcp \in Messages /\ 1 \in DOMAIN tcp /\ IsMessage(tcp[1], Shown, Ids(server), nextID)
  BY FirstMessageIs
<1>2. s \in Nat /\ tcp[1] = Deleted(s) /\ s \notin Ids(server) /\ \A x : tcp[1] # Spawned(x)
  <2>1. \A x : Spawned(x).is = "OnPlayerSpawned"
    BY DEF Spawned
  <2> QED BY <1>1, <2>1, MessageIs
<1>3. /\ SaneBy(r, Shown, Ids(server), nextID, tcp, deaths \cup dying) /\ r \in Work /\ Mirrors(r)
      /\ KnownIs(Shown, nextID) /\ WaitBy(r, Shown, joined)
      /\ FollowBy(server, r, tcp, Shown, deaths \cup dying, player)
  BY DEF ReplicaInv, SaneBy, FollowInv
<1>4. \A x : (\E i \in DOMAIN tcp : tcp[i] = Spawned(x)) => \E i \in DOMAIN tail : tail[i] = Spawned(x)
  <2>1. \A m : (\E i \in DOMAIN tcp : tcp[i] = m) => m = tcp[1] \/ \E i \in DOMAIN tail : tail[i] = m
    BY <1>1, TailIsUndone
  <2> QED BY <1>2, <2>1
<1>5. CASE ~HasEntity(r, s) \/ Dies(r, s)
  <2>1. t = r
    BY <1>5 DEF ParseEntityDeletion
  <2>2. ASSUME NEW e \in server, e.is = "self"
        PROVE  IsFollowed(e.id, r, tail, dead \cup dying, player)
    <3>1. UndoneBefore(e.id, tcp, Shown) /\ IsFollowed(e.id, r, tcp, deaths \cup dying, player)
      BY <1>3, <2>2 DEF FollowBy
    <3>2. CASE IsLate(r, player, deaths \cup dying)
      <4>1. CASE Dies(r, s) /\ player.id = r.toClient[s]
        <5>1. r.local[player.id].of = s /\ player.id \in Live(r) /\ r.local[player.id].is = "self"
          BY <1>3, <3>2, <4>1, HasIs DEF Dies, IsLate
        <5>2. SelfIn(Shown, s)
          BY <1>3, <5>1, SelfIsRoot
        <5>3. Undoes(tcp[1], Shown)
          BY <1>2, <5>2 DEF Undoes
        <5>4. \E i \in DOMAIN tail : tail[i] = Spawned(e.id)
          BY <1>1, <3>1, <5>3, TailIsUndone
        <5> QED BY <5>4 DEF IsFollowed
      <4>2. CASE ~(Dies(r, s) /\ player.id = r.toClient[s])
        <5>1. player.id \notin dead \cup dying
          BY <3>2, <4>2 DEF IsLate
        <5> HIDE DEF dead, player, tail
        <5> QED BY <3>2, <5>1 DEF IsFollowed, IsLate
      <4> QED BY <4>1, <4>2
    <3> HIDE DEF dead, player, tail
    <3>3. CASE ~IsLate(r, player, deaths \cup dying)
      BY <1>4, <3>1, <3>3 DEF IsFollowed
    <3> QED BY <3>2, <3>3
  <2> HIDE DEF dead, tail, t
  <2> QED BY <1>3, <2>1, <2>2 DEF dead, tail, t
<1>6. CASE HasEntity(r, s) /\ ~Dies(r, s)
  <2> DEFINE c == r.toClient[s]
             ns == {c}
  <2>1. IsDeleted(t, r, Taken(r, ns))
    BY <1>3, <1>6, DeletionIs
  <2>2. c \in Live(r) /\ r.local[c].of = s
    BY <1>3, <1>6, HasIs
  <2>3. r.local[c].is # "self" /\ ~Exists(r.local[c].of)
    BY <1>2, <1>6, <2>2 DEF Dies, IsPlayer, Exists
  <2>4. dead = deaths
    BY <1>6
  <2> HIDE DEF c, t, dead, tail
  <2>5. /\ ns \in SUBSET Live(r)
        /\ \A n \in ns : ~Exists(r.local[n].of) /\ (r.local[n].is = "self" => n \in deaths \cup dying)
    BY <2>2, <2>3
  <2> HIDE DEF ns
  <2>6. /\ WaitBy(t, Shown, joined)
        /\ \A e \in server : e.is = "self" => IsFollowed(e.id, t, tail, deaths \cup dying, player)
    BY <1>4, <2>1, <2>5, DeletionFollows
  <2>7. CandidateOf(t, localPlayer) = player
    BY <2>1 DEF IsDeleted, CandidateOf
  <2> HIDE DEF player
  <2> QED BY <2>4, <2>6, <2>7 DEF t, tail, dead
<1> QED BY <1>5, <1>6

(* A world that goes takes the player with it, who is announced again.     *)
LEMMA RemovalFollows ==
  ASSUME ReplicaInv, FollowInv, joined, tcp # <<>>, tcp[1] = RemoveWorld
  PROVE  LET t == Emptied(replica) IN
         /\ WaitBy(t, Shown, joined)
         /\ \A e \in server : e.is = "self" =>
              IsFollowed(e.id, t, Tail(tcp), deaths \cup dying, CandidateOf(t, localPlayer))
<1> DEFINE t == Emptied(replica)
<1>1. tcp \in Messages /\ replica \in Work
  BY FirstMessageIs DEF ReplicaInv, SaneBy
<1>2. Live(t) = {} /\ t.spawns = replica.spawns
  BY <1>1 DEF Emptied, Live, Work
<1> HIDE DEF t
<1>3. \A x : ~HasEntity(t, x)
  BY <1>2 DEF HasEntity
<1>4. WaitBy(t, Shown, joined)
  BY <1>2, <1>3 DEF FollowInv, WaitBy
<1>5. Undoes(tcp[1], Shown)
  BY DEF Undoes
<1>6. ASSUME NEW e \in server, e.is = "self"
      PROVE  \E i \in DOMAIN Tail(tcp) : Tail(tcp)[i] = Spawned(e.id)
  <2>1. UndoneBefore(e.id, tcp, Shown)
    BY <1>6 DEF FollowInv, FollowBy
  <2> QED BY <1>1, <1>5, <2>1, TailIsUndone
<1> QED BY <1>4, <1>6 DEF IsFollowed, t

(* A message that is read keeps FollowInv.                                 *)
LEMMA ReadMessageFollows ==
  ASSUME ReplicaInv, FollowInv, ReadMessage
  PROVE  FollowInv'
<1> DEFINE m == tcp[1]
<1>1. /\ joined /\ tcp # <<>> /\ tcp' = Tail(tcp)
      /\ UNCHANGED <<server, nextID, worlds, joined, dying, localPlayer>>
      /\ replica' = Parsed(replica, m)
      /\ deaths' = IF m.is = "EntityDeleted" /\ Dies(replica, m.id)
                   THEN deaths \cup {replica.toClient[m.id]} ELSE deaths
  <2>1. joined /\ tcp # <<>> /\ tcp' = Tail(tcp)
    BY DEF ReadMessage
  <2>2. Head(tcp) = m
    BY <2>1, FirstMessageIs
  <2> HIDE DEF m
  <2> QED BY <2>1, <2>2 DEF ReadMessage, Keeps, worldVars
<1>2. /\ tcp \in Messages /\ IsMessage(m, Shown, Ids(server), nextID)
      /\ m.is = "Snapshot" => Says(m.world)
  BY <1>1, FirstMessageIs
<1>3. \A e \in server : e.is = "self" => UndoneBefore(e.id, tcp, Shown)
  BY <1>1 DEF FollowInv, FollowBy
<1>4. /\ WaitBy(replica', Shown, joined)
      /\ \A e \in server : e.is = "self" =>
           IsFollowed(e.id, replica', tcp', deaths' \cup dying', CandidateOf(replica', localPlayer'))
  <2>1. CASE m.is = "Snapshot"
    <3>1. replica' = ParseSnapshot(replica, m.world) /\ deaths' = deaths
      BY <1>1, <2>1 DEF Parsed
    <3>2. \A e \in server : e.is = "self" => UndoneBefore(e.id, tcp', Shown)
      BY <1>1, <1>2, <1>3, TailIsUndone
    <3>3. \A s : (\E i \in DOMAIN tcp : tcp[i] = Spawned(s)) => \E i \in DOMAIN tcp' : tcp'[i] = Spawned(s)
      <4>1. \A x : (\E i \in DOMAIN tcp : tcp[i] = x) => x = m \/ \E i \in DOMAIN tcp' : tcp'[i] = x
        BY <1>1, <1>2, TailIsUndone
      <4>2. \A s : Spawned(s).is = "OnPlayerSpawned"
        BY DEF Spawned
      <4> HIDE DEF m
      <4> QED BY <2>1, <4>1, <4>2
    <3>4. SaneBy(ParseSnapshot(replica, m.world), Shown, Ids(server), nextID, tcp', deaths \cup dying)
      BY <1>1, <2>1, SnapshotMessageKeeps
    <3> HIDE DEF m
    <3>5. LET t == ParseSnapshot(replica, m.world) IN
          /\ WaitBy(t, Shown, joined)
          /\ \A e \in server : e.is = "self" =>
               IsFollowed(e.id, t, tcp', deaths \cup dying, CandidateOf(t, localPlayer))
      BY <1>1, <1>2, <2>1, <3>2, <3>3, <3>4, SnapshotFollows
    <3> QED BY <1>1, <3>1, <3>5
  <2>2. CASE m.is = "OnPlayerSpawned"
    <3>1. replica' = ParsePlayersSpawned(replica, m.id) /\ deaths' = deaths
      BY <1>1, <2>2 DEF Parsed
    <3> QED BY <1>1, <2>2, <3>1, SpawnMessageFollows
  <2>3. CASE m.is = "EntityDeleted"
    <3>1. /\ replica' = ParseEntityDeletion(replica, m.id)
          /\ deaths' = IF Dies(replica, m.id) THEN deaths \cup {replica.toClient[m.id]} ELSE deaths
      BY <1>1, <2>3 DEF Parsed
    <3> QED BY <1>1, <2>3, <3>1, DeletionMessageFollows
  <2>4. CASE m.is = "RemoveWorld"
    <3>1. replica' = Emptied(replica) /\ deaths' = deaths /\ tcp[1] = RemoveWorld
      BY <1>1, <1>2, <2>4, MessageIs DEF Parsed
    <3> QED BY <1>1, <3>1, RemovalFollows
  <2> QED BY <1>2, <2>1, <2>2, <2>3, <2>4, MessageIs
<1> HIDE DEF m
<1> QED BY <1>1, <1>4, ClientFollows

(* What was published last is the local player when the frame has ended.   *)
LEMMA EndFrameFollows ==
  ASSUME ReplicaInv, FollowInv, EndFrame
  PROVE  FollowInv'
<1> DEFINE d == DeleteEntities(replica, dying)
           ns == dying \cap Live(replica)
           player == CandidateOf(replica, localPlayer)
<1>1. /\ dying' = deaths /\ deaths' = {} /\ UNCHANGED <<server, nextID, worlds, joined, tcp>>
      /\ localPlayer' = player
  BY DEF EndFrame, worldVars, network, CandidateOf
<1>2. IsDeleted(d, replica, Taken(replica, ns)) /\ replica'.local = d.local /\ replica'.toClient = d.toClient
      /\ replica'.spawns = d.spawns /\ replica'.published = <<>>
  <2>1. d.toClient = replica.toClient
    BY DeletedIs DEF ReplicaInv, SaneBy
  <2>2. d.spawns = replica.spawns
    BY FrameDeletes DEF IsDeleted
  <2> QED BY <2>1, <2>2, FrameDeletes
<1>3. CandidateOf(replica', localPlayer') = player
  BY <1>1, <1>2 DEF CandidateOf
<1>4. /\ ns \in SUBSET Live(replica)
      /\ \A n \in ns : ~Exists(replica.local[n].of) /\ (replica.local[n].is = "self" => n \in deaths \cup dying)
  BY DEF ReplicaInv, SaneBy, Exists
<1> HIDE DEF d, ns, player
<1>5. WaitBy(d, Shown, joined)
  <2>1. \A s : HasEntity(d, s) => HasEntity(replica, s)
    BY <1>2 DEF IsDeleted, HasEntity
  <2> QED BY <1>2, <2>1 DEF FollowInv, WaitBy, IsDeleted
<1>6. ASSUME joined, NEW e \in server, e.is = "self"
      PROVE  IsFollowed(e.id, d, tcp, deaths, player)
  <2>1. \A s : (\E i \in DOMAIN tcp : tcp[i] = Spawned(s)) => \E i \in DOMAIN tcp : tcp[i] = Spawned(s)
    OBVIOUS
  <2>2. deaths \subseteq deaths \cup dying
    OBVIOUS
  <2> QED BY <1>2, <1>4, <1>6, <2>1, <2>2, DeletionFollows DEF player
<1>7. /\ WaitBy(replica', Shown, joined)
      /\ joined => \A e \in server : e.is = "self" => IsFollowed(e.id, replica', tcp, deaths, player)
  BY <1>2, <1>5, <1>6, FollowDependsOn
<1>8. deaths' \cup dying' = deaths
  BY <1>1
<1> QED BY <1>1, <1>3, <1>7, <1>8, ClientFollows

(* Nobody is to be followed in the world a server begins with.             *)
LEMMA NobodyIsFollowed ==
  /\ OneSelf({Map}) /\ \A known, ids : SpawnsAreUndone(<<Snapshot({Map})>>, known, ids)
  /\ \A r, messages, known, dead, player : FollowBy({Map}, r, messages, known, dead, player)
<1>1. Map.is # "self"
  BY DEF Map, Entity
<1>2. \A s : Snapshot({Map}) # Spawned(s)
  BY DEF Snapshot, Spawned
<1> QED BY <1>1, <1>2 DEF OneSelf, FollowBy, SpawnsAreUndone

(* To disconnect keeps FollowInv: what waits is of an earlier session.     *)
LEMMA LeaveFollows ==
  ASSUME ReplicaInv, FollowInv, Leave
  PROVE  FollowInv'
<1> DEFINE list == [i \in DOMAIN replica.spawns |-> [replica.spawns[i] EXCEPT !.stale = TRUE]]
<1>1. replica \in Work /\ replica.spawns \in Seq(Spawn)
  BY WorkIs DEF ReplicaInv, SaneBy, Spawns
<1>2. joined' = FALSE /\ tcp' = <<>> /\ replica' = [Emptied(replica) EXCEPT !.spawns = list]
  <2>1. Emptied(replica).spawns = replica.spawns
    BY <1>1 DEF Emptied, Work
  <2> QED BY <2>1 DEF Leave
<1>3. \A i \in DOMAIN list : list[i].stale
  BY <1>1 DEF Spawn
<1> HIDE DEF list
<1>4. replica'.spawns = list /\ Live(replica') = {}
  BY <1>1, <1>2 DEF Emptied, Work, Live
<1>5. \A x : ~HasEntity(replica', x)
  BY <1>4 DEF HasEntity
<1>6. WaitBy(replica', Shown', joined')
  BY <1>3, <1>4, <1>5 DEF WaitBy
<1>7. SpawnsAreUndone(tcp', Shown', Ids(server)')
  BY <1>2 DEF SpawnsAreUndone
<1> QED BY <1>2, <1>6, <1>7 DEF FollowInv

(* To join another server keeps FollowInv.                                 *)
LEMMA JoinFollows ==
  ASSUME ReplicaInv, FollowInv, Join
  PROVE  FollowInv'
<1>1. /\ joined = FALSE /\ joined' = TRUE /\ server' = {Map} /\ tcp' = <<Snapshot({Map})>>
      /\ replica' = replica
  BY DEF Join, ReplicaInv
<1>2. WaitBy(replica, Shown', TRUE)
  BY <1>1 DEF FollowInv, WaitBy
<1> QED BY <1>1, <1>2, NobodyIsFollowed DEF FollowInv

(* FollowInv holds of the first session's first world.                     *)
LEMMA FollowInitInv == ReplicaInit => FollowInv
<1> SUFFICES ASSUME ReplicaInit PROVE FollowInv
  OBVIOUS
<1>1. server = {Map} /\ tcp = <<Snapshot({Map})>> /\ replica.spawns = <<>>
  BY DEF ReplicaInit
<1>2. WaitBy(replica, Shown, joined)
  BY <1>1 DEF WaitBy
<1> QED BY <1>1, <1>2, NobodyIsFollowed DEF FollowInv

(* Every step keeps FollowInv.                                             *)
LEMMA FollowStepInv == ReplicaInv /\ FollowInv /\ [ReplicaNext]_replicaVars => FollowInv'
<1> SUFFICES ASSUME ReplicaInv, FollowInv, [ReplicaNext]_replicaVars PROVE FollowInv'
  OBVIOUS
<1>1. CASE ServerStep
  BY <1>1, SpawnPlayerFollows, SpawnPickupFollows, DeleteFollows, ResetMapFollows DEF ServerStep
<1>2. CASE ClientStep
  BY <1>2, ReadSnapshotFollows, ReadMessageFollows, EndFrameFollows DEF ClientStep
<1>3. CASE Leave \/ Join
  BY <1>3, LeaveFollows, JoinFollows
<1>4. CASE UNCHANGED replicaVars
  <2>1. UNCHANGED <<server, tcp, worlds, joined, replica, deaths, dying, localPlayer>>
    BY <1>4 DEF replicaVars, worldVars, network
  <2> QED BY <2>1 DEF FollowInv, Shown
<1> QED BY <1>1, <1>2, <1>3, <1>4 DEF ReplicaNext

(* When everything sent and published was handled, the local player is the *)
(* copy of the player the server gave this client - but for one that was   *)
(* announced for a late copy or out of an earlier session's queue.         *)
THEOREM PlayerIsAlwaysFollowed == ReplicaSpec => []PlayerIsFollowed
<1>1. FollowInv => PlayerIsFollowed
  <2> SUFFICES ASSUME FollowInv, joined, tcp = <<>>, replica.published = <<>>,
                      NEW e \in server, e.is = "self", HasEntity(replica, e.id)
               PROVE  \/ localPlayer.id = replica.toClient[e.id]
                      \/ localPlayer.stale
                      \/ localPlayer.id \in Live(replica) /\ replica.local[localPlayer.id].late
    BY DEF PlayerIsFollowed
  <2>1. IsFollowed(e.id, replica, tcp, deaths \cup dying, CandidateOf(replica, localPlayer))
    BY DEF FollowInv, FollowBy
  <2>2. CandidateOf(replica, localPlayer) = localPlayer
    BY DEF CandidateOf
  <2>3. \A i \in DOMAIN replica.spawns : replica.spawns[i].id # e.id
    BY DEF FollowInv, WaitBy
  <2> QED BY <2>1, <2>2, <2>3 DEF IsFollowed, IsLate
<1>2. ReplicaInit => FollowInv
  BY FollowInitInv
<1>3. ReplicaInv /\ FollowInv /\ [ReplicaNext]_replicaVars => FollowInv'
  BY FollowStepInv
<1> QED BY <1>1, <1>2, <1>3, ReplicaIsSane, PTL DEF ReplicaSpec

=============================================================================
