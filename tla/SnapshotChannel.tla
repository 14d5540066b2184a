-------------------------- MODULE SnapshotChannel --------------------------
(***************************************************************************)
(* How a snapshot of the server's players reaches one client over UDP.     *)
(*                                                                         *)
(* UDPServer::SendToConnectedPlayers cuts a packet into parts that carry   *)
(* the number of their group, their index in it and the size of the group. *)
(* Every frame Client::Update first reads each datagram its socket holds   *)
(* into m_PacketSegmentMap (readPartOfPacket), then takes packets that are *)
(* complete out of the map (GetNextPacket) and parses them, all through    *)
(* one Packet object.  The network loses datagrams, reorders them and,     *)
(* MaxDuplicates times, delivers one twice.  A datagram that is lost is    *)
(* one that no step ever reads.                                            *)
(*                                                                         *)
(* The answer to the client's UDP Connect comes the same way, whole and in *)
(* group -1, which the map's unsigned key sorts behind every other: here   *)
(* ConnectGroup.                                                           *)
(***************************************************************************)
EXTENDS Integers, Sequences, FiniteSets

CONSTANTS
  MaxPacketSize,  \* MAXPACKETSIZE: the data a part carries, 64000 bytes
  HeaderSize,     \* the header of every part, six ints
  DataSizes,      \* the sizes a snapshot's data may have
  MapLimit,       \* groups m_PacketSegmentMap may hold, 5 in the code
  SizeTBytes,     \* sizeof(size_t): 8 in the builds CMakeLists.txt links, or 4
  WordBase,       \* 2^32, what the int behind a field weighs in a size_t
  MaxGroup,       \* bound: snapshots of one session
  MaxDuplicates   \* bound: datagrams the network delivers twice

ASSUME ChannelAssumption ==
  /\ MaxPacketSize \in Nat \ {0}
  /\ HeaderSize \in Nat \ {0}
  /\ DataSizes \subseteq Nat \ {0}
  /\ MapLimit \in Nat \ {0, 1}
  /\ SizeTBytes \in {4, 8}
  /\ MaxGroup \in Nat
  /\ WordBase \in Nat /\ WordBase > MaxGroup
  /\ MaxDuplicates \in Nat

VARIABLES
  connected,     \* the client has a socket
  sent,          \* data size of each snapshot sent in this session, by group
  inFlight,      \* datagrams <<group, index>> nobody has read
  duplicated,    \* datagrams the network has delivered twice so far
  segments,      \* m_PacketSegmentMap: group -> indices in order of arrival
  lastSnapshot,  \* m_LastReceivedSnapshotGroup
  phase,         \* which of its two loops Client::Update is in
  readOffset,    \* m_ReturnDataOffset of parsedPacket
  delivered      \* history: what parseMessageType was given in this session

serverVars == <<sent>>
networkVars == <<inFlight, duplicated>>
clientVars == <<connected, segments, lastSnapshot, phase, readOffset, delivered>>
vars == <<serverVars, networkVars, clientVars>>

-----------------------------------------------------------------------------
ConnectGroup == MaxGroup + 1
IsSnapshot(g) == g # ConnectGroup
PacketGroup == Len(sent) + 1

CeilDiv(a, b) == (a + b - 1) \div b

\* The parts the loop of the sender makes of data, and how many their headers
\* say there are: the header of the uncut packet is counted as well.
Parts(size) == CeilDiv(size, MaxPacketSize)
GroupSize(size) == CeilDiv(size + HeaderSize, MaxPacketSize)

PartsOf(g) == IF IsSnapshot(g) THEN Parts(sent[g]) ELSE 1
GroupSizeOf(g) == IF IsSnapshot(g) THEN GroupSize(sent[g]) ELSE 1
SizeOf(g) == HeaderSize + (IF IsSnapshot(g) THEN sent[g] ELSE 0)

\* What an int keeps of a size_t.
ToInt(n) == n % WordBase

\* Packet::Group reads a size_t where the header holds an int.  Eight bytes
\* take in the int behind it, the index.
Group(g, i) == IF SizeTBytes = 4 THEN g ELSE g + WordBase * i

Pending == DOMAIN segments
Vector(g) == IF g \in Pending THEN segments[g] ELSE << >>

(* Mutant: hasReceivedPacket never finds the part. *)
HasReceivedNever(g, i) == FALSE

HasReceived(g, i) == \E k \in DOMAIN Vector(g) : Vector(g)[k] = i

\* std::sort on the pairs (index, data), equal indices in any order.
Before(v, p, q) == v[p] < v[q] \/ (v[p] = v[q] /\ p < q)
Sorted(v) ==
  [k \in DOMAIN v |-> v[CHOOSE p \in DOMAIN v :
                          Cardinality({q \in DOMAIN v : Before(v, q, p)}) = k - 1]]

(* Mutant: room is made from the end of the map. *)
EvictedFromTheEnd == {g \in Pending : Cardinality({h \in Pending : h <= g}) > MapLimit}

\* One call of GetNextPacket: the lowest groups go until the map is back at
\* its limit, then old snapshots, up to the first group that is complete.
Evicted == {g \in Pending : Cardinality({h \in Pending : h >= g}) > MapLimit}
IsStale(g) == IsSnapshot(g) /\ lastSnapshot > Group(g, segments[g][1])
IsComplete(g) == Len(segments[g]) = GroupSizeOf(g)

(* Mutant: only the first group that is left in the map is looked at. *)
DeliverableFirst ==
  {g \in Pending \ Evicted : /\ ~IsStale(g) /\ IsComplete(g)
                             /\ \A h \in Pending \ Evicted : g <= h}

Deliverable == {g \in Pending \ Evicted : ~IsStale(g) /\ IsComplete(g)}
NextGroup == CHOOSE g \in Deliverable : \A h \in Deliverable : g <= h
Dropped(upTo) == Evicted \cup {g \in Pending : IsStale(g) /\ g <= upTo}

KeepOnly(groups) == [g \in groups |-> segments[g]]

\* Where parsing leaves the read offset.  A Connect is not read.  A snapshot
\* read from its first byte is read to its end; one read from further on is
\* garbage, and how far that carries is not known.
OffsetsAfter(g) ==
  CASE ~IsSnapshot(g) -> {readOffset}
    [] IsSnapshot(g) /\ readOffset = 0 -> {SizeOf(g)}
    [] IsSnapshot(g) /\ readOffset # 0 -> {readOffset} \cup (readOffset..SizeOf(g))

-----------------------------------------------------------------------------
TypeOK ==
  /\ connected \in BOOLEAN
  /\ sent \in Seq(DataSizes)
  /\ Len(sent) <= MaxGroup
  /\ inFlight \subseteq (1..ConnectGroup) \X Nat
  /\ duplicated \in 0..MaxDuplicates
  /\ Pending \subseteq 1..ConnectGroup
  /\ \A g \in Pending : segments[g] \in Seq(Nat) /\ segments[g] # << >>
  /\ lastSnapshot \in 0..MaxGroup
  /\ phase \in {"read", "drain"}
  /\ readOffset \in Nat
  /\ delivered \in Seq([group : 1..ConnectGroup, parts : Seq(Nat), from : Nat])

Init ==
  /\ connected = FALSE
  /\ sent = << >>
  /\ inFlight = {}
  /\ duplicated = 0
  /\ segments = [g \in {} |-> << >>]
  /\ lastSnapshot = 0
  /\ phase = "read"
  /\ readOffset = 0
  /\ delivered = << >>

\* UDPClient::Connect opens a socket; the server has a new PlayerDefinition and
\* answers the client's UDP Connect.
Connect ==
  /\ ~connected
  /\ connected' = TRUE
  /\ sent' = << >>
  /\ inFlight' = {<<ConnectGroup, 1>>}
  /\ duplicated' = 0
  /\ delivered' = << >>
  /\ UNCHANGED <<segments, lastSnapshot, phase, readOffset>>

\* UDPClient::Disconnect, called between two runs of the loops.
Disconnect ==
  /\ connected
  /\ phase = "read"
  /\ connected' = FALSE
  /\ inFlight' = {}
  /\ segments' = [g \in {} |-> << >>]
  /\ lastSnapshot' = 0
  /\ UNCHANGED <<sent, duplicated, phase, readOffset, delivered>>

\* Server::sendSnapshot: every part of the group goes out, then the player's
\* PacketGroup is incremented.
SendSnapshot ==
  /\ connected
  /\ PacketGroup <= MaxGroup
  /\ \E size \in DataSizes :
       /\ sent' = Append(sent, size)
       /\ inFlight' = inFlight \cup ({PacketGroup} \X (1..Parts(size)))
  /\ UNCHANGED <<duplicated, clientVars>>

\* The network hands over a datagram, and may keep another copy of it.
Arrive(d) ==
  \/ inFlight' = inFlight \ {d} /\ UNCHANGED duplicated
  \/ /\ duplicated < MaxDuplicates
     /\ duplicated' = duplicated + 1
     /\ UNCHANGED inFlight

\* UDPClient::readPartOfPacket, for the next datagram the socket holds.
ReadPartOfPacket ==
  /\ connected
  /\ phase = "read"
  /\ \E d \in inFlight :
       /\ Arrive(d)
       /\ segments' = IF HasReceived(d[1], d[2]) THEN segments
                      ELSE [h \in Pending \cup {d[1]} |->
                              IF h = d[1] THEN Append(Vector(h), d[2]) ELSE segments[h]]
  /\ UNCHANGED <<serverVars, connected, lastSnapshot, phase, readOffset, delivered>>

\* The socket is empty: parsedPacket is made and the second loop begins.
StartDrain ==
  /\ connected
  /\ phase = "read"
  /\ phase' = "drain"
  /\ readOffset' = 0
  /\ UNCHANGED <<serverVars, networkVars, connected, segments, lastSnapshot, delivered>>

\* GetNextPacket returns true: its packet is put together and parsed.
DeliverPacket ==
  /\ connected
  /\ phase = "drain"
  /\ Deliverable # {}
  /\ segments' = KeepOnly(Pending \ (Dropped(NextGroup) \cup {NextGroup}))
  /\ lastSnapshot' = IF IsSnapshot(NextGroup)
                     THEN ToInt(Group(NextGroup, Sorted(segments[NextGroup])[1]))
                     ELSE lastSnapshot
  /\ delivered' = Append(delivered, [group |-> NextGroup,
                                     parts |-> Sorted(segments[NextGroup]),
                                     from |-> readOffset])
  /\ readOffset' \in OffsetsAfter(NextGroup)
  /\ UNCHANGED <<serverVars, networkVars, connected, phase>>

\* GetNextPacket returns false: the loop is over for this frame.
EndDrain ==
  /\ connected
  /\ phase = "drain"
  /\ Deliverable = {}
  /\ segments' = KeepOnly(Pending \ Dropped(ConnectGroup))
  /\ phase' = "read"
  /\ UNCHANGED <<serverVars, networkVars, connected, lastSnapshot, readOffset, delivered>>

Next ==
  \/ Connect \/ Disconnect
  \/ SendSnapshot
  \/ ReadPartOfPacket \/ StartDrain \/ DeliverPacket \/ EndDrain

\* The game loop calls Client::Update every frame, and its loops end.
Fairness == WF_vars(StartDrain) /\ WF_vars(DeliverPacket) /\ WF_vars(EndDrain)

Spec == Init /\ [][Next]_vars /\ Fairness

-----------------------------------------------------------------------------
(* Properties *)

\* The parser is never given a piece of a packet, a part twice, parts in the
\* wrong order or parts of two packets, whatever was lost, reordered or
\* doubled on the way: GetNextPacket only counts the parts of a group and
\* relies on readPartOfPacket to keep each index once (UDPClient.cpp:184).
DeliveredWhole ==
  \A k \in DOMAIN delivered :
    delivered[k].parts = [i \in 1..PartsOf(delivered[k].group) |-> i]

\* When the loop of a frame ends nothing that is complete is left behind, and
\* the map is back within its limit, however many datagrams the frame read.
DrainSettles ==
  [][phase = "drain" /\ phase' = "read" =>
       /\ Cardinality(Pending') <= MapLimit
       /\ \A g \in Pending' : IsStale(g)' \/ ~IsComplete(g)']_vars

\* Making room never costs the newest snapshot: a step that takes the highest
\* group out of the map has delivered it, unless a newer one was before it.
TheNewestIsKept ==
  [][connected' =>
       \A g \in Pending :
         (IsSnapshot(g) /\ \A h \in Pending : IsSnapshot(h) => h <= g)
         => \/ g \in Pending'
            \/ \E k \in DOMAIN delivered' : /\ IsSnapshot(delivered'[k].group)
                                            /\ delivered'[k].group >= g]_vars

\* A snapshot that has all the parts its headers promise is parsed, or a newer
\* one is, unless newer groups crowd it out of the map or the client leaves.
CompleteOnesAreDelivered ==
  \A g \in 1..MaxGroup :
    (g \in Pending /\ IsComplete(g))
      ~> \/ ~connected
         \/ \E k \in DOMAIN delivered : /\ IsSnapshot(delivered[k].group)
                                        /\ delivered[k].group >= g
         \/ Len(sent) >= g + MapLimit - 1

\* "Packet will get real data in GetNextPacket()" (Client.cpp:57): every
\* snapshot handed to parseMessageType is read from its first byte.  The code
\* makes parsedPacket once, and ReconstructFromData (Packet.cpp:110) leaves the
\* read offset where the previous packet of the frame ended.
ReadFromTheStart ==
  \A k \in DOMAIN delivered : IsSnapshot(delivered[k].group) => delivered[k].from = 0

\* GetNextPacket never parses a snapshot after a newer one.  Only where a
\* size_t has four bytes: with eight, Group weighs the index of the part far
\* above m_LastReceivedSnapshotGroup, and no snapshot is ever found old.
SnapshotsInOrder ==
  \A j, k \in DOMAIN delivered :
    (j < k /\ IsSnapshot(delivered[j].group) /\ IsSnapshot(delivered[k].group))
    => delivered[j].group <= delivered[k].group

=============================================================================
