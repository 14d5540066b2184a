---------------------------- MODULE ServerSession ----------------------------
(***************************************************************************)
(* The sessions of a server (Server.cpp, TCPServer.cpp) with the clients   *)
(* at their other ends (Client.cpp, TCPClient.cpp): connecting, pings and  *)
(* time-outs, the commands a client sends and the server passes on,        *)
(* disconnecting and kicking. A client that connects again is a new        *)
(* session, with sockets of its own.                                       *)
(*                                                                         *)
(* Messages to the server arrive at any time later, those of one TCP       *)
(* stream in order; what waits is read at once, as what comes later might  *)
(* have been sent later. All delay is put on this way: a client that is    *)
(* there answers at once, and of answers to pings that wait one is kept. A *)
(* UDP Connect may arrive any number of times.                             *)
(*                                                                         *)
(* One step of Tick is one Server::Update and the unit of time. A client   *)
(* that times the server out, or is told that it was kicked, does what one *)
(* who leaves may do at any time.                                          *)
(* The contents of snapshots, the server list and what other events send   *)
(* are left out. An exception nobody catches and a null pointer end the    *)
(* server: stopped says why.                                               *)
(***************************************************************************)
EXTENDS Integers, Sequences, FiniteSets

CONSTANTS
  MaxSessions, (* bound on the connections that are made                   *)
  MaxCommands, (* bound on the commands the clients give                   *)
  PingPeriod,  (* pingInterval                                             *)
  Timeout,     (* m_TimeoutMs                                              *)
  Half,        (* clock() * 1000 is a long of 32 bits: Half stands for     *)
               (* 2^31 of it, and the clock is what is left of it          *)
  Garbage      (* what m_StartPingTime may be before it is set             *)

(* Time-outs are much shorter than what the clock can hold.                *)
ASSUME SessionAssumption ==
  /\ MaxSessions \in Nat /\ MaxCommands \in Nat
  /\ PingPeriod \in Nat \ {0} /\ Timeout \in Nat
  /\ Half \in Nat /\ Timeout + PingPeriod < Half
  /\ Garbage \subseteq 0 .. 2 * Half - 1

Session == 1..MaxSessions   (* a PlayerID: they are given out in order *)

VARIABLES
  server,   (* Server's members: stop is the StopTime of each connected    *)
            (* player, broadcast who gave each command that is to be       *)
            (* passed on, since the time since the last ping               *)
  client,   (* "none", "open", "connected" (m_IsConnected), "left" or      *)
            (* "vanished": the other end of every session                  *)
  up,       (* the TCP streams to the server                               *)
  udp,      (* the UDP Connects sent to it                                 *)
  now,      (* std::clock                                                  *)
  given,    (* the commands given so far                                   *)
  ended,    (* history: removed, "early" if timed out without a reason      *)
  silent    (* history: time since it was made or an answer was read       *)

sessionHistory == <<ended, silent>>
sessionVars == <<server, client, up, udp, now, given, sessionHistory>>

(* The time in milliseconds, computed through a product that may overflow. *)
Ms(t) == IF t < Half THEN t ELSE t - 2 * Half

Command == {"PrimaryFire", "KickPlayer"}

Message(is) == [is |-> is, command |-> "none"]
Input(command) == [is |-> "OnInputCommand", command |-> command]

Patience == Timeout + PingPeriod

SessionInit ==
  (* m_StartPingTime is not initialized. *)
  /\ \E garbage \in Garbage :
       server = [stop |-> <<>>, toDisconnect |-> <<>>, broadcast |-> <<>>,
                 next |-> 1, last |-> 0, start |-> garbage, pinged |-> FALSE,
                 since |-> 0, kicks |-> [written |-> 0, read |-> 0], stopped |-> "no"]
  /\ client = [k \in Session |-> "none"]
  /\ up = [k \in Session |-> <<>>]
  /\ udp = {}
  /\ now = 0 /\ given = 0
  /\ ended = [k \in Session |-> "no"]
  /\ silent = [k \in Session |-> 0]

-----------------------------------------------------------------------------
(* The server. s is its state while an update runs, with the streams and   *)
(* datagrams the clients send and the sessions heard of; nothing more      *)
(* happens once it stopped.                                                *)

Players(s) == DOMAIN s.stop

Unless(s, t) == IF s.stopped # "no" THEN s ELSE t

Stops(s, why) == [s EXCEPT !.stopped = why]

(* Nobody reads what is sent to an end that is gone.                       *)
Listens(k) == client[k] \in {"open", "connected"}

IsPing(m) == m.is = "Ping"

(* parsePing of a client: the answer.                                      *)
Answered(stream) ==
  IF \E i \in DOMAIN stream : IsPing(stream[i]) THEN stream ELSE Append(stream, Message("Ping"))

(* Mutant: the time-out of a new connection begins at zero. *)
AcceptUnstamped(s) ==
  [s EXCEPT !.stop = [k \in Players(s) \cup {s.next} |->
                           IF k = s.next THEN 0 ELSE s.stop[k]],
            !.next = @ + 1, !.heard = @ \cup {s.next}]

AcceptNewConnections(s) ==
  [s EXCEPT !.stop = [k \in Players(s) \cup {s.next} |->
                           IF k = s.next THEN now ELSE s.stop[k]],
            !.next = @ + 1, !.heard = @ \cup {s.next}]

(* The commands go into the packet that is being written, with the entity  *)
(* of each player looked up with at().                                     *)
AddInputCommandsToPacket(s) ==
  IF \E i \in DOMAIN s.broadcast : s.broadcast[i] \notin Players(s)
  THEN Stops(s, "command")
  ELSE [s EXCEPT !.broadcast = <<>>]

(* Mutant: the client is told the id after its own. *)
ConnectedOffByOne(s, k) == [s EXCEPT !.udp = @ \cup {k + 1}]

(* parseTCPConnect of a client: it sends its id by UDP.                    *)
Connected(s, k) == IF Listens(k) THEN [s EXCEPT !.udp = @ \cup {k}] ELSE s

(* The answer is followed by a snapshot of the world.                      *)
ParseTCPConnect(s, k) ==
  AddInputCommandsToPacket(Connected([s EXCEPT !.stop[k] = now, !.heard = @ \cup {k}], k))

(* Mutant: every player is taken for the one who answered. *)
ParsePingOfAll(s, k) ==
  [s EXCEPT !.stop = [p \in Players(s) |-> now], !.heard = @ \cup {k}]

ParsePing(s, k) == [s EXCEPT !.stop[k] = now, !.heard = @ \cup {k}]

ParseDisconnect(s, k) == [s EXCEPT !.toDisconnect = Append(@, k)]

ParseOnInputCommand(s, k, command) ==
  IF command = "PrimaryFire" THEN [s EXCEPT !.broadcast = Append(@, k)]
  ELSE [s EXCEPT !.kicks.written = @ + 1]

ParseMessage(s, k, m) ==
  LET r == [s EXCEPT !.last = k] IN
  Unless(s, CASE m.is = "Connect" -> ParseTCPConnect(r, k)
              [] m.is = "Ping" -> ParsePing(r, k)
              [] m.is = "Disconnect" -> ParseDisconnect(r, k)
              [] m.is = "OnInputCommand" -> ParseOnInputCommand(r, k, m.command))

ParseMessages(s, k, messages) ==
  LET parsed[i \in 0 .. Len(messages)] ==
        IF i = 0 THEN s ELSE ParseMessage(parsed[i - 1], k, messages[i])
  IN parsed[Len(messages)]

ReadStream(s, k) == ParseMessages([s EXCEPT !.up[k] = <<>>], k, s.up[k])

ReceiveFrom(s, k, arrived) ==
  IF k \in Players(s) \cap arrived THEN ReadStream(s, k) ELSE s

ReceiveReliable(s, arrived) ==
  LET after[k \in 0 .. MaxSessions] ==
        IF k = 0 THEN s ELSE ReceiveFrom(after[k - 1], k, arrived)
  IN after[MaxSessions]

(* The id of a player who is not there is looked up with at().             *)
ReceiveUnreliable(s, arrived) ==
  Unless(s, IF arrived \subseteq Players(s) THEN s ELSE Stops(s, "udp"))

Without(s, removed) ==
  [s EXCEPT !.stop = [k \in Players(s) \ removed |-> s.stop[k]]]

(* disconnect of a player who is not there: operator[] makes an entry, and *)
(* its socket is null.                                                     *)
DisconnectPlayers(s) ==
  LET leaving == {s.toDisconnect[i] : i \in DOMAIN s.toDisconnect} IN
  Unless(s, IF leaving \subseteq Players(s) /\ Cardinality(leaving) = Len(s.toDisconnect)
            THEN [Without(s, leaving) EXCEPT !.toDisconnect = <<>>]
            ELSE Stops(s, "disconnect"))

SendSnapshot(s) == Unless(s, AddInputCommandsToPacket(s))

SendPing(s) ==
  Unless(s, [s EXCEPT !.start = now, !.pinged = TRUE, !.since = 0,
                      !.up = [k \in Session |-> IF k \in Players(s) /\ Listens(k)
                                               THEN Answered(s.up[k]) ELSE s.up[k]]])

TimedOut(s) == {k \in Players(s) : Ms(s.start) > Ms(s.stop[k]) + Timeout}

CheckForTimeOuts(s) == Unless(s, Without(s, TimedOut(s)))

(* KickPlayer kicks player 0, whatever it says and whether he is there, and *)
(* the message goes to the socket that was read last.                      *)
Kick(s) ==
  Unless(s, IF 1 \notin Players(s) THEN Stops(s, "disconnect")
            ELSE IF s.last \in Players(s) \ {1} THEN Without(s, {1})
            ELSE Stops(s, "kick"))

(* What was published in this update is processed in the next one. (The    *)
(* socket that was read last is of no interest without a kick to come.)    *)
ProcessEvents(s) ==
  LET r == CASE s.kicks.read = 0 -> s [] s.kicks.read = 1 -> Kick(s) [] OTHER -> Kick(Kick(s))
  IN Unless(r, [r EXCEPT !.kicks = [written |-> 0, read |-> s.kicks.written],
                         !.last = IF s.kicks.written = 0 THEN 0 ELSE @])

Began ==
  [stop |-> server.stop, toDisconnect |-> server.toDisconnect, broadcast |-> server.broadcast,
   next |-> server.next, last |-> server.last, start |-> server.start, pinged |-> server.pinged,
   since |-> server.since, kicks |-> server.kicks, stopped |-> server.stopped,
   up |-> up, udp |-> udp, heard |-> {}]

Received(accepted, streams, datagrams) ==
  ReceiveUnreliable(
    ReceiveReliable(IF accepted THEN AcceptNewConnections(Began) ELSE Began, streams), datagrams)

PingIfDue(s) ==
  IF s.since + 1 >= PingPeriod THEN SendPing([s EXCEPT !.since = @ + 1])
  ELSE [s EXCEPT !.since = @ + 1]

Pinged(s, snapshot) ==
  PingIfDue(IF snapshot THEN SendSnapshot(DisconnectPlayers(s)) ELSE DisconnectPlayers(s))

-----------------------------------------------------------------------------
Opened == {k \in Session : client[k] # "none"}

AtMost(n, max) == IF n > max THEN max ELSE n

(* The clock overflowed between the answer and the ping.                   *)
Wrapped(s, k) == Ms(s.start) - Ms(s.stop[k]) > s.start - s.stop[k]

(* Timed out though something was heard of him in time.                    *)
Early(received, pinged, checked, k) ==
  /\ k \in Players(pinged) \ Players(checked)
  /\ pinged.pinged /\ ~Wrapped(pinged, k)
  /\ k \in received.heard \/ silent[k] + 1 < Timeout

(* What a step leaves behind: the server after each stage of an update.    *)
Leave(received, pinged, checked, s) ==
  LET Removed(k) == k \in Players(received) /\ k \notin Players(s) IN
  /\ server' = [stop |-> s.stop, toDisconnect |-> s.toDisconnect, broadcast |-> s.broadcast,
                next |-> s.next, last |-> s.last, start |-> s.start, pinged |-> s.pinged,
                since |-> s.since, kicks |-> s.kicks, stopped |-> s.stopped]
  /\ udp' = s.udp
  /\ up' = [k \in Session |-> IF Removed(k) THEN <<>> ELSE s.up[k]]
  /\ client' = [k \in Session |->
       IF Removed(k) THEN "left"
       ELSE IF pinged.since = 0 /\ k \in Players(pinged) /\ Listens(k) THEN "connected" ELSE client[k]]
  /\ silent' = [k \in Session |->
       IF k \notin Players(s) \/ k \in received.heard THEN 0 ELSE AtMost(silent[k] + 1, Patience + 1)]
  /\ ended' = [k \in Session |->
       IF ~Removed(k) THEN ended[k]
       ELSE IF Early(received, pinged, checked, k) THEN "early" ELSE "yes"]

(* Server::Update, in its order. Each stage is a set of one, so that it is *)
(* evaluated once. A snapshot matters here only for the commands in it.    *)
Update(accepted, streams, datagrams) ==
  \E received \in {Received(accepted, streams, datagrams)} :
  \E snapshot \in IF received.broadcast = <<>> THEN {FALSE} ELSE BOOLEAN :
  \E pinged \in {Pinged(received, snapshot)} :
  \E checked \in {CheckForTimeOuts(pinged)} :
  \E s \in {ProcessEvents(checked)} :
    Leave(received, pinged, checked, s)

(* The UDP Connect of a player who is there changes nothing here.          *)
Tick ==
  /\ server.stopped = "no"
  /\ \E streams \in SUBSET {k \in Session : up[k] # <<>>}, datagrams \in SUBSET (udp \ Players(server)) :
       Update(server.next \in Opened, streams, datagrams)
  /\ now' = IF now + 1 = 2 * Half THEN 0 ELSE now + 1
  /\ UNCHANGED given

-----------------------------------------------------------------------------
(* The clients. Once the server has closed its end, nothing a client does  *)
(* reaches it but the UDP Connect.                                         *)

Talks(k) == Listens(k) /\ ended[k] = "no" /\ server.stopped = "no"

Sends(k, m) == up' = [up EXCEPT ![k] = Append(@, m)]

Connect(k) ==
  /\ server.stopped = "no" /\ client[k] = "none" /\ k = 1 + Cardinality(Opened)
  /\ client' = [client EXCEPT ![k] = "open"]
  /\ Sends(k, Message("Connect"))
  /\ UNCHANGED <<server, udp, now, given, sessionHistory>>

(* On the command DisconnectFromServer, because of a kick or because the   *)
(* server is silent. A message is sent before the sockets are closed.      *)
Disconnect(k) ==
  /\ Talks(k)
  /\ client' = [client EXCEPT ![k] = "left"]
  /\ Sends(k, Message("Disconnect"))
  /\ UNCHANGED <<server, udp, now, given, sessionHistory>>

(* The commands of an interval are sent in one message; here each has its  *)
(* own, and the interval is part of the way.                               *)
OnInputCommand(k, command) ==
  /\ Talks(k) /\ client[k] = "connected" /\ given < MaxCommands
  /\ given' = given + 1
  /\ Sends(k, Input(command))
  /\ UNCHANGED <<server, client, udp, now, sessionHistory>>

(* The machine or the network at the other end is switched off.            *)
Vanish(k) ==
  /\ Talks(k)
  /\ client' = [client EXCEPT ![k] = "vanished"]
  /\ UNCHANGED <<server, up, udp, now, given, sessionHistory>>

ClientStep(k) ==
  \/ Connect(k) \/ Disconnect(k) \/ Vanish(k)
  \/ \E command \in Command : OnInputCommand(k, command)

SessionNext == Tick \/ \E k \in Session : ClientStep(k)

SessionSpec == SessionInit /\ [][SessionNext]_sessionVars

-----------------------------------------------------------------------------
(* Properties. *)

(* A client is timed out only if nothing was heard of it for the whole     *)
(* time-out, however connecting, answers, pings and checks interleave -    *)
(* unless no ping was ever sent (the time of the last one is garbage then) *)
(* or the clock overflowed between the answer and the ping.                *)
TimeOutsAreEarned == \A k \in Session : ended[k] # "early"

(* Whoever is not heard of is removed in bounded time, gone or late,       *)
(* connected in full or not - unless the server stopped, or what was last  *)
(* heard of him is so late on the clock that no ping comes after it.       *)
TheSilentAreRemoved ==
  \A k \in Session :
    silent[k] > Patience /\ server.stopped = "no" => Ms(server.stop[k]) + Timeout + PingPeriod >= Half

(* Only a client that left or was removed, or a command, can stop the      *)
(* server: no order of connecting, answering and waiting does.             *)
ServerOutlivesWhoStays ==
  server.stopped # "no" =>
    \/ \E k \in Session : client[k] \in {"left", "vanished"} \/ ended[k] # "no"
    \/ given > 0

=============================================================================
