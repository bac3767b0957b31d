--------------------------- MODULE PlayerSessions ---------------------------
(***************************************************************************)
(* Who is connected and who plays: the server's list of connections, the   *)
(* accept thread that appends to it, one event handler thread for each     *)
(* connection and one for UDP that queue events, and the tick loop that    *)
(* removes dead connections, hands out player ids and handles the events.  *)
(***************************************************************************)
EXTENDS Integers, FiniteSets, SequencesExt

CONSTANTS
  Conns,       \* the connections that may ever be accepted
  NoConn,      \* no connection, the null pointer
  MaxPlayers,  \* MAX_PLAYERS
  Outdated,    \* the clients with another api version
  MaxEvents    \* bound: UDP packets are sent while fewer events are queued

ASSUME SessionsAssumption ==
  /\ NoConn \notin Conns
  /\ MaxPlayers \in Nat \ {0} /\ MaxEvents \in Nat
  /\ Outdated \subseteq Conns

VARIABLES
  pc,           \* what the server's main thread does
  connections,  \* ServerSocket::connections
  accepting,    \* the connection that the accept thread builds
  equipped,     \* has the accept thread looked for the event handler?
  args,         \* the connections that have their eventHandlerArgs
  handler,      \* the event handler thread of a connection
  pid,          \* getPlayerId, also after the connection is gone: its client knows it
  dead,         \* the connections with connectionDead
  asked,        \* clients that have sent their login
  closed,       \* clients that have left
  events,       \* connectionEventsQueue
  pool,         \* availablePlayerIds
  players,      \* the players of the game state
  deleteList,   \* the ids of dead connections that are still to be removed
  lobby,        \* is the game in the lobby?
  loggedIn,     \* history: the connections whose login was granted
  strangers     \* history: has a sweep found a dead connection without a login?

threads == <<accepting, equipped, args, handler>>
clients == <<asked, closed>>
game    == <<pool, players, deleteList, lobby>>
history == <<loggedIn, strangers>>
svars   == <<pc, connections, threads, pid, dead, clients, events, game, history>>

Ids    == 1 .. MaxPlayers
Listed == ToSet(connections)
Alive  == Listed \cup ({accepting} \ {NoConn})
Event  == [conn : Conns \cup {NoConn}, kind : {"login", "input"}]

STypeOK ==
  /\ pc \in {"boot", "args", "handler", "asleep", "removing", "events", "failed"}
  /\ connections \in Seq(Conns)
  /\ accepting \in Conns \cup {NoConn} /\ equipped \in BOOLEAN
  /\ handler \in [Conns -> {"none", "reading", "login", "gone"}]
  /\ pid \in [Conns -> 0 .. MaxPlayers]
  /\ UNION {args, dead, asked, closed, loggedIn} \subseteq Conns
  /\ events \in Seq(Event)
  /\ pool \in Seq(0 .. MaxPlayers) /\ deleteList \in Seq(0 .. MaxPlayers)
  /\ players \subseteq 0 .. MaxPlayers
  /\ lobby \in BOOLEAN /\ strangers \in BOOLEAN

SInit ==
  /\ pc = "boot" /\ connections = <<>>
  /\ accepting = NoConn /\ equipped = FALSE /\ args = {}
  /\ handler = [c \in Conns |-> "none"]
  /\ pid = [c \in Conns |-> 0] /\ dead = {}
  /\ asked = {} /\ closed = {} /\ events = <<>>
  /\ pool = <<>> /\ players = {} /\ deleteList = <<>> /\ lobby = TRUE
  /\ loggedIn = {} /\ strangers = FALSE

-----------------------------------------------------------------------------
(* Server::run, before the tick loop.  The socket already listens.         *)

HandlerSet == pc \notin {"boot", "args"}

SetArgs ==
  /\ pc = "boot" /\ pc' = "args"
  /\ args' = args \cup Listed
  /\ UNCHANGED <<connections, accepting, equipped, handler, pid, dead, clients, events, game, history>>

\* The first half of setEventHandler: new connections get the handler.
SetHandler ==
  /\ pc = "args" /\ pc' = "handler"
  /\ UNCHANGED <<connections, threads, pid, dead, clients, events, game, history>>

AllIds == [i \in Ids |-> i]

\* The second half visits the connections that have a handler, and throws for
\* each; the others get none.
EquipListed ==
  /\ pc = "handler"
  /\ IF \E c \in Listed : handler[c] # "none"
     THEN pc' = "failed" /\ UNCHANGED pool
     ELSE pc' = "asleep" /\ pool' = AllIds
  /\ UNCHANGED <<connections, threads, pid, dead, clients, events, players, deleteList, lobby, history>>

-----------------------------------------------------------------------------
(* The accept thread                                                       *)

\* The connections that were not accepted yet.  They are alike, so the next one is
\* always the same of them.
Newcomers == {c \in Conns \ (Listed \cup closed \cup asked) : handler[c] = "none"}
Newcomer  == CHOOSE c \in Newcomers : TRUE

Accept(c) ==
  /\ accepting = NoConn /\ c \in Newcomers /\ c = Newcomer
  /\ accepting' = c /\ equipped' = FALSE
  /\ args' = IF pc = "boot" THEN args ELSE args \cup {c}
  /\ UNCHANGED <<pc, connections, handler, pid, dead, clients, events, game, history>>

Equip ==
  /\ accepting # NoConn /\ ~equipped
  /\ equipped' = TRUE
  /\ handler' = IF HandlerSet THEN [handler EXCEPT ![accepting] = "reading"] ELSE handler
  /\ UNCHANGED <<pc, connections, accepting, args, pid, dead, clients, events, game, history>>

Publish ==
  /\ accepting # NoConn /\ equipped
  /\ connections' = Append(connections, accepting)
  /\ accepting' = NoConn
  /\ UNCHANGED <<pc, equipped, args, handler, pid, dead, clients, events, game, history>>

-----------------------------------------------------------------------------
(* The clients, the event handler threads and the UDP thread.              *)

\* The handler has received the login, but not yet queued it.
Receive(c) ==
  /\ handler[c] = "reading" /\ c \notin asked
  /\ handler' = [handler EXCEPT ![c] = "login"]
  /\ asked' = asked \cup {c}
  /\ UNCHANGED <<pc, connections, accepting, equipped, args, pid, dead, closed, events, game, history>>

\* The mutex of the queue: the tick loop holds it while it handles events.
\* Mutant: from the start of the sweep on.
M_QueueFree == pc \notin {"removing", "events"}
QueueFree   == pc # "events"

\* serverTcpEventHandler.  Without eventHandlerArgs there is no queue.
Push(c) ==
  /\ handler[c] = "login" /\ QueueFree
  /\ handler' = [handler EXCEPT ![c] = "reading"]
  /\ IF c \in args
     THEN /\ events' = Append(events, [conn |-> c, kind |-> "login"])
          /\ UNCHANGED pc
     ELSE pc' = "failed" /\ UNCHANGED events
  /\ UNCHANGED <<connections, accepting, equipped, args, pid, dead, clients, game, history>>

\* The client has closed its socket and the handler thread notices.
Break(c) ==
  /\ handler[c] = "reading"
  /\ handler' = [handler EXCEPT ![c] = "gone"]
  /\ dead' = dead \cup {c} /\ closed' = closed \cup {c}
  /\ UNCHANGED <<pc, connections, accepting, equipped, args, pid, asked, events, game, history>>

\* The same, noticed by an event that the tick loop sends.
SendFails(c) ==
  /\ pc \in {"asleep", "events"} /\ c \in Listed \ dead
  /\ dead' = dead \cup {c} /\ closed' = closed \cup {c}
  /\ UNCHANGED <<pc, connections, threads, pid, asked, events, game, history>>

\* The connection of a player: the last one in the list with this id.
Recipient(id) ==
  LET at == {i \in DOMAIN connections : pid[connections[i]] = id}
  IN  IF at = {} THEN NoConn ELSE connections[CHOOSE i \in at : \A j \in at : j <= i]

\* serverUdpEventHandler for an input of the client of c, which may have left
\* in the meantime or not yet be in the list.
UdpInput(c) ==
  /\ c \in loggedIn
  /\ QueueFree /\ pc # "failed" /\ Len(events) < MaxEvents
  /\ events' = Append(events, [conn |-> Recipient(pid[c]), kind |-> "input"])
  /\ UNCHANGED <<pc, connections, threads, pid, dead, clients, game, history>>

-----------------------------------------------------------------------------
(* The tick loop                                                           *)

\* The elements of a list that are in a set, in the order of the list.
Only(s, T) == FoldLeft(LAMBDA kept, c : IF c \in T THEN Append(kept, c) ELSE kept, <<>>, s)

\* Mutant: the flag is not looked at.
M_Doomed == connections
Doomed   == Only(connections, dead)

\* The ids of the dead connections are collected in an array of MAX_PLAYERS
\* elements; writing beyond it is undefined.
StartSweep ==
  /\ pc = "asleep"
  /\ deleteList' = [i \in DOMAIN Doomed |-> pid[Doomed[i]]]
  /\ strangers' = (strangers \/ ~(Listed \cap dead \subseteq loggedIn))
  /\ pc' \in {"removing"} \cup (IF Len(Doomed) > MaxPlayers THEN {"failed"} ELSE {})
  /\ UNCHANGED <<connections, threads, pid, dead, clients, events, pool, players, lobby, loggedIn>>

\* removeConnection removes every connection with the id.
\* Mutant: none.
M_Victims(id) == {}
Victims(id)   == {c \in Listed : pid[c] = id}

\* Mutant: the game keeps the player.
M_Leaves(id) == players
Leaves(id)   == players \ {id}

\* The destructor of a connection tells its handler thread to stop ...
Cancel(c) ==
  /\ pc = "removing" /\ deleteList # <<>> /\ c \in Victims(Head(deleteList))
  /\ handler[c] = "reading"
  /\ handler' = [handler EXCEPT ![c] = "gone"]
  /\ dead' = dead \cup {c}
  /\ UNCHANGED <<pc, connections, accepting, equipped, args, pid, clients, events, game, history>>

\* ... and joins it.  Mutant: it does not.
M_Joined(c) == TRUE
Joined(c)   == handler[c] \in {"none", "gone"}

RemoveDead ==
  /\ pc = "removing" /\ deleteList # <<>>
  /\ LET id == Head(deleteList)
     IN  /\ \A c \in Victims(id) : Joined(c)
         /\ players' = Leaves(id)
         /\ pool' = Append(pool, id)
         /\ connections' = Only(connections, Listed \ Victims(id))
  /\ deleteList' = Tail(deleteList)
  /\ UNCHANGED <<pc, threads, pid, dead, clients, events, lobby, history>>

EndSweep ==
  /\ pc = "removing" /\ deleteList = <<>>
  /\ pc' = "events"
  /\ UNCHANGED <<connections, threads, pid, dead, clients, events, game, history>>

\* Mutant: the id stays in the pool.
M_Rest == pool
Rest   == Tail(pool)

\* processEvents, for the next event.  A reference to a connection that is
\* gone may still read as the connection or end the server.
Handle ==
  /\ pc = "events" /\ events # <<>>
  /\ LET c       == Head(events).conn
         granted == Head(events).kind = "login" /\ pool # <<>> /\ lobby /\ c \notin Outdated
     IN  \/ c \notin Alive /\ pc' = "failed" /\ UNCHANGED <<pid, pool, players, loggedIn>>
         \/ /\ c # NoConn /\ UNCHANGED pc
            /\ IF granted
               THEN /\ pid' = [pid EXCEPT ![c] = Head(pool)]
                    /\ players' = players \cup {Head(pool)}
                    /\ pool' = Rest
                    /\ loggedIn' = loggedIn \cup {c}
               ELSE UNCHANGED <<pid, players, pool, loggedIn>>
  /\ events' = Tail(events)
  /\ UNCHANGED <<connections, threads, dead, clients, deleteList, lobby, strangers>>

EndTick ==
  /\ pc = "events" /\ events = <<>>
  /\ pc' = "asleep"
  /\ UNCHANGED <<connections, threads, pid, dead, clients, events, game, history>>

\* The match leaves the lobby, with players only, or returns to it: see Match.
ChangePhase ==
  /\ pc = "asleep" /\ (lobby => players # {})
  /\ lobby' = ~lobby
  /\ UNCHANGED <<pc, connections, threads, pid, dead, clients, events, pool, players, deleteList, history>>

-----------------------------------------------------------------------------

Boot == SetArgs \/ SetHandler \/ EquipListed
Tick == StartSweep \/ RemoveDead \/ EndSweep \/ Handle \/ EndTick

SNext ==
  \/ Boot \/ Tick \/ ChangePhase \/ Equip \/ Publish
  \/ \E c \in Conns :
       \/ Accept(c) \/ Receive(c) \/ Push(c)
       \/ Break(c) \/ SendFails(c) \/ UdpInput(c) \/ Cancel(c)

SSpec == SInit /\ [][SNext]_svars

\* The main thread, the accept thread and the handler threads keep running;
\* what clients do is up to them.
SFairSpec ==
  /\ SSpec /\ WF_svars(Boot \/ Tick) /\ WF_svars(Equip \/ Publish)
  /\ \A c \in Conns : WF_svars(Push(c) \/ Cancel(c))

-----------------------------------------------------------------------------
(* Properties                                                              *)

Running == pc \in {"asleep", "removing", "events"}

\* How often an id is free or held by a connection that was granted it.
Uses(id) ==
  Cardinality({i \in DOMAIN pool : pool[i] = id}) + Cardinality({c \in Alive \cap loggedIn : pid[c] = id})

\* Whatever clients and the network do, no two connections were granted the
\* same player id from 1 to MAX_PLAYERS, and none holds one that is free.  The
\* id 0 of a connection without a login is an id of the pool, and of any number
\* of players, only after a sweep that found such a connection dead.
IdsNeverDoubled ==
  /\ \A id \in Ids : Uses(id) <= 1
  /\ Uses(0) > 0 => strangers

\* A connection that was granted an id stays in the list, and the player with
\* this id in the game, until its client leaves; the exception is id 0, which
\* the sweep takes away together with any connection without a login.
PlayersStay ==
  [][/\ \A c \in (Listed \ Listed') \cap loggedIn : c \in closed \/ (pid[c] = 0 /\ strangers)
     /\ \A id \in players \ players' :
           \/ \E c \in Listed \cap closed : pid[c] = id /\ id # 0
           \/ id = 0 /\ strangers]_svars

\* As long as all connections that a sweep found dead had a login, no player id
\* is lost: each is free once or held once, whoever comes, is denied, leaves
\* and comes back.
IdsAccounted ==
  Running /\ ~strangers => ToSet(pool) \subseteq Ids /\ \A id \in Ids : Uses(id) = 1

\* As long as that is so, the game has no player without a connection.
NoGhosts == ~strangers => players \subseteq {pid[c] : c \in Alive} \ {0}

\* A handler thread runs only for a connection that exists, and an event whose
\* connection the sweep destroyed is handled (or ends the server) in the same
\* tick: no such reference is left in the queue for a later one.
ReferencesEnd ==
  /\ \A c \in Conns : handler[c] \in {"reading", "login"} => c \in Alive
  /\ pc = "asleep" => \A i \in DOMAIN events : events[i].conn \in Alive \cup {NoConn}

\* No player is removed whose client is still there: the loop is there to
\* "remove players with deadConnections" (Server.cpp:155).
OnlyDeadRemoved == [][(Listed \ Listed') \cap loggedIn \subseteq closed]_svars

\* A client that has left is removed, unless the server ends: no handler thread
\* that waits for the queue keeps the sweep waiting.
DeadAreRemoved == \A c \in Conns : c \in closed \cap Listed ~> c \notin Listed \/ pc = "failed"
=============================================================================
