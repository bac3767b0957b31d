------------------------------- MODULE GameFlow -------------------------------
(***************************************************************************)
(* How one client (src/src/Client.cpp) follows the match of its server.    *)
(*                                                                         *)
(* The server is MatchContract, which the tick loop implements (module     *)
(* Match), with the deadlines of its timed phases and what it announces    *)
(* over TCP.  The client is the one of mainLoop: a frame advances the      *)
(* displayed tick, handles the events that have arrived, and acts by its   *)
(* clientState.  The client's clock lags behind the server's.              *)
(*                                                                         *)
(* All ticks are relative to the server's current tick, so that time has   *)
(* no bound: an announced tick t is t - currentTick, and the displayed     *)
(* tick is -lag.  A tick that has passed for every client is Past.         *)
(***************************************************************************)
EXTENDS MatchContract, SequencesExt, FiniteSets

CONSTANTS
  Me,           \* the id of the client that is modelled
  NoPlayer,     \* endOfGameWinnerId is nullopt
  Maps,         \* the number of stages in mapSelectionState.maps
  SelectTicks,  \* mapSelectionTimeS in ticks
  Grace,        \* ticks the server waits for votes after selectUntil
  StartTicks,   \* mapStartTimeS in ticks
  RoundTicks,   \* endOfRoundDurationTimeS in ticks
  GameTicks,    \* endOfGameDurationTimeS in ticks
  Lag,          \* displayTickDifference
  MaxLag,       \* how far the displayed tick is behind at most (bound)
  Transit       \* ticks a TCP message needs at most (bound)

ASSUME FlowAssumption ==
  /\ Me \in PlayerIds /\ PlayerIds \subseteq Nat /\ NoPlayer \notin PlayerIds
  /\ {Rounds, Maps, SelectTicks, StartTicks, RoundTicks, GameTicks, Lag} \subseteq Nat \ {0}
  /\ {Grace, Transit} \subseteq Nat
  /\ MaxLag \in Nat /\ Lag + Transit <= MaxLag

VARIABLES
  pendingWinner, \* pendingEndOfGameWinnerId
  left,      \* ticks until the deadline of the server's phase
  ballot,    \* the vote of Me in selectedMaps.byPlayer, NoVote if there is none
  toClient,  \* what the server has sent to Me over TCP
  toServer,  \* what Me has sent to the server over TCP
  linked,    \* is the TCP connection of Me alive?
  window,    \* is the window of Me open?
  client     \* Client: see ClientRecords

fvars == <<cvars, pendingWinner, left, ballot, toClient, toServer, linked, window, client>>

Past   == -(MaxLag + 2)
Never  == SelectTicks + Grace + StartTicks + MaxLag + 2
NoVote == -1

\* The operators M_* are mutants, each a bug that a property is shown to
\* catch; no definition uses them.

\* A tick the client or a message remembers, one tick later.
Aged(t) == IF t \in {Past, Never} THEN t ELSE t - 1

ClientStates ==
  {"C_CONNECTING", "C_LOBBY", "C_MAP_SELECTION", "C_WAITING_FOR_COUNTDOWN", "C_COUNTDOWN",
   "C_GAME_RUNNING", "C_END_OF_ROUND", "C_END_OF_GAME", "gone"}

Boards == UNION {[S -> 0 .. Rounds] : S \in SUBSET PlayerIds}

\* selectUntil, selectedIndex and confirmed are those of mapSelectionState.
ClientRecords ==
  [state: ClientStates, lag: Lag .. MaxLag, selectUntil: Past .. Never,
   gameStartTick: Past .. Never, selectedIndex: 0 .. Maps - 1, confirmed: BOOLEAN,
   scoreboard: Boards, winner: PlayerIds \cup {NoPlayer}]

Messages ==
  [type: {"LoginDenied", "GoToLobby"}, age: 0 .. Transit]
    \cup [type: {"LoginConfirmation", "SelectMap", "StartGame"}, tick: Past .. Never, age: 0 .. Transit]
    \cup [type: {"EndOfRound"}, scores: Boards, age: 0 .. Transit]
    \cup [type: {"EndOfGame"}, winner: PlayerIds, age: 0 .. Transit]

Requests ==
  [type: {"LoginRequest"}, age: 0 .. Transit]
    \cup [type: {"SelectedMap"}, stage: 0 .. Maps - 1, age: 0 .. Transit]

FTypeOK ==
  /\ phase \in Timed \cup {"LOBBY", "RUNNING"}
  /\ players \subseteq PlayerIds /\ score \in [PlayerIds -> 0 .. Rounds] /\ decided \in BOOLEAN
  /\ pendingWinner \in PlayerIds \cup {NoPlayer}
  /\ left \in Nat
  /\ ballot \in 0 .. Maps - 1 \cup {NoVote}
  /\ toClient \in Seq(Messages) /\ toServer \in Seq(Requests)
  /\ linked \in BOOLEAN /\ window \in BOOLEAN
  /\ client \in ClientRecords

\* A new Client sends its login at once.  gameStartTick is not initialised: it
\* may look like a tick long past or, 0 included, like one that never comes.
NewClients ==
  {[state |-> "C_CONNECTING", lag |-> Lag, selectUntil |-> Never, gameStartTick |-> t,
    selectedIndex |-> 0, confirmed |-> FALSE, scoreboard |-> <<>>, winner |-> NoPlayer]
     : t \in {Past, Never}}

FInit ==
  /\ CInit
  /\ pendingWinner = NoPlayer /\ left = 0 /\ ballot = NoVote
  /\ toClient = <<>> /\ toServer = <<[type |-> "LoginRequest", age |-> 0]>>
  /\ linked = TRUE /\ window = TRUE
  /\ client \in NewClients

-----------------------------------------------------------------------------
(* The server                                                              *)

\* sendTcpEventToEveryone, and the answer to a login: a send to a broken
\* connection is caught.
Announce(m) ==
  toClient' = IF linked THEN Append(toClient, m) ELSE toClient

Ageing(channel) == [i \in DOMAIN channel |->
  LET m == channel[i] IN
  IF "tick" \in DOMAIN m THEN [m EXCEPT !.age = @ + 1, !.tick = Aged(@)]
                         ELSE [m EXCEPT !.age = @ + 1]]

\* Assumptions about time: a message arrives within Transit ticks, and a client
\* draws a frame before it is more than MaxLag behind.
Prompt ==
  /\ \A i \in DOMAIN toClient : toClient[i].age < Transit
  /\ \A i \in DOMAIN toServer : toServer[i].age < Transit
  /\ client.state \in {"C_CONNECTING", "gone"} \/ client.lag < MaxLag

Due == phase \in {"MAP_SELECT", "END_OF_ROUND", "END_OF_GAME"} /\ left = 0

\* The next tick of the server: those whose connection is lost leave, a
\* countdown that is over starts the round.
Advance(leavers) ==
  /\ ~Due /\ Prompt
  /\ Tick(leavers)
  /\ phase' = IF phase = "STARTING" /\ left <= 1 THEN "RUNNING" ELSE phase
  /\ Me \in leavers <=> Me \in players /\ ~linked
  /\ left' = IF left > 0 THEN left - 1 ELSE 0
  /\ toClient' = Ageing(toClient) /\ toServer' = Ageing(toServer)
  /\ client' = IF client.state \in {"C_CONNECTING", "gone"} THEN client
               ELSE [client EXCEPT !.lag = @ + 1, !.selectUntil = Aged(@),
                                   !.gameStartTick = Aged(@)]
  /\ UNCHANGED <<pendingWinner, ballot, linked, window>>

OtherJoins(p) ==
  /\ p # Me /\ Join(p)
  /\ UNCHANGED <<pendingWinner, left, ballot, toClient, toServer, linked, window, client>>

\* Mutant: a login outside the lobby is dropped.
M_Deny == UNCHANGED toClient
Deny   == Announce([type |-> "LoginDenied", age |-> 0])

\* processEvents: the login of Me.  The other reasons for a denial are in
\* PlayerSessions.
HandleLogin ==
  /\ toServer # <<>> /\ Head(toServer).type = "LoginRequest"
  /\ toServer' = Tail(toServer)
  /\ IF phase = "LOBBY"
     THEN Join(Me) /\ Announce([type |-> "LoginConfirmation", tick |-> 0, age |-> 0])
     ELSE UNCHANGED cvars /\ Deny
  /\ UNCHANGED <<pendingWinner, left, ballot, linked, window, client>>

\* processEvents: the vote of Me, which counts during the selection only.
HandleVote ==
  /\ toServer # <<>> /\ Head(toServer).type = "SelectedMap"
  /\ toServer' = Tail(toServer)
  /\ ballot' = IF phase = "MAP_SELECT" THEN Head(toServer).stage ELSE ballot
  /\ UNCHANGED <<cvars, pendingWinner, left, toClient, linked, window, client>>

\* A rule of the match is due, or the lobby is ready or the round decided: the
\* phase changes and everybody is told.
Rule(Step, ticks, m) ==
  /\ Step
  /\ left' = ticks
  /\ Announce(m)
  /\ UNCHANGED <<toServer, linked, window, client>>

\* Mutant: the server does not wait for the last votes.
M_VoteTicks == SelectTicks
VoteTicks   == SelectTicks + Grace

SelectMap ==
  /\ Rule(OpenSelection, VoteTicks, [type |-> "SelectMap", tick |-> SelectTicks, age |-> 0])
  /\ ballot' = NoVote
  /\ UNCHANGED pendingWinner

FirstRound ==
  /\ Due /\ Rule(StartMatch, StartTicks, [type |-> "StartGame", tick |-> StartTicks, age |-> 0])
  /\ ballot' = NoVote
  /\ UNCHANGED pendingWinner

FurtherRound ==
  /\ Due /\ Rule(AnotherRound, StartTicks, [type |-> "StartGame", tick |-> StartTicks, age |-> 0])
  /\ UNCHANGED <<pendingWinner, ballot>>

\* EventEndOfRound carries the scores of the players who are there.
ScoreLines == [p \in players |-> score'[p]]

RoundEnds ==
  /\ Rule(Draw \/ \E p \in PlayerIds : RoundWonBy(p), RoundTicks,
          [type |-> "EndOfRound", scores |-> ScoreLines, age |-> 0])
  /\ pendingWinner' = IF decided' THEN CHOOSE p \in players : score'[p] = Rounds ELSE NoPlayer
  /\ UNCHANGED ballot

GameEnds ==
  /\ Due /\ Rule(EndOfGame, GameTicks, [type |-> "EndOfGame", winner |-> pendingWinner, age |-> 0])
  /\ pendingWinner' = NoPlayer
  /\ UNCHANGED ballot

Return ==
  /\ Due /\ Rule(BackToLobby, 0, [type |-> "GoToLobby", age |-> 0])
  /\ UNCHANGED <<pendingWinner, ballot>>

ServerStep ==
  \/ \E leavers \in SUBSET players : Advance(leavers)
  \/ HandleLogin \/ HandleVote
  \/ FirstRound \/ FurtherRound \/ GameEnds \/ Return

\* What the players do to the match.
PlayersStep == SelectMap \/ RoundEnds \/ \E p \in PlayerIds : OtherJoins(p)

-----------------------------------------------------------------------------
(* The client                                                              *)

\* Client::performLogin: only an answer ends it.  A confirmation is 4 ticks
\* ahead of what the client will display, a denial is an exception.
ReadAnswer ==
  /\ client.state = "C_CONNECTING" /\ toClient # <<>>
  /\ toClient' = Tail(toClient)
  /\ LET m == Head(toClient) IN
     CASE m.type = "LoginConfirmation" ->
            /\ client' = [client EXCEPT !.state = "C_LOBBY", !.lag = Lag - m.tick]
            /\ UNCHANGED linked
       [] m.type = "LoginDenied" ->
            client' = [client EXCEPT !.state = "gone"] /\ linked' = FALSE
       [] OTHER -> UNCHANGED <<client, linked>>
  /\ UNCHANGED <<cvars, pendingWinner, left, ballot, toServer, window>>

\* processEventsPlaying, for one event.  StartGame also puts a score of zero for the
\* players it lists; they are not told apart from those without a score.
Handled(c, m) ==
  CASE m.type = "SelectMap" ->
         [c EXCEPT !.state = "C_MAP_SELECTION", !.selectUntil = m.tick,
                   !.confirmed = FALSE, !.selectedIndex = 0]
    [] m.type = "StartGame" ->
         [c EXCEPT !.state = "C_COUNTDOWN", !.gameStartTick = m.tick,
                   !.scoreboard = [p \in {Me} |-> 0], !.winner = NoPlayer]
    [] m.type = "EndOfRound" ->
         [c EXCEPT !.state = "C_END_OF_ROUND", !.scoreboard = m.scores]
    [] m.type = "EndOfGame" ->
         [c EXCEPT !.state = "C_END_OF_GAME", !.winner = m.winner]
    [] m.type = "GoToLobby" ->
         [c EXCEPT !.state = "C_LOBBY", !.confirmed = FALSE,
                   !.scoreboard = <<>>, !.winner = NoPlayer]
    [] OTHER -> c

\* processEventsPlaying, for all that are there.
Processed(c, ms) == FoldLeft(Handled, c, ms)

SelectionOver(c) == c.state = "C_MAP_SELECTION" /\ -c.lag > c.selectUntil

CountingDown(c) == c.state \in {"C_WAITING_FOR_COUNTDOWN", "C_COUNTDOWN"}

\* tickToDisplay >= gameStartTick - 1.  Mutants: the newest tick of the server
\* is taken for the displayed one; a frame must display just this tick.
M_CountdownOver(c)  == CountingDown(c) /\ 0 >= c.gameStartTick - 1
M_CountdownExact(c) == CountingDown(c) /\ -c.lag = c.gameStartTick - 1
CountdownOver(c)    == CountingDown(c) /\ -c.lag >= c.gameStartTick - 1

\* The scheduled change of clientState, after the events.
Acted(c) ==
  IF SelectionOver(c) THEN [c EXCEPT !.state = "C_WAITING_FOR_COUNTDOWN"]
  ELSE IF CountdownOver(c) THEN [c EXCEPT !.state = "C_GAME_RUNNING"]
  ELSE c

Playing == client.state \notin {"C_CONNECTING", "gone"}

\* One pass of Client::mainLoop: the display moves on by n ticks, the first k
\* events are there.  A vote that cannot be sent is an exception nobody catches.
Frame(n, k) ==
  /\ Playing
  /\ client.lag - n >= Lag
  /\ toClient' = SubSeq(toClient, k + 1, Len(toClient))
  /\ LET c == Processed([client EXCEPT !.lag = @ - n], SubSeq(toClient, 1, k))
         votes == SelectionOver(c) /\ c.confirmed
     IN  /\ client' = IF votes /\ ~linked THEN [c EXCEPT !.state = "gone"] ELSE Acted(c)
         /\ toServer' = IF votes /\ linked
                        THEN Append(toServer, [type |-> "SelectedMap",
                                               stage |-> c.selectedIndex, age |-> 0])
                        ELSE toServer
  /\ UNCHANGED <<cvars, pendingWinner, left, ballot, linked, window>>

\* Renderer::renderMapSelection: keys move through the maps until one confirms.
Key ==
  /\ window /\ client.state = "C_MAP_SELECTION" /\ ~client.confirmed
  /\ \/ \E d \in {1, -1} :
          client' = [client EXCEPT !.selectedIndex = (@ + d + Maps) % Maps]
     \/ client' = [client EXCEPT !.confirmed = TRUE]
  /\ UNCHANGED <<cvars, pendingWinner, left, ballot, toClient, toServer, linked, window>>

\* Closing the window ends the process, but during the map selection only the
\* window goes, and without a window there is no such event again.
CloseWindow ==
  /\ window /\ Playing
  /\ window' = FALSE
  /\ IF client.state = "C_MAP_SELECTION" THEN UNCHANGED <<client, linked>>
     ELSE client' = [client EXCEPT !.state = "gone"] /\ linked' = FALSE
  /\ UNCHANGED <<cvars, pendingWinner, left, ballot, toClient, toServer>>

\* The connection breaks: nobody tells the client's main thread.
Unlink ==
  /\ linked /\ linked' = FALSE
  /\ toServer' = <<>>
  /\ UNCHANGED <<cvars, pendingWinner, left, ballot, toClient, window, client>>

\* A new client, after the server has noticed that the old one is gone.
Reconnect ==
  /\ client.state = "gone" /\ Me \notin players
  /\ client' \in NewClients /\ linked' = TRUE /\ window' = TRUE
  /\ toClient' = <<>> /\ toServer' = <<[type |-> "LoginRequest", age |-> 0]>>
  /\ UNCHANGED <<cvars, pendingWinner, left, ballot>>

ClientStep == ReadAnswer \/ \E n \in 0 .. MaxLag, k \in 0 .. Len(toClient) : Frame(n, k)

FNext ==
  \/ ServerStep \/ PlayersStep \/ ClientStep
  \/ Key \/ CloseWindow \/ Unlink \/ Reconnect

\* Both main loops run and the network delivers; players need not do anything.
FSpec ==
  /\ FInit /\ [][FNext]_fvars
  /\ WF_fvars(ServerStep)
  /\ WF_fvars(ReadAnswer)
  /\ WF_fvars(\E n \in 0 .. MaxLag : Frame(n, Len(toClient)))

-----------------------------------------------------------------------------
(* Properties                                                              *)

Following == linked /\ Playing /\ toClient = <<>>

\* The client states in which a client that has every announcement may be.  After its
\* selection it may find that a start tick has passed, which is none of this match: then
\* it plays while others still select.
Shows ==
  [LOBBY |-> {"C_LOBBY"},
   MAP_SELECT |-> {"C_MAP_SELECTION", "C_WAITING_FOR_COUNTDOWN", "C_GAME_RUNNING"},
   STARTING |-> {"C_COUNTDOWN"},
   RUNNING |-> {"C_COUNTDOWN", "C_GAME_RUNNING"},
   END_OF_ROUND |-> {"C_END_OF_ROUND"},
   END_OF_GAME |-> {"C_END_OF_GAME"}]

\* The start tick was never set, or is from before the selection of the map began.
StaleStart == client.gameStartTick = Past \/ client.gameStartTick <= left - VoteTicks

\* A client that has all announcements shows the phase of the server, with one
\* exception: it may play in the map selection, on a stale start tick.  It never plays
\* in the countdown of the server, and shows the scores the server has for the players
\* who are still there.
FollowsServer ==
  Following /\ Me \in players =>
    /\ client.state \in Shows[phase]
    /\ phase = "MAP_SELECT" /\ client.state = "C_GAME_RUNNING" => StaleStart
    /\ client.state = "C_END_OF_ROUND" =>
         \A p \in players : client.scoreboard[p] = score[p]

\* A vote that was confirmed before the server closes the selection is counted,
\* with the map that was on the screen, although the client sends it only when
\* the selection is over on its own late clock.
VoteCounts ==
  [][FirstRound /\ linked /\ Playing /\ client.confirmed
       => ballot = client.selectedIndex]_fvars

\* A login is answered, unless the connection breaks: Client::performLogin does
\* not look at connectionDead and then waits for ever.
LoginAnswered ==
  client.state = "C_CONNECTING" ~> client.state # "C_CONNECTING" \/ ~linked

\* A client in the countdown gets to play, unless the round or the connection
\* ends before.
RoundIsPlayed ==
  client.state = "C_COUNTDOWN" ~> client.state # "C_COUNTDOWN" \/ ~linked
=============================================================================
