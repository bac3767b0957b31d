---------------------------- MODULE MatchHistory ----------------------------
(***************************************************************************)
(* Match with two history variables, for the properties that relate a      *)
(* state to what happened earlier in the match.  They restrict nothing:    *)
(* every step of Match is a step of HNext.                                 *)
(***************************************************************************)
EXTENDS MatchProps

VARIABLES
  pressed,  \* players whose own ready input reached the server since the lobby began
  rematch   \* the round coming up is not the first one of its match, and no
            \* connection has been lost since its countdown began

hvars == <<vars, pressed, rematch>>

HInit == Init /\ pressed = {} /\ rematch = FALSE

Keep == UNCHANGED <<pressed, rematch>>

\* Simulate, noting whose ready button has arrived.
NoteSimulate ==
  /\ UNCHANGED rematch
  /\ \E S \in Arrivals, hit \in SUBSET alive, inAir \in BOOLEAN :
       \E arrived \in [S -> Inputs] :
         /\ Simulate(arrived, hit, inAir)
         /\ pressed' = pressed \cup {p \in S : "ready" \in arrived[p]}

NoteRules ==
  \/ NextRound /\ rematch' = TRUE /\ UNCHANGED pressed
  \/ \E s \in Stages : CloseMapSelection(s) /\ rematch' = FALSE /\ UNCHANGED pressed
  \/ ReturnToLobby /\ pressed' = {} /\ UNCHANGED rematch
  \/ /\ OpenMapSelection \/ EndRound \/ EndGame \/ NothingDue \/ \E s \in Stages : StopWithoutSpawns(s)
     /\ Keep

NoteEvents == \E p \in PlayerIds : Login(p) \/ \E s \in Stages : Vote(p, s)

HNext ==
  \/ StartTick /\ pressed' = pressed \cap players' /\ UNCHANGED rematch
  \/ NoteSimulate
  \/ NoteRules
  \/ \E p \in PlayerIds : /\ Disconnect(p)
                          /\ rematch' = (rematch /\ gameState # "STARTING")
                          /\ UNCHANGED pressed
  \/ NoteEvents /\ Keep

HSpec == HInit /\ [][HNext]_hvars

\* Fairness of the main loop, as in Match.
HFairSpec == HSpec /\ WF_vars(MainLoop)

\* The map selection opens because of what the players did in this lobby: each
\* one still connected has pressed ready since the lobby began.  "Prevent
\* immediately re-entering map selection due to stale ready flags."
\* (Server.cpp:485).
FreshReady ==
  gameState = "MAP_SELECT" => players \ gone \subseteq pressed

\* A rematch is fair: from the reset until the round starts, everybody is alive
\* and no bullet of the last round is left, so nobody can win it by the
\* countdown.  The first round of a match has no such reset, and a connection
\* lost in the countdown leaves a player whose last input is applied once more.
RematchStartsAlive ==
  gameState = "STARTING" /\ rematch => alive = players /\ ~shots
=============================================================================
