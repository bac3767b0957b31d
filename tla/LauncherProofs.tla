---------------------------- MODULE LauncherProofs ----------------------------
(***************************************************************************)
(* A player who hosts plays on the own server, the settings survive the    *)
(* end of the process and a failure that showed nothing makes the next one *)
(* visible, for every range of ports, length of the field, default,        *)
(* volume, resolution and text.                                            *)
(***************************************************************************)
EXTENDS Launcher, TLAPS

\* A server is a record, whose flag may be set.
ServerIsRecord == DOMAIN server = {"port", "up"}

\* The menu selects one of its options.
OptionListed == screen = "menu" => pos \in 0 .. 4

\* While main waits for its server, the field still holds the port it was given; the
\* server listens there, unless that is port 0.
WaitsForItsPort ==
  screen = "waiting" => \/ Port(form.digits) = 0
                        \/ server.port = Port(form.digits)

\* A client of a host asks this machine, where its server is up.
AsksHome ==
  screen \in {"connecting", "login", "playing"} /\ target.host =>
    /\ target.at = "mine" /\ server.up
    /\ target.port = 0 \/ server.port = target.port

\* Nobody is connected at port 0.
AskedSomewhere == screen \in {"login", "playing"} => target.port # 0

\* A server is started only in a menu, and replaces no other under a client.
HomeInv == ServerIsRecord /\ OptionListed /\ WaitsForItsPort /\ AsksHome /\ AskedSomewhere

-----------------------------------------------------------------------------

\* A step that begins neither to wait nor to connect, and leaves the server alone.
LEMMA StillAtHome ==
  ASSUME HomeInv, UNCHANGED server, OptionListed',
         screen' \notin {"waiting", "connecting", "login", "playing"}
  PROVE  HomeInv'
BY DEF HomeInv, ServerIsRecord, WaitsForItsPort, AsksHome, AskedSomewhere

\* A menu that is opened selects one of its options.
LEMMA Opened == ASSUME NEW s, Enter(s) PROVE screen' = s /\ OptionListed'
<1>1. screen' = s /\ pos' = IF s = "menu" THEN 1 ELSE 0
  BY DEF Enter
<1>. QED
  BY <1>1 DEF OptionListed

\* Going back to the menu, or out of it, leaves nobody waiting or connected.
LEMMA WayBack ==
  ASSUME BackToMenu \/ Leave
  PROVE  screen' \notin {"waiting", "connecting", "login", "playing"} /\ OptionListed'
<1>1. CASE Leave
  BY <1>1 DEF Leave, OptionListed
<1>2. CASE BackToMenu /\ open
  BY <1>2, Opened DEF BackToMenu
<1>. QED
  BY <1>1, <1>2 DEF BackToMenu

\* An event of the window changes the menu it is for, and no server.
LEMMA EventKeepsHome ==
  ASSUME HomeInv, Close \/ MenuEvent \/ PortEvent \/ IpEvent \/ OptionsEvent
  PROVE  HomeInv'
<1>1. screen' = screen /\ screen \in Menus
  BY DEF Close, MenuEvent, PortEvent, IpEvent, OptionsEvent, Event, Menus
<1>2. UNCHANGED server
  BY DEF Close, MenuEvent, PortEvent, IpEvent, OptionsEvent
<1>3. OptionListed'
  <2>1. CASE MenuEvent
    <3>1. pos' \in {pos - 1, pos + 1} \cap 0 .. 4 \/ pos' = 1 \/ pos' = pos
      BY <2>1 DEF MenuEvent
    <3>. QED
      BY <1>1, <3>1 DEF HomeInv, OptionListed
  <2>2. CASE Close
    BY <2>2 DEF Close, HomeInv, OptionListed
  <2>3. CASE PortEvent \/ IpEvent \/ OptionsEvent
    BY <1>1, <2>3 DEF PortEvent, IpEvent, OptionsEvent, Event, OptionListed
  <2>. QED
    BY <2>1, <2>2, <2>3
<1>. QED
  BY <1>1, <1>2, <1>3, StillAtHome DEF Menus

\* The end of a frame opens another menu, or begins to host or to resolve a name.
LEMMA FrameKeepsHome ==
  ASSUME HomeInv, IdleFrame \/ MenuOver \/ PortOver \/ OptionsOver
  PROVE  HomeInv'
<1>1. UNCHANGED server
  BY DEF IdleFrame, MenuOver, PortOver, OptionsOver
<1>2. CASE IdleFrame
  <2>1. screen' = screen /\ screen \in Menus /\ pos' = pos
    BY <1>2 DEF IdleFrame, inputs
  <2>. QED
    BY <1>1, <2>1, StillAtHome DEF HomeInv, OptionListed, Menus
<1>3. CASE MenuOver
  <2>1. CASE Leave
    BY <1>1, <2>1, WayBack, StillAtHome
  <2>2. CASE ~Leave
    <3>1. Enter(Options[pos + 1])
      BY <1>3, <2>2 DEF MenuOver
    <3>2. pos \in 0 .. 4
      BY <1>3 DEF MenuOver, HomeInv, OptionListed
    <3>3. Options[pos + 1] \in {"public", "port", "ip", "options", "quit"}
      BY <3>2 DEF Options
    <3>. QED
      BY <1>1, <3>1, <3>3, Opened, StillAtHome
  <2>. QED
    BY <2>1, <2>2
<1>4. CASE PortOver
  <2>1. CASE screen' = "hosting"
    BY <1>1, <2>1, StillAtHome DEF OptionListed
  <2>2. CASE BackToMenu
    BY <1>1, <2>2, WayBack, StillAtHome
  <2>. QED
    BY <1>4, <2>1, <2>2 DEF PortOver
<1>5. CASE OptionsOver
  BY <1>1, <1>5, WayBack, StillAtHome DEF OptionsOver
<1>. QED
  BY <1>2, <1>3, <1>4, <1>5

\* A client that joins a game is no host's.
LEMMA ElsewhereKeepsHome ==
  ASSUME HomeInv, UNCHANGED server, NEW at, NEW port, Connect(at, port, FALSE)
  PROVE  HomeInv'
<1>1. screen' = "connecting" /\ ~target'.host
  BY DEF Connect
<1>. QED
  BY <1>1 DEF HomeInv, ServerIsRecord, OptionListed, WaitsForItsPort, AsksHome, AskedSomewhere

LEMMA IpKeepsHome == ASSUME HomeInv, IpOver PROVE HomeInv'
<1>1. CASE form.found = ""
  BY <1>1, WayBack, StillAtHome DEF IpOver
<1>2. CASE form.found # ""
  <2>1. Connect(form.found, Port(form.digits), FALSE)
    BY <1>2 DEF IpOver
  <2>. QED
    BY <2>1, ElsewhereKeepsHome DEF IpOver
<1>. QED
  BY <1>1, <1>2

LEMMA PublicKeepsHome == ASSUME HomeInv, ResolvePublic PROVE HomeInv'
<1>1. CASE Connect("other", MaxPort, FALSE)
  BY <1>1, ElsewhereKeepsHome DEF ResolvePublic
<1>2. CASE BackToMenu
  BY <1>2, WayBack, StillAtHome DEF ResolvePublic
<1>. QED
  BY <1>1, <1>2 DEF ResolvePublic

\* A new server takes the port of the field, or any for port 0; no client is there.
LEMMA StartKeepsHome == ASSUME HomeInv, StartServer PROVE HomeInv'
<1>1. CASE BackToMenu /\ UNCHANGED server
  BY <1>1, WayBack, StillAtHome
<1>2. ASSUME NEW port \in Listening(Port(form.digits)),
             server' = [port |-> port, up |-> FALSE],
             screen' \in {"waiting", "aborted"}, UNCHANGED inputs
      PROVE  HomeInv'
  <2>1. form' = form
    BY <1>2 DEF inputs
  <2>2. Port(form.digits) = 0 \/ port = Port(form.digits)
    BY DEF Listening
  <2>3. DOMAIN server' = {"port", "up"} /\ server'.port = port
    BY <1>2
  <2>4. WaitsForItsPort'
    BY <2>1, <2>2, <2>3 DEF WaitsForItsPort
  <2>. QED
    BY <1>2, <2>3, <2>4 DEF HomeInv, ServerIsRecord, OptionListed, AsksHome, AskedSomewhere
<1>3. CASE \E port \in Listening(Port(form.digits)) \ {server.port} :
              /\ server' = [port |-> port, up |-> FALSE]
              /\ screen' \in {"waiting", "aborted"}
              /\ UNCHANGED inputs
  BY <1>2, <1>3
<1>. QED
  BY <1>1, <1>3 DEF StartServer

\* The own server is up: the client asks for the port it was started with.
LEMMA ReadyKeepsHome == ASSUME HomeInv, ServerReady PROVE HomeInv'
<1>1. Port(form.digits) = 0 \/ server.port = Port(form.digits)
  BY DEF ServerReady, HomeInv, WaitsForItsPort
<1>2. server' = [server EXCEPT !.up = TRUE] /\ DOMAIN server = {"port", "up"}
  BY DEF ServerReady, HomeInv, ServerIsRecord
<1>3. DOMAIN server' = {"port", "up"} /\ server'.up /\ server'.port = server.port
  BY <1>2
<1>4. screen' = "connecting" /\ target' = [at |-> "mine", port |-> Port(form.digits), host |-> TRUE]
  BY DEF ServerReady, HomePort, Connect
<1>. QED
  BY <1>1, <1>3, <1>4
  DEF HomeInv, ServerIsRecord, OptionListed, WaitsForItsPort, AsksHome, AskedSomewhere

\* The connection is there or refused, the login is answered, the game goes on or ends.
LEMMA GameKeepsHome ==
  ASSUME HomeInv, Connected \/ Refused \/ Answer \/ Play
  PROVE  HomeInv'
<1>1. CASE Connected
  BY <1>1
  DEF Connected, HomeInv, ServerIsRecord, OptionListed, WaitsForItsPort, AsksHome, AskedSomewhere
<1>2. ASSUME NEW text, Thrown(text) PROVE HomeInv'
  BY <1>2, WayBack, StillAtHome DEF Thrown
<1>3. CASE LoggedIn /\ screen' = "playing"
  BY <1>3
  DEF LoggedIn, HomeInv, ServerIsRecord, OptionListed, WaitsForItsPort, AsksHome, AskedSomewhere
<1>4. CASE LoggedIn /\ Leave
  BY <1>4, WayBack, StillAtHome DEF LoggedIn
<1>5. CASE Play
  BY <1>5
  DEF Play, HomeInv, ServerIsRecord, OptionListed, WaitsForItsPort, AsksHome, AskedSomewhere
<1>. QED
  BY <1>1, <1>2, <1>3, <1>4, <1>5 DEF Refused, Answer, Denied, LoggedIn

\* A process that starts has neither server nor client.
LEMMA NewProcess ==
  /\ LInit => HomeInv
  /\ Restart => HomeInv'
<1>1. DOMAIN NoServer = {"port", "up"}
  BY DEF NoServer
<1>2. ASSUME LInit PROVE HomeInv
  BY <1>1, <1>2
  DEF LInit, HomeInv, ServerIsRecord, OptionListed, WaitsForItsPort, AsksHome, AskedSomewhere
<1>3. ASSUME Restart PROVE HomeInv'
  BY <1>1, <1>3
  DEF Restart, HomeInv, ServerIsRecord, OptionListed, WaitsForItsPort, AsksHome, AskedSomewhere
<1>. QED
  BY <1>2, <1>3

\* HostPlaysAtHome, for every width of ports and of their field: who hosts asks this
\* machine, where the server of the own process is up and listens on the port asked for;
\* with port 0, where that is not so, the host gets no further than asking.
THEOREM HostIsAtHome == LSpec => []HostPlaysAtHome
<1>1. LInit => HomeInv
  BY NewProcess
<1>2. HomeInv /\ [LNext]_lvars => HomeInv'
  <2>. SUFFICES ASSUME HomeInv, [LNext]_lvars PROVE HomeInv'
    OBVIOUS
  <2>1. CASE Close \/ MenuEvent \/ PortEvent \/ IpEvent \/ OptionsEvent
    BY <2>1, EventKeepsHome
  <2>2. CASE IdleFrame \/ MenuOver \/ PortOver \/ OptionsOver
    BY <2>2, FrameKeepsHome
  <2>3. CASE IpOver
    BY <2>3, IpKeepsHome
  <2>4. CASE ResolvePublic
    BY <2>4, PublicKeepsHome
  <2>5. CASE StartServer
    BY <2>5, StartKeepsHome
  <2>6. CASE ServerReady
    BY <2>6, ReadyKeepsHome
  <2>7. CASE Connected \/ Refused \/ Answer \/ Play
    BY <2>7, GameKeepsHome
  <2>8. CASE Restart
    BY <2>8, NewProcess
  <2>9. CASE UNCHANGED lvars
    BY <2>9 DEF lvars, HomeInv, ServerIsRecord, OptionListed, WaitsForItsPort, AsksHome,
                    AskedSomewhere
  <2>. QED
    BY <2>1, <2>2, <2>3, <2>4, <2>5, <2>6, <2>7, <2>8, <2>9 DEF LNext, Step
<1>3. HomeInv => HostPlaysAtHome
  BY DEF HomeInv, AsksHome, AskedSomewhere, HostPlaysAtHome
<1>. QED
  BY <1>1, <1>2, <1>3, PTL DEF LSpec

-----------------------------------------------------------------------------

\* Outside the menu of the options, the file holds what is in force.
FileInv == screen # "options" => file = opts

\* Going back to the menu, or out of it, changes no option.
LEMMA WayBackKeepsOptions == BackToMenu \/ Leave => opts' = opts
BY DEF BackToMenu, Leave, inputs

\* Only the menu of the options changes them.
LEMMA OptionsChangeThere ==
  ASSUME [LNext]_lvars, ~OptionsEvent, ~OptionsOver, ~Restart
  PROVE  /\ UNCHANGED <<opts, file>>
         /\ screen = "options" => screen' = "options"
<1>1. CASE Close \/ MenuEvent \/ PortEvent \/ IpEvent
  BY <1>1 DEF Close, MenuEvent, PortEvent, IpEvent, Event
<1>2. CASE IdleFrame
  BY <1>2 DEF IdleFrame, inputs
<1>3. CASE MenuOver
  BY <1>3, WayBackKeepsOptions DEF MenuOver
<1>4. CASE PortOver \/ IpOver
  BY <1>4, WayBackKeepsOptions DEF PortOver, IpOver, inputs
<1>5. CASE ResolvePublic \/ StartServer
  BY <1>5, WayBackKeepsOptions DEF ResolvePublic, StartServer, inputs
<1>6. CASE Refused \/ Answer
  BY <1>6, WayBackKeepsOptions DEF Refused, Answer, Denied, Thrown, LoggedIn, inputs
<1>7. CASE ServerReady \/ Connected \/ Play
  BY <1>7 DEF ServerReady, Connected, Play, inputs
<1>8. CASE UNCHANGED lvars
  BY <1>8 DEF lvars
<1>. QED
  BY <1>1, <1>2, <1>3, <1>4, <1>5, <1>6, <1>7, <1>8 DEF LNext, Step

\* SettingsSurvive, for every volume and list of resolutions: the way out of the
\* options is always the one that saves them.
THEOREM SettingsAreKept == LSpec => SettingsSurvive
<1>1. LInit => FileInv
  BY DEF LInit, FileInv
<1>2. FileInv /\ [LNext]_lvars => FileInv'
  <2>. SUFFICES ASSUME FileInv, [LNext]_lvars PROVE FileInv'
    OBVIOUS
  <2>1. CASE OptionsEvent
    BY <2>1 DEF OptionsEvent, Event, FileInv
  <2>2. CASE OptionsOver
    BY <2>2, WayBackKeepsOptions DEF OptionsOver, Saved, FileInv
  <2>3. CASE Restart
    BY <2>3 DEF Restart, FileInv
  <2>4. CASE ~OptionsEvent /\ ~OptionsOver /\ ~Restart
    BY <2>4, OptionsChangeThere DEF FileInv
  <2>. QED
    BY <2>1, <2>2, <2>3, <2>4
<1>3. FileInv /\ [LNext]_lvars => [Restart => opts' = opts]_lvars
  BY DEF FileInv, Restart, Over
<1>. QED
  BY <1>1, <1>2, <1>3, PTL DEF LSpec, SettingsSurvive

-----------------------------------------------------------------------------

\* Where a failure leads, unless it is that of a name: to the menu, or to the end.
Back == {"menu"} \cup Over

\* A failure that showed nothing met an expired message, which the next frame removes.
\* The failure after it stores its message anew, and the next frame draws it: it cannot
\* expire before, for nothing fails in the menu.
UnseenInv ==
  watched # "resolve" =>
    /\ unseen \in {"no", "now", "before", "again"}
    /\ message \in {"none", "new", "fresh", "expired"}
    /\ unseen = "before" => message = "none"
    /\ unseen = "again" => message = "new" /\ screen \in Back

LEMMA FailIsSeen ==
  ASSUME UnseenInv, NEW text, Fail(text), screen \notin Back,
         text = "resolve" \/ screen' \in Back
  PROVE  UnseenInv'
<1>1. SUFFICES ASSUME watched # "resolve" PROVE UnseenInv'
  BY DEF Fail, UnseenInv
<1>2. /\ watched' = watched
      /\ unseen \in {"no", "now", "before"} /\ (unseen = "before" => message = "none")
  BY <1>1 DEF Fail, UnseenInv
<1>3. CASE text # watched
  <2>1. /\ unseen' = unseen /\ (message = "none" => message' = "none")
        /\ message' \in {"none", "new", "fresh", "expired"}
    BY <1>1, <1>3 DEF Fail, Later, UnseenInv
  <2>. QED
    BY <1>2, <2>1 DEF UnseenInv
<1>4. CASE text = watched
  <2>1. screen' \in Back
    BY <1>1, <1>4
  <2>2. unseen' = IF unseen = "before" THEN "again" ELSE "now"
    BY <1>2, <1>4 DEF Fail
  <2>3. /\ message = "none" => message' = "new"
        /\ message' \in {"none", "new", "fresh", "expired"}
    BY <1>1, <1>4 DEF Fail, Later, UnseenInv
  <2>. QED
    BY <1>2, <2>1, <2>2, <2>3 DEF UnseenInv
<1>. QED
  BY <1>3, <1>4

\* A frame draws what was stored since the last one, and removes what has expired.
LEMMA DrawMakesRoom == ASSUME UnseenInv, Draw PROVE UnseenInv'
<1>1. SUFFICES ASSUME watched # "resolve" PROVE UnseenInv'
  BY DEF Draw, UnseenInv
<1>2. PICK m \in IF message = "fresh" THEN Later(message) ELSE {message} :
        /\ message' = IF m = "new" THEN "fresh" ELSE Remains(m)
        /\ unseen' = IF m \in {"new", "fresh"} THEN "no"
                     ELSE [no |-> "no", now |-> "before", before |-> "before",
                           again |-> "twice", twice |-> "twice"][unseen]
  BY DEF Draw
<1>3. unseen \in {"no", "now", "before", "again"} /\ (unseen = "again" => m = "new")
  BY <1>1, <1>2 DEF UnseenInv
<1>4. m \in {"new", "fresh"} => unseen' = "no"
  BY <1>2
<1>5. m \notin {"new", "fresh"} => unseen' = IF unseen = "no" THEN "no" ELSE "before"
  BY <1>2, <1>3
<1>6. m \in {"none", "new", "fresh", "expired"}
  BY <1>1, <1>2 DEF UnseenInv, Later
<1>7. message' = IF m = "new" THEN "fresh" ELSE IF m = "expired" THEN "none" ELSE m
  BY <1>2 DEF Remains
<1>. QED
  BY <1>4, <1>5, <1>6, <1>7 DEF UnseenInv

LEMMA NotesKept ==
  ASSUME UnseenInv, UNCHANGED notes, screen \in Back => screen' \in Back
  PROVE  UnseenInv'
BY DEF notes, UnseenInv

\* NeverSilentTwice, for every text but that of a name: of the failures in two frames
\* the second is drawn if the first was not.
THEOREM FailuresAreSeen == LSpec => []NeverSilentTwice
<1>1. LInit => UnseenInv
  BY DEF LInit, UnseenInv
<1>2. UnseenInv /\ [LNext]_lvars => UnseenInv'
  <2>. SUFFICES ASSUME UnseenInv, [LNext]_lvars PROVE UnseenInv'
    OBVIOUS
  <2>1. CASE Close \/ MenuEvent \/ PortEvent \/ OptionsEvent
    BY <2>1, NotesKept DEF Close, MenuEvent, PortEvent, OptionsEvent
  <2>2. CASE Connected \/ ServerReady
    BY <2>2, NotesKept DEF Connected, ServerReady, Back, Over
  <2>3. CASE LoggedIn \/ Play
    BY <2>3, NotesKept DEF LoggedIn, Play, Back, Over
  <2>4. CASE IdleFrame \/ MenuOver \/ PortOver \/ IpOver \/ OptionsOver
    BY <2>4, DrawMakesRoom DEF IdleFrame, MenuOver, PortOver, IpOver, OptionsOver
  <2>5. CASE IpEvent
    <3>1. screen = "ip" /\ screen' = "ip"
      BY <2>5 DEF IpEvent, Event
    <3>2. UNCHANGED notes \/ Fail("resolve")
      BY <2>5 DEF IpEvent, Confirm
    <3>. QED
      BY <3>1, <3>2, NotesKept, FailIsSeen DEF Back, Over
  <2>6. ASSUME NEW text, Fail(text), BackToMenu, screen \notin Back PROVE UnseenInv'
    <3>1. screen' \in Back
      BY <2>6 DEF BackToMenu, Enter, Leave, Back, Over
    <3>. QED
      BY <2>6, <3>1, FailIsSeen
  <2>7. CASE ResolvePublic \/ StartServer
    <3>1. screen \in {"public", "hosting"}
      BY <2>7 DEF ResolvePublic, StartServer
    <3>2. CASE UNCHANGED notes
      BY <3>1, <3>2, NotesKept DEF Back, Over
    <3>3. CASE ~UNCHANGED notes
      BY <2>6, <2>7, <3>1, <3>3 DEF ResolvePublic, StartServer, Back, Over
    <3>. QED
      BY <3>2, <3>3
  <2>8. CASE Refused \/ Denied
    BY <2>6, <2>8 DEF Refused, Denied, Thrown, Back, Over
  <2>9. CASE Restart
    BY <2>9 DEF Restart, UnseenInv
  <2>10. CASE UNCHANGED lvars
    BY <2>10, NotesKept DEF lvars, notes
  <2>. QED
    BY <2>1, <2>2, <2>3, <2>4, <2>5, <2>7, <2>8, <2>9, <2>10 DEF LNext, Step, Answer
<1>3. UnseenInv => NeverSilentTwice
  BY DEF UnseenInv, NeverSilentTwice
<1>. QED
  BY <1>1, <1>2, <1>3, PTL DEF LSpec
=============================================================================
