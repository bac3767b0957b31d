------------------------------ MODULE Launcher ------------------------------
(***************************************************************************)
(* The process of a player: src/src/main.cpp and the menus it opens.       *)
(*                                                                         *)
(* An event of the window is a step, and so is the end of a frame, which   *)
(* draws and then looks whether the menu is over: further events of the    *)
(* same frame may come in between.  Resolving a name, starting a server    *)
(* and connecting block the process and are steps of their own.  The game  *)
(* itself is the module GameFlow.                                          *)
(***************************************************************************)
EXTENDS Integers, SequencesExt

CONSTANTS
  Digits,      \* the digits that are typed
  MaxDigits,   \* how many a port field takes
  MaxPort,     \* the largest unsigned short
  DefaultPort, \* DEFAULT_PORT
  MaxVolume,   \* music_volume of 100, in steps of 5
  Modes,       \* the resolutions offered: 0 .. Modes - 1, Modes is any other
  Watched      \* texts whose messages are followed, one in each behaviour (bound)

ASSUME LauncherAssumption ==
  /\ Digits \subseteq 0 .. 9 /\ {MaxDigits, MaxPort, Modes} \subseteq Nat \ {0} /\ MaxVolume \in Nat
  /\ DefaultPort \in Nat /\ Watched \subseteq {"public", "server", "client", "denied", "resolve"}

VARIABLES
  screen,  \* where main and its menus are, see Screens
  open,    \* window.isOpen()
  done,    \* theselect or done of the menu
  pos,     \* the option selected
  form,    \* ipBuffer, portBuffer, enteringIp and ip of the text fields
  opts,    \* the options
  file,    \* config.json
  pending, \* bufferWidth, bufferHeight and resolutionChanged
  server,  \* the server of this process and its thread, or NoServer
  target,  \* what the client connects to, or NoTarget
  watched, \* the text whose messages are followed: texts do not interact
  message, \* is watched in storedMessages, was it drawn, and is its time over?
  unseen   \* history: failures with that text since a frame has last drawn it

lvars == <<screen, open, done, pos, form, opts, file, pending, server, target,
           watched, message, unseen>>

inputs == <<open, done, pos, form, opts, pending>>
notes  == <<watched, message, unseen>>

Options == <<"public", "port", "ip", "options", "quit">>
Menus   == {"menu", "port", "ip", "options"}
Over    == {"ended", "aborted"}
Screens == Menus \cup Over \cup {"public", "hosting", "waiting", "connecting", "login", "playing"}

NoServer == [port |-> -1, up |-> FALSE]
NoTarget == [at |-> "", port |-> 0, host |-> FALSE]
NoForm   == [name |-> "", digits |-> <<>>, onName |-> TRUE, found |-> ""]
Settings == [volume: 0 .. MaxVolume, muted: BOOLEAN, mode: 0 .. Modes, fullscreen: BOOLEAN]

\* Names that are typed: one resolves to this machine, one to another.
Names == {"", "mine", "other", "nowhere"}

PortTexts == UNION {[1 .. n -> Digits] : n \in 0 .. MaxDigits}

\* std::istringstream >> unsigned short: too large a number becomes the largest.
Number(digits) == FoldLeft(LAMBDA n, d : 10 * n + d, 0, digits)
Port(digits) == IF Number(digits) > MaxPort THEN MaxPort ELSE Number(digits)

\* std::to_string
Decimal(n) == CHOOSE d \in PortTexts : d # <<>> /\ d[1] # 0 /\ Number(d) = n

LTypeOK ==
  /\ screen \in Screens /\ open \in BOOLEAN /\ done \in BOOLEAN /\ pos \in 0 .. 4
  /\ form \in [name: Names, digits: PortTexts, onName: BOOLEAN, found: {"", "mine", "other"}]
  /\ opts \in Settings /\ file \in Settings
  /\ pending \in [mode: 0 .. Modes, changed: BOOLEAN]
  /\ server \in [port: 0 .. MaxPort, up: BOOLEAN] \cup {NoServer}
  /\ target \in [at: {"mine", "other"}, port: 0 .. MaxPort, host: BOOLEAN] \cup {NoTarget}
  /\ watched \in Watched /\ message \in {"none", "new", "fresh", "expired"}
  /\ unseen \in {"no", "now", "before", "again", "twice"}

Defaults == [volume |-> MaxVolume, muted |-> FALSE, mode |-> Modes, fullscreen |-> FALSE]

\* load_options and save_options at the start of main.
LInit ==
  /\ screen = "menu" /\ open = TRUE /\ done = FALSE /\ pos = 1 /\ form = NoForm
  /\ opts = Defaults /\ file = Defaults
  /\ pending = [mode |-> Defaults.mode, changed |-> FALSE]
  /\ server = NoServer /\ target = NoTarget
  /\ watched \in Watched /\ message = "none" /\ unseen = "no"

-----------------------------------------------------------------------------
(* Messages.  The operators M_* are mutants, each a bug that a property is  *)
(* shown to catch; no definition uses them.                                 *)

\* A blocking call may outlast the time of any message.
Later(m) == IF m = "none" THEN {m} ELSE {m, "expired"}

\* storeMessage, after a call that blocked: a text that is stored, expired or not, is
\* not stored again.
Fail(text) ==
  /\ UNCHANGED watched
  /\ \E m \in Later(message) : message' = IF text = watched /\ m = "none" THEN "new" ELSE m
  /\ unseen' = IF text # watched THEN unseen
               ELSE [no |-> "now", now |-> "now", before |-> "again",
                     again |-> "again", twice |-> "twice"][unseen]

\* renderStoredMessages, with every frame of a menu: what has expired since is removed
\* instead.  Between two frames a message that was drawn before may expire; one that was
\* stored since the last frame does so in a blocking call only.
\* Mutant: what has expired is not drawn, but stays stored.
M_Remains(m) == m
Remains(m)   == IF m = "expired" THEN "none" ELSE m

Draw ==
  \E m \in IF message = "fresh" THEN Later(message) ELSE {message} :
    /\ message' = IF m = "new" THEN "fresh" ELSE Remains(m)
    /\ unseen' = IF m \in {"new", "fresh"} THEN "no"
                 ELSE [no |-> "no", now |-> "before", before |-> "before",
                       again |-> "twice", twice |-> "twice"][unseen]
    /\ UNCHANGED watched

-----------------------------------------------------------------------------
(* Events of the menus                                                     *)

Event(menu) == screen = menu /\ open

\* The constructor of the menu: Menu selects its second option, the text fields
\* begin with the default port, OptionsMenu shows the resolution in force.
Enter(s) ==
  /\ screen' = s /\ done' = FALSE
  /\ pos' = IF s = "menu" THEN 1 ELSE 0
  /\ form' = IF s \in {"port", "ip"} THEN [NoForm EXCEPT !.digits = Decimal(DefaultPort)] ELSE NoForm
  /\ pending' = [mode |-> opts.mode, changed |-> FALSE]

Close ==
  /\ open /\ screen \in Menus
  /\ open' = FALSE
  /\ UNCHANGED <<screen, done, pos, form, opts, file, pending, server, target, notes>>

\* Menu::loop_events.  Moving on takes the selection back, resizing starts anew.
MenuEvent ==
  /\ Event("menu")
  /\ \/ pos' \in {pos - 1, pos + 1} \cap 0 .. 4 /\ done' = FALSE
     \/ pos' = 1 /\ done' = FALSE
     \/ pos' = pos /\ done' = TRUE
  /\ UNCHANGED <<screen, open, form, opts, file, pending, server, target, notes>>

Typed(digits) == IF Len(digits) < MaxDigits THEN {Append(digits, d) : d \in Digits} ELSE {}
Erased(s) == IF s = <<>> THEN {} ELSE {Front(s)}

\* EnterPortMenu::loop_events: digits, backspace, Enter, Escape.
PortEvent ==
  /\ Event("port")
  /\ \/ \E d \in Typed(form.digits) \cup Erased(form.digits) :
          form' = [form EXCEPT !.digits = d] /\ UNCHANGED done
     \/ form.digits # <<>> /\ done' = TRUE /\ UNCHANGED form
     \/ form' = [form EXCEPT !.digits = <<>>] /\ done' = TRUE
  /\ UNCHANGED <<screen, open, pos, opts, file, pending, server, target, notes>>

\* Its confirm.
Confirm ==
  /\ form.name # "" /\ form.digits # <<>>
  /\ IF form.name # "nowhere"
     THEN form' = [form EXCEPT !.found = form.name] /\ done' = TRUE /\ UNCHANGED notes
     ELSE Fail("resolve") /\ UNCHANGED <<form, done>>

\* EnterIpMenu::loop_events: text for the field that has the focus, Tab, Enter,
\* Escape.
IpEvent ==
  /\ Event("ip")
  /\ \/ /\ form' \in IF form.onName
                     THEN {[form EXCEPT !.name = n] : n \in Names \ IF form.name = "" THEN {""} ELSE {}}
                     ELSE {[form EXCEPT !.digits = d] : d \in Typed(form.digits) \cup Erased(form.digits)}
        /\ UNCHANGED <<done, notes>>
     \/ form' = [form EXCEPT !.onName = ~@] /\ UNCHANGED <<done, notes>>
     \/ Confirm
     \/ form' = [form EXCEPT !.found = ""] /\ done' = TRUE /\ UNCHANGED notes
  /\ UNCHANGED <<screen, open, pos, opts, file, pending, server, target>>

\* OptionsMenu::set_values, when the window is created again.
Recreated(o) == pos' = 0 /\ pending' = [pending EXCEPT !.mode = o.mode]

\* Left and Right: the volume, the resolution to apply, the mode of the window.
Turn(d) ==
  \/ /\ pos = 0 /\ ~opts.muted /\ opts.volume + d \in 0 .. MaxVolume
     /\ opts' = [opts EXCEPT !.volume = @ + d] /\ UNCHANGED pending
  \/ /\ pos = 1 /\ UNCHANGED opts
     /\ LET listed == IF pending.mode < Modes THEN pending.mode ELSE 0
        IN  pending' = [mode |-> (listed - d + Modes) % Modes, changed |-> TRUE]
  \/ /\ pos = 2
     /\ opts' = [opts EXCEPT !.fullscreen = d = 1] /\ UNCHANGED pending

\* Enter: mute, apply the resolution, switch the mode of the window.
Apply ==
  \/ pos = 0 /\ opts' = [opts EXCEPT !.muted = ~@] /\ UNCHANGED <<pos, pending>>
  \/ /\ pos = 1 /\ pending.changed
     /\ opts' = [opts EXCEPT !.mode = pending.mode]
     /\ pos' = 0 /\ pending' = [pending EXCEPT !.changed = FALSE]
  \/ pos = 2 /\ opts' = [opts EXCEPT !.fullscreen = ~@] /\ Recreated(opts)

\* OptionsMenu::loop_events.
OptionsEvent ==
  /\ Event("options")
  /\ \/ pos' \in {pos - 1, pos + 1} \cap 0 .. 2 /\ UNCHANGED <<opts, pending, done>>
     \/ \E d \in {-1, 1} : Turn(d) /\ UNCHANGED <<pos, done>>
     \/ Apply /\ UNCHANGED done
     \/ done' = TRUE /\ UNCHANGED <<pos, opts, pending>>
  /\ UNCHANGED <<screen, open, form, file, server, target, notes>>

-----------------------------------------------------------------------------
(* The end of a frame, and what main does next                             *)

\* The loops of the run_menu methods.  Mutant: a loop that does not look at the window.
M_FrameOver == done
FrameOver   == done \/ ~open

IdleFrame ==
  /\ screen \in Menus /\ ~FrameOver
  /\ Draw
  /\ UNCHANGED <<screen, inputs, file, server, target>>

\* main returns: the destructor of a std::thread that was not joined aborts.
Leave ==
  /\ screen' = IF server = NoServer THEN "ended" ELSE "aborted"
  /\ UNCHANGED inputs

\* A closed window wins over the option selected.
MenuOver ==
  /\ screen = "menu" /\ FrameOver
  /\ Draw
  /\ IF ~open \/ Options[pos + 1] = "quit" THEN Leave
     ELSE Enter(Options[pos + 1]) /\ UNCHANGED <<open, opts>>
  /\ UNCHANGED <<file, server, target>>

\* Back to the menu, which main opens only while there is a window.
BackToMenu ==
  IF open THEN Enter("menu") /\ UNCHANGED <<open, opts>> ELSE Leave

\* Mutant: a menu whose window was closed is taken for a menu that was left
\* without saving.
M_Saved == IF open THEN opts ELSE file
Saved   == opts

OptionsOver ==
  /\ screen = "options" /\ FrameOver
  /\ Draw
  /\ file' = Saved
  /\ BackToMenu
  /\ UNCHANGED <<server, target>>

\* EnterPortMenu is over: without digits back, else a server is started, even if
\* the window was closed.
PortOver ==
  /\ screen = "port" /\ FrameOver
  /\ Draw
  /\ IF form.digits = <<>> THEN BackToMenu ELSE screen' = "hosting" /\ UNCHANGED inputs
  /\ UNCHANGED <<file, server, target>>

Connect(at, port, host) ==
  /\ screen' = "connecting"
  /\ target' = [at |-> at, port |-> port, host |-> host]

IpOver ==
  /\ screen = "ip" /\ FrameOver
  /\ Draw
  /\ IF form.found = "" THEN BackToMenu /\ UNCHANGED target
     ELSE Connect(form.found, Port(form.digits), FALSE) /\ UNCHANGED inputs
  /\ UNCHANGED <<file, server>>

\* "Join public": the name is resolved, or not.
ResolvePublic ==
  /\ screen = "public"
  /\ \/ Connect("other", MaxPort, FALSE) /\ UNCHANGED <<inputs, notes>>
     \/ Fail("public") /\ BackToMenu /\ UNCHANGED target
  /\ UNCHANGED <<file, server>>

\* The ports that a socket may get: port 0 is any free one.
Listening(port) == IF port = 0 THEN 1 .. MaxPort ELSE {port}

\* "Host": the server's socket takes a port, unless it is taken, by a server of ours or
\* another.  The new server replaces the one before; its std::thread is then assigned to
\* serverThread, which aborts if that one was not joined.
StartServer ==
  /\ screen = "hosting"
  /\ \/ Fail("server") /\ BackToMenu /\ UNCHANGED server
     \/ /\ \E port \in Listening(Port(form.digits)) \ {server.port} :
               server' = [port |-> port, up |-> FALSE]
        /\ screen' = IF server = NoServer THEN "waiting" ELSE "aborted"
        /\ UNCHANGED <<inputs, notes>>
  /\ UNCHANGED <<file, target>>

\* Server::run has set ready.  Mutant: the client asks for a port of another width.
M_HomePort == Number(form.digits)
HomePort   == Port(form.digits)

ServerReady ==
  /\ screen = "waiting"
  /\ server' = [server EXCEPT !.up = TRUE]
  /\ Connect("mine", HomePort, TRUE)
  /\ UNCHANGED <<inputs, notes, file>>

\* createClientConnection: it waits for at most a second.  Nobody answers at port 0.
Connected ==
  /\ screen = "connecting" /\ target.port # 0
  /\ screen' = "login"
  /\ UNCHANGED <<inputs, notes, file, server, target>>

\* The constructor of Client throws: a server that was started for it goes on.
Thrown(text) ==
  /\ Fail(text) /\ BackToMenu
  /\ target' = NoTarget
  /\ UNCHANGED <<file, server>>

Refused == screen = "connecting" /\ Thrown("client")

\* performLogin: a denial throws.  Without an answer it waits for ever.
Denied == screen = "login" /\ Thrown("denied")

\* With a confirmation main goes on to the game, if there still is a window.
LoggedIn ==
  /\ screen = "login"
  /\ IF open THEN screen' = "playing" /\ UNCHANGED inputs ELSE Leave
  /\ UNCHANGED <<notes, file, server, target>>

\* Client::run does not return.  A closed window ends the process, except during
\* the map selection; a send that fails is an exception that nobody catches.
Play ==
  /\ screen = "playing"
  /\ \/ open /\ screen' = "ended" /\ UNCHANGED open
     \/ open /\ open' = FALSE /\ UNCHANGED screen
     \/ screen' = "aborted" /\ UNCHANGED open
  /\ UNCHANGED <<done, pos, form, opts, file, pending, server, target, notes>>

\* The player starts the program again.
Restart ==
  /\ screen \in Over
  /\ screen' = "menu" /\ open' = TRUE /\ done' = FALSE /\ pos' = 1 /\ form' = NoForm
  /\ opts' = file /\ UNCHANGED file
  /\ pending' = [mode |-> file.mode, changed |-> FALSE]
  /\ server' = NoServer /\ target' = NoTarget
  /\ watched' \in Watched /\ message' = "none" /\ unseen' = "no"

Step ==
  \/ IdleFrame \/ MenuOver \/ PortOver \/ IpOver \/ OptionsOver
  \/ ResolvePublic \/ StartServer \/ ServerReady \/ Connected \/ Refused

\* The answer of a server.
Answer == LoggedIn \/ Denied

LNext ==
  \/ Close \/ MenuEvent \/ PortEvent \/ IpEvent \/ OptionsEvent
  \/ Step \/ Answer \/ Play \/ Restart

LSpec == LInit /\ [][LNext]_lvars /\ WF_lvars(Step)

-----------------------------------------------------------------------------
(* Properties                                                              *)

\* Who hosts asks this machine, where the server of the own process is up and listens
\* on the port asked for, from the first attempt to connect until the end of the game,
\* however the port was typed and however often hosting was tried.  The exception is
\* port 0: the server then listens elsewhere, and the host gets no further than asking.
HostPlaysAtHome ==
  screen \in {"connecting", "login", "playing"} /\ target.host =>
    /\ target.at = "mine" /\ server.up
    /\ server.port = target.port \/ (target.port = 0 /\ screen = "connecting")

\* A failure that shows nothing, because an expired message with its text is still
\* stored, makes room: of the failures in two frames the second is shown.  This does not
\* hold for names that cannot be resolved: each Enter asks twice, and the second
\* question may outlast the message of the first before any frame has drawn it.
NeverSilentTwice == watched # "resolve" => unseen # "twice"

\* However the options were left and however the process came to its end, the next
\* start has the settings of this one.
SettingsSurvive == [][Restart => opts' = opts]_lvars

\* Without a window the process ends, whatever it was doing, unless it waits for the
\* answer to a login, or the window was closed in a game whose client does not look.
WindowlessEnds == ~open ~> screen \in Over \cup {"login", "playing"}
=============================================================================
