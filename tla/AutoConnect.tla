---------------------------- MODULE AutoConnect ----------------------------
(***************************************************************************)
(* Connecting and disconnecting: how a wish of the user or of Android      *)
(* becomes the preference WantRunning, and how the preferences travel      *)
(* between the main loop (cmd/tailscale/main.go), LocalBackend (outside    *)
(* the repository) and the tile.                                           *)
(*                                                                         *)
(* The main loop edits the object state.Prefs in place and passes its      *)
(* pointer to goroutines that call SetPrefs when they come to it; every    *)
(* notification with preferences replaces the object.  Connects come from  *)
(* the UI, and, through App.autoConnect and App.vpnReady, from workers,    *)
(* IPNService and the main loop itself: setTileReady starts the service,   *)
(* and the service asks for a connect.                                     *)
(*                                                                         *)
(* The tunnel is the subject of Backend, the mailboxes that of Mailboxes.  *)
(***************************************************************************)
EXTENDS Naturals, Sequences

CONSTANTS
  Exit,        \* the exit nodes, "" (none) included
  NoExit,      \* the empty exit node
  Saved,       \* the preferences that LocalBackend has stored
  MaxConnects, \* bound on the wishes to connect, of the user and of Android
  MaxOthers,   \* bound on everything else that the user and the network do
  None         \* nil

Prefs == [want : BOOLEAN, exit : Exit]

ASSUME PrefsAssumption == NoExit \in Exit /\ Saved \in Prefs
ASSUME NoneAssumption == None \notin Prefs \cup Nat
ASSUME BoundAssumption == MaxConnects \in Nat /\ MaxOthers \in Nat

\* ipn.State
NoState == 0
Stopped == 4
Starting == 5
Running == 6
State == {NoState, Stopped, Running}

VARIABLES
  prefs,    \* main loop: the object that state.Prefs points to
  state,    \* main loop: state.State
  loop,     \* main loop: "select", or inside notify
  after,    \* main loop: 1 if the case it is in will start a goroutine at its end
  stored,   \* the exit node in the state store
  pending,  \* requestBackend: the goroutines that wait to deliver each event
  latest,   \* goroutines that will load state.Prefs and call SetPrefs
  current,  \* goroutines that will call SetPrefs with the object of state.Prefs
  frozen,   \* ... and with objects that have been replaced, by their contents
  lb,       \* LocalBackend: its preferences
  lbState,  \* LocalBackend: its state
  started,  \* LocalBackend: Start has been called
  notes,    \* LocalBackend: the notifications on their way
  auto,     \* App.autoConnect
  ready,    \* App.vpnReady, and the tile's ready
  active,   \* the tile's active
  intents,  \* Android: the intents for IPNService, oldest first
  main,     \* Android's main thread: what it waits for in IPNService
  workers,  \* the workers that are enqueued, of each kind
  starting, \* the StartVPNWorkers that have set autoConnect
  closed,   \* a message is in the channel onVPNClosed
  connects, \* the number of wishes to connect
  others,   \* the number of other inputs
  asked     \* what the inputs were about, for the properties

loopVars   == <<prefs, state, loop, after, stored>>
setterVars == <<latest, current, frozen>>
lbVars     == <<lb, lbState, started, notes>>
flagVars   == <<auto, ready, active>>
androidVars == <<intents, main, workers, starting>>
inputVars  == <<connects, others, asked>>
vars == <<loopVars, pending, setterVars, lbVars, flagVars, androidVars, closed,
          inputVars>>

\* ConnectEvent with the exit node it restores, if any, and RouteAllEvent
Event == [kind : {"connect", "disconnect"}, exit : Exit \cup {None}]
         \cup [kind : {"exit"}, exit : Exit]

Note == [prefs : Prefs \cup {None}, state : State \cup {None}]

TypeOK ==
  /\ prefs \in Prefs \cup {None} /\ state \in State
  /\ loop \in {"select", "tile", "check"} /\ after \in 0..1 /\ stored \in Exit
  /\ pending \in [Event -> Nat]
  /\ latest \in Nat /\ current \in Nat /\ frozen \in [Prefs -> Nat]
  /\ latest + current + after > 0 \/ (\E e \in Event : e.kind = "exit" /\ pending[e] > 0)
       => prefs # None
  /\ lb \in Prefs /\ lbState \in State /\ started \in BOOLEAN
  /\ notes \in Seq(Note)
  /\ {auto, ready, active, closed} \subseteq BOOLEAN
  /\ intents \in Seq({"request", "stop", "always"})
  /\ main \in {"idle", "request", "requestAlways", "check", "connect", "disconnect"}
  /\ workers \in [{"start", "stop"} -> Nat] /\ starting \in Nat
  /\ connects \in 0..MaxConnects /\ others \in 0..MaxOthers
  /\ asked \subseteq {"disconnect", "exit", "permission", "always"}

Init ==
  /\ prefs = None /\ state = NoState /\ loop = "select" /\ after = 0
  /\ stored = Saved.exit
  /\ pending = [e \in Event |-> 0]
  /\ latest = 0 /\ current = 0 /\ frozen = [p \in Prefs |-> 0]
  /\ lb = Saved /\ lbState = NoState /\ started = FALSE
  /\ notes = <<>>
  /\ auto = FALSE /\ ready = FALSE /\ active = FALSE
  /\ intents = <<>> /\ main = "idle"
  /\ workers = [w \in {"start", "stop"} |-> 0] /\ starting = 0
  /\ closed = FALSE
  /\ connects = 0 /\ others = 0 /\ asked = {}

-----------------------------------------------------------------------------
(* The inputs, within their bounds                                         *)

ToConnect(about) ==
  /\ connects < MaxConnects
  /\ connects' = connects + 1 /\ asked' = asked \cup about
  /\ UNCHANGED others

Other(about) ==
  /\ others < MaxOthers
  /\ others' = others + 1 /\ asked' = asked \cup about
  /\ UNCHANGED connects

-----------------------------------------------------------------------------
(* requestBackend and SetPrefs, each in a goroutine of its own              *)

Toggle(want, exit) ==
  [kind |-> IF want THEN "connect" ELSE "disconnect", exit |-> exit]

RequestBackend(e) == pending' = [pending EXCEPT ![e] = @ + 1]

NewPrefs == [want |-> FALSE, exit |-> NoExit]

\* state.Prefs points to another object: who holds the old one keeps it.
Replace(p) ==
  /\ prefs' = p
  /\ frozen' = IF prefs = None THEN frozen ELSE [frozen EXCEPT ![prefs] = @ + current]

\* The goroutine of a ConnectEvent loads the pointer.
LoadPrefs ==
  /\ latest > 0
  /\ latest' = latest - 1 /\ current' = current + 1
  /\ UNCHANGED <<frozen, loopVars, pending, lbVars, flagVars, androidVars, closed, inputVars>>

\* LocalBackend.SetPrefs notifies once Start has set the callback.
SetPrefs(p) ==
  /\ lb' = p
  /\ notes' = IF started THEN Append(notes, [prefs |-> p, state |-> None]) ELSE notes
  /\ UNCHANGED <<lbState, started>>

SetCurrent ==
  /\ current > 0
  /\ current' = current - 1
  /\ SetPrefs(prefs)
  /\ UNCHANGED <<latest, frozen, loopVars, pending, flagVars, androidVars, closed, inputVars>>

SetFrozen(p) ==
  /\ frozen[p] > 0
  /\ frozen' = [frozen EXCEPT ![p] = @ - 1]
  /\ SetPrefs(p)
  /\ UNCHANGED <<latest, current, loopVars, pending, flagVars, androidVars, closed, inputVars>>

-----------------------------------------------------------------------------
(* The main loop                                                           *)

\* stopVPN and startVPN in App posts an intent.
StopVPN(stops) == IF stops THEN Append(intents, "stop") ELSE intents

\* A state and a network map end in notify.  A notification with neither preferences
\* nor a state stands for one with a network map.
NotifiesAlways(n) == TRUE
Notifies(n) == n.state # None \/ n.prefs = None

\* setPrefs: setTileStatus
SetTileStatus(p) == active' = p.want

\* case n := <-notifications
Notification ==
  /\ loop = "select" /\ notes # <<>>
  /\ LET n == Head(notes)
         first == n.prefs = None /\ prefs = None
     IN  /\ notes' = Tail(notes)
         /\ IF n.prefs # None
            THEN Replace(n.prefs) /\ current' = 0 /\ SetTileStatus(n.prefs)
            ELSE IF first
            THEN Replace(NewPrefs) /\ current' = 1 /\ SetTileStatus(NewPrefs)
            ELSE UNCHANGED <<prefs, current, frozen, active>>
         /\ state' = IF n.state = None THEN state ELSE n.state
         /\ intents' = StopVPN(state > Stopped /\ state' <= Stopped)
         /\ loop' = IF Notifies(n) THEN "tile" ELSE "select"
  /\ UNCHANGED <<stored, after, latest, pending, lb, lbState, started, auto, ready,
                 main, workers, starting, closed, inputVars>>

\* case ConnectEvent, with restoreSettings
Edited(p, e) == [want |-> e.kind = "connect", exit |-> IF e.exit = None THEN p.exit ELSE e.exit]
WishUnlessFirst(e) == IF prefs = None THEN None ELSE Edited(prefs, e)
Wish(e) == Edited(IF prefs = None THEN NewPrefs ELSE prefs, e)
Connect(e) ==
  /\ e.kind \in {"connect", "disconnect"}
  /\ prefs' = Wish(e)
  /\ IF e.exit = None
     THEN latest' = latest + 1 /\ UNCHANGED <<loop, after>>
     ELSE loop' = "tile" /\ after' = 1 /\ UNCHANGED latest
  /\ UNCHANGED <<stored, current>>

\* case RouteAllEvent
NoSetterOf(e) == UNCHANGED current
SetterOf(e) == current' = current + 1
RouteAll(e) ==
  /\ e.kind = "exit"
  /\ prefs' = [prefs EXCEPT !.exit = e.exit]
  /\ SetterOf(e)
  /\ stored' = e.exit
  /\ loop' = "tile"
  /\ UNCHANGED <<latest, after>>

\* case e := <-backendEvents
BackendEvent(e) ==
  /\ loop = "select" /\ pending[e] > 0
  /\ pending' = [pending EXCEPT ![e] = @ - 1]
  /\ Connect(e) \/ RouteAll(e)
  /\ UNCHANGED <<state, frozen, lbVars, flagVars, androidVars, closed, inputVars>>

\* notify calls setTileReady, which sets the flags...
TileReady ==
  /\ loop = "tile"
  /\ loop' = "check"
  /\ ready' = (state >= Stopped)
  /\ UNCHANGED <<prefs, state, after, stored, pending, setterVars, lbVars, auto, active,
                 androidVars, closed, inputVars>>

\* ... and then looks at autoConnect, which others set.  Here the case ends.
NeverStartsVPN == FALSE
StartsVPN == ready /\ auto
TileCheck ==
  /\ loop = "check"
  /\ loop' = "select"
  /\ intents' = IF StartsVPN THEN Append(intents, "request") ELSE intents
  /\ latest' = latest + after /\ after' = 0
  /\ UNCHANGED <<prefs, state, stored, pending, current, frozen, lbVars, flagVars,
                 main, workers, starting, closed, inputVars>>

\* case s := <-onVPNRequested: the main thread goes on.
VPNRequested ==
  /\ loop = "select" /\ main \in {"request", "requestAlways"}
  /\ main' = IF main = "request" THEN "check" ELSE "connect"
  /\ UNCHANGED <<loopVars, pending, setterVars, lbVars, flagVars, intents, workers,
                 starting, closed, inputVars>>

\* case s := <-onDisconnect
Disconnect ==
  /\ loop = "select" /\ main = "disconnect"
  /\ main' = "idle"
  /\ closed' = (closed \/ state >= Starting)
  /\ UNCHANGED <<loopVars, pending, setterVars, lbVars, flagVars, intents, workers,
                 starting, inputVars>>

\* case <-onDNSConfigChanged
DNSConfigChanged ==
  /\ loop = "select"
  /\ loop' = "tile"
  /\ Other({})
  /\ UNCHANGED <<prefs, state, after, stored, pending, setterVars, lbVars, flagVars,
                 androidVars, closed>>

\* The UI: case <-onVPNClosed
VPNClosed ==
  /\ closed
  /\ closed' = FALSE
  /\ RequestBackend(Toggle(FALSE, None))
  /\ UNCHANGED <<loopVars, setterVars, lbVars, flagVars, androidVars, inputVars>>

-----------------------------------------------------------------------------
(* LocalBackend                                                            *)

\* Start sets the callback and notifies of the preferences.
Start ==
  /\ ~started
  /\ started' = TRUE
  /\ notes' = Append(notes, [prefs |-> lb, state |-> None])
  /\ UNCHANGED <<lb, lbState, loopVars, pending, setterVars, flagVars,
                 androidVars, closed, inputVars>>

\* Its state follows WantRunning, in the end.
Target == IF lb.want THEN Running ELSE Stopped
ChangeState ==
  /\ started /\ lbState # Target
  /\ lbState' = Target
  /\ notes' = Append(notes, [prefs |-> None, state |-> Target])
  /\ UNCHANGED <<lb, started, loopVars, pending, setterVars, flagVars,
                 androidVars, closed, inputVars>>

\* A network map arrives: a notification without preferences and state.
NetMap ==
  /\ lbState = Running
  /\ notes' = Append(notes, [prefs |-> None, state |-> None])
  /\ Other({})
  /\ UNCHANGED <<lb, lbState, started, loopVars, pending, setterVars, flagVars,
                 androidVars, closed>>

-----------------------------------------------------------------------------
(* IPNService, on Android's main thread                                    *)

\* A stop turns autoConnect off.
StopsAuto(i) == auto' = (auto /\ i # "stop")
Waits(i) ==
  CASE i = "stop" -> "disconnect" [] i = "request" -> "request"
    [] i = "always" -> "requestAlways"

\* onStartCommand, until it waits for the main loop in requestVPN or disconnect
OnStartCommand ==
  /\ main = "idle" /\ intents # <<>>
  /\ intents' = Tail(intents)
  /\ LET i == Head(intents)
     IN  /\ StopsAuto(i)
         /\ main' = Waits(i)
         /\ workers' = IF i = "always" THEN [workers EXCEPT !["start"] = @ + 1]
                       ELSE workers
  /\ UNCHANGED <<loopVars, pending, setterVars, lbVars, ready, active, starting,
                 closed, inputVars>>

\* ... and what it does after requestVPN
MayConnect == main = "connect" \/ (ready /\ auto)
AfterRequest ==
  /\ main \in {"check", "connect"}
  /\ main' = "idle"
  /\ IF MayConnect THEN RequestBackend(Toggle(TRUE, None)) ELSE UNCHANGED pending
  /\ UNCHANGED <<loopVars, setterVars, lbVars, flagVars, intents, workers, starting,
                 closed, inputVars>>

-----------------------------------------------------------------------------
(* The workers                                                             *)

\* StartVPNWorker.doWork: autoConnect = true...
StartVPNWorker ==
  /\ workers["start"] > 0
  /\ workers' = [workers EXCEPT !["start"] = @ - 1]
  /\ auto' = TRUE
  /\ starting' = starting + 1
  /\ UNCHANGED <<loopVars, pending, setterVars, lbVars, ready, active, intents, main,
                 closed, inputVars>>

\* ... then the service is started, or the user has to renew the permission.
StartService ==
  /\ starting > 0
  /\ starting' = starting - 1
  /\ intents' = IF "permission" \in asked THEN intents ELSE Append(intents, "request")
  /\ UNCHANGED <<loopVars, pending, setterVars, lbVars, flagVars, main, workers, closed,
                 inputVars>>

\* StopVPNWorker.doWork
StopVPNWorker ==
  /\ workers["stop"] > 0
  /\ workers' = [workers EXCEPT !["stop"] = @ - 1]
  /\ RequestBackend(Toggle(FALSE, None))
  /\ UNCHANGED <<loopVars, setterVars, lbVars, flagVars, intents, main, starting,
                 closed, inputVars>>

-----------------------------------------------------------------------------
(* What the user and Android do                                            *)

\* The switch of the UI, with decorateEventWithStoredSettings: the UI compares the
\* exit node in the store with preferences that may be out of date.
UIToggle(want) ==
  /\ prefs # None
  /\ \E exit \in {None, stored} \ {NoExit} :
       /\ RequestBackend(Toggle(want, exit))
       /\ IF want THEN ToConnect({}) ELSE Other({"disconnect"})
  /\ UNCHANGED <<loopVars, setterVars, lbVars, flagVars, androidVars, closed>>

\* The list of exit nodes, which comes with a network map
UIExit(exit) ==
  /\ prefs # None
  /\ RequestBackend([kind |-> "exit", exit |-> exit])
  /\ Other({"exit"})
  /\ UNCHANGED <<loopVars, setterVars, lbVars, flagVars, androidVars, closed>>

\* onTileClick sends a broadcast to IPNReceiver, which enqueues a worker; other
\* apps may send it as well.
TileClick ==
  /\ ready
  /\ LET w == IF active THEN "stop" ELSE "start"
     IN  /\ workers' = [workers EXCEPT ![w] = @ + 1]
         /\ IF active THEN Other({"disconnect"}) ELSE ToConnect({})
  /\ UNCHANGED <<loopVars, pending, setterVars, lbVars, flagVars, intents, main, starting,
                 closed>>
Broadcast(w) ==
  /\ workers' = [workers EXCEPT ![w] = @ + 1]
  /\ IF w = "stop" THEN Other({"disconnect"}) ELSE ToConnect({})
  /\ UNCHANGED <<loopVars, pending, setterVars, lbVars, flagVars, intents, main, starting,
                 closed>>

\* Android starts IPNService for an always-on VPN.
AlwaysOn ==
  /\ intents' = Append(intents, "always")
  /\ ToConnect({"always"})
  /\ UNCHANGED <<loopVars, pending, setterVars, lbVars, flagVars, main, workers, starting,
                 closed>>

\* onRevoke and onDestroy
Revoke ==
  /\ main = "idle"
  /\ main' = "disconnect"
  /\ Other({"disconnect", "permission"})
  /\ UNCHANGED <<loopVars, pending, setterVars, lbVars, flagVars, intents, workers,
                 starting, closed>>

-----------------------------------------------------------------------------
Setter == LoadPrefs \/ SetCurrent \/ \E p \in Prefs : SetFrozen(p)

Loop ==
  \/ Notification \/ \E e \in Event : BackendEvent(e)
  \/ TileReady \/ TileCheck \/ VPNRequested \/ Disconnect

Android ==
  \/ OnStartCommand \/ AfterRequest
  \/ StartVPNWorker \/ StartService \/ StopVPNWorker

Inputs ==
  \/ \E want \in BOOLEAN : UIToggle(want)
  \/ \E exit \in Exit : UIExit(exit)
  \/ TileClick \/ \E w \in {"start", "stop"} : Broadcast(w)
  \/ AlwaysOn \/ Revoke

System == Setter \/ Loop \/ VPNClosed \/ Android \/ Start \/ ChangeState

Next == System \/ NetMap \/ DNSConfigChanged \/ Inputs

Spec == Init /\ [][Next]_vars

\* Every goroutine and every thread goes on while it can.  Nobody has to give input.
Fairness ==
  /\ WF_vars(Setter) /\ WF_vars(Loop) /\ WF_vars(VPNClosed)
  /\ WF_vars(OnStartCommand \/ AfterRequest)
  /\ WF_vars(StartVPNWorker \/ StartService \/ StopVPNWorker)
  /\ WF_vars(Start \/ ChangeState)

FairSpec == Spec /\ Fairness

-----------------------------------------------------------------------------
(* Properties                                                              *)

\* Nothing is under way.
Quiet ==
  /\ started /\ lbState = Target /\ notes = <<>>
  /\ loop = "select" /\ main = "idle" /\ intents = <<>> /\ ~closed
  /\ \A e \in Event : pending[e] = 0
  /\ latest = 0 /\ current = 0 /\ \A p \in Prefs : frozen[p] = 0
  /\ workers["start"] = 0 /\ workers["stop"] = 0 /\ starting = 0

\* When nothing is under way the main loop, LocalBackend and the tile agree,
\* although the preferences were edited in place, replaced and sent by goroutines
\* in any order; and a wish to connect, whoever had it and before, while or after the
\* backend became ready, was not lost, unless somebody asked for something else.
QuietAgree ==
  Quiet => /\ prefs = lb /\ state = lbState
           /\ active = lb.want /\ ready
           /\ connects > 0 /\ asked = {} => lb.want

\* The circle from notify over autoConnect, IPNService, ConnectEvent, SetPrefs and the
\* notification back to notify does not go on for ever.
Settles == <>[]Quiet

\* A connect in the background is not lost, whether the backend becomes ready before,
\* while or after the worker sets autoConnect and starts the service.
AutoConnects ==
  auto /\ state >= Stopped ~> lb.want \/ ~auto \/ asked # {}

\* "Start VPN and connect to it due to Always-on VPN" (IPNService.java:32); "A
\* ConnectEvent might be sent before the first notification arrives, such as in the
\* case of Always-on VPN" (main.go:549).  When Android starts the service for an
\* always-on VPN, the VPN comes up, unless somebody asks for something else.
AlwaysOnConnects ==
  main = "requestAlways" ~> lb.want \/ asked # {"always"}

=============================================================================
