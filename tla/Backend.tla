------------------------------- MODULE Backend -------------------------------
(***************************************************************************)
(* The VPN part of the main loop of runBackend (cmd/tailscale/main.go)     *)
(* with updateTUN and CloseTUNs (backend.go): which tunnel is up, for      *)
(* which IPNService object, from which configuration.                      *)
(*                                                                         *)
(* The main loop takes one case of its select at a time.  Around it run    *)
(* the LocalBackend of Tailscale (outside the repository), which reports   *)
(* its state through the channel notifications (capacity 1) and its        *)
(* configurations through a callback that waits, while the state may       *)
(* change, until the main loop has taken them; Android's main thread,      *)
(* which runs onStartCommand and onDestroy of IPNService one at a time;    *)
(* and a binder thread for the onRevoke of each service object.  The       *)
(* threads of Android block in requestVPN and disconnect until the main    *)
(* loop has taken them.                                                    *)
(* The devices behind the tunnel are the subject of MultiTUN: CloseTUNs    *)
(* and add are single steps here because ShutdownLeavesNothing and         *)
(* Implements of MultiTUN_proofs make them so.                             *)
(***************************************************************************)
EXTENDS Naturals, Sequences

CONSTANTS
  Service,      \* the IPNService objects
  RCfg, DCfg,   \* router and DNS configurations
  Routable,     \* the router configurations that have local addresses
  State,        \* the states of LocalBackend that occur
  MaxIntents,   \* bound on the start intents Android has not delivered yet
  None          \* nil, or the null reference

\* ipn.State, in the order the code compares states by
NoState == 0
Stopped == 4
Starting == 5
Running == 6

Tunnel == [service : Service, rcfg : RCfg, dcfg : DCfg]

ASSUME CfgAssumption == Routable \subseteq RCfg
ASSUME NoneAssumption == None \notin Service \cup RCfg \cup DCfg \cup Tunnel
ASSUME StateAssumption == State \subseteq 0..6 /\ {NoState, Stopped} \subseteq State

VARIABLES
  state,          \* state.State of the main loop
  cfg,            \* the last configPair: <<rcfg, dcfg>>
  service,        \* the global reference to the IPNService
  protect,        \* the service that the protect function of netns calls
  lastCfg,        \* backend.lastCfg
  lastDNSCfg,     \* backend.lastDNSCfg
  tun,            \* the tunnel that is up: [service, rcfg, dcfg], or None
  vpnClosed,      \* the number of notifications in the channel onVPNClosed
  refs,           \* the number of global references to each service object
  lbState,        \* LocalBackend: its state
  config,         \* LocalBackend: the configuration that its callback sends,
                  \* or what the callback returned last
  notifications,  \* the channel notifications
  instance,       \* Android: the service object that exists
  intents,        \* Android: the intents for the service, oldest first
  call,           \* Android's main thread: <<operation, object>> or <<>>
  revoking        \* the objects whose onRevoke waits in disconnect

loopVars    == <<state, cfg, service, protect, refs>>
tunVars     == <<lastCfg, lastDNSCfg, tun>>
lbVars      == <<lbState, config, notifications>>
androidVars == <<instance, intents, call, revoking>>
vars        == <<loopVars, tunVars, vpnClosed, lbVars, androidVars>>

\* The callback of newBackend returned without an error, or with one.
Returned == <<>>
Failed == <<"error">>

Call == {<<>>} \cup ({"requestVPN", "disconnect"} \X Service)

TypeOK ==
  /\ state \in State /\ lbState \in State
  /\ cfg \in {<<None, None>>} \cup (RCfg \X DCfg)
  /\ service \in Service \cup {None} /\ protect \in Service \cup {None}
  /\ instance \in Service \cup {None}
  /\ lastCfg \in RCfg \cup {None} /\ lastDNSCfg \in DCfg \cup {None}
  /\ tun \in Tunnel \cup {None}
  /\ vpnClosed \in 0..1
  /\ refs \in [Service -> Nat]
  /\ notifications \in Seq(State)
  /\ intents \in Seq({"request", "stop"})
  /\ config \in {Returned, Failed} \cup (RCfg \X DCfg)
  /\ call \in Call /\ revoking \subseteq Service

Init ==
  /\ state = NoState /\ lbState = NoState
  /\ cfg = <<None, None>>
  /\ service = None /\ protect = None /\ instance = None
  /\ lastCfg = None /\ lastDNSCfg = None /\ tun = None
  /\ vpnClosed = 0
  /\ refs = [s \in Service |-> 0]
  /\ notifications = <<>> /\ intents = <<>> /\ call = <<>>
  /\ config = Returned /\ revoking = {}

-----------------------------------------------------------------------------
(* backend.go                                                              *)

CloseTUNsOnly == tun' = None /\ UNCHANGED <<lastCfg, lastDNSCfg>>
CloseTUNs ==
  /\ lastCfg' = None
  /\ tun' = None
  /\ UNCHANGED lastDNSCfg

\* The tunnel has these configurations already.
UnchangedRoutes(r, d) == r = lastCfg
Unchanged(r, d) == r = lastCfg /\ d = lastDNSCfg

\* A configuration without addresses closes the previous tunnel and opens none.
CloseForEmptyNever == UNCHANGED tunVars
CloseForEmpty == CloseTUNs

\* updateTUN for the service s: fails if a call of VpnService.Builder does, if
\* the VPN is not prepared, or if the device cannot be created.
UpdateTUN(s, r, d, failed) ==
  IF Unchanged(r, d)
  THEN ~failed /\ UNCHANGED tunVars
  ELSE IF r \notin Routable THEN ~failed /\ CloseForEmpty
  ELSE IF failed THEN CloseTUNs
       ELSE /\ lastCfg' = r /\ lastDNSCfg' = d
            /\ tun' = [service |-> s, rcfg |-> r, dcfg |-> d]

\* IsSameObject of JNI, and DeleteGlobalRef of n references
SameObjectNever(s) == FALSE
SameObject(s) == service = s
ReleaseOne(s, n) == [refs EXCEPT ![s] = @ - 1]
ReleaseMore(s, n) == [refs EXCEPT ![s] = @ - n - 1]
Release(s, n) == [refs EXCEPT ![s] = @ - n]

\* notifyVPNClosed, if there is a reason for it
NotifyVPNClosedNever(reason) == UNCHANGED vpnClosed
NotifyVPNClosed(reason) == vpnClosed' = IF reason THEN 1 ELSE vpnClosed

\* The state calls for a tunnel, and there is a configuration for it.
WantedAlways(st) == cfg[1] # None
Wanted(st) == cfg[1] # None /\ st >= Starting

-----------------------------------------------------------------------------
(* The cases of the select of runBackend.                                  *)

\* case s := <-configs: whatever the state is by now
Configs ==
  /\ config \notin {Returned, Failed}
  /\ cfg' = config
  /\ \E failed \in BOOLEAN :
       /\ config' = IF failed THEN Failed ELSE Returned
       /\ IF service = None
          THEN ~failed /\ UNCHANGED tunVars
          ELSE UpdateTUN(service, config[1], config[2], failed)
  /\ UNCHANGED <<state, service, protect, refs, vpnClosed, lbState,
                 notifications, androidVars>>

\* case n := <-notifications, for a notification with a State: stopVPN posts
\* an intent to Android; its error is logged.
Notification ==
  /\ notifications # <<>>
  /\ notifications' = Tail(notifications)
  /\ state' = Head(notifications)
  /\ \E failed \in BOOLEAN :
       /\ IF service = None THEN ~failed /\ UNCHANGED tunVars
          ELSE IF Wanted(state') THEN UpdateTUN(service, cfg[1], cfg[2], failed)
          ELSE ~failed /\ CloseTUNs
       /\ NotifyVPNClosed(failed)
  /\ intents' \in IF state > Stopped /\ state' <= Stopped
                  THEN {Append(intents, "stop"), intents} ELSE {intents}
  /\ UNCHANGED <<cfg, service, protect, refs, lbState, config, instance, call,
                 revoking>>

\* case s := <-onVPNRequested
VPNRequested ==
  /\ call # <<>> /\ call[1] = "requestVPN"
  /\ call' = <<>>
  /\ service' = call[2]
  /\ protect' = IF SameObject(call[2]) THEN protect ELSE call[2]
  /\ refs' = IF service = None THEN refs ELSE Release(service, 1)
  /\ \E failed \in BOOLEAN :
       /\ IF Wanted(state) THEN UpdateTUN(call[2], cfg[1], cfg[2], failed)
          ELSE ~failed /\ UNCHANGED tunVars
       /\ NotifyVPNClosed(failed)
  /\ UNCHANGED <<state, cfg, lbVars, instance, intents, revoking>>

\* case s := <-onDisconnect: the tunnel is closed whichever service asks.
TakeDisconnect(s) ==
  /\ CloseTUNs
  /\ IF SameObject(s)
     THEN service' = None /\ protect' = None /\ refs' = Release(s, 2)
     ELSE refs' = Release(s, 1) /\ UNCHANGED <<service, protect>>
  /\ NotifyVPNClosed(state >= Starting)
  /\ UNCHANGED <<state, cfg, lbVars, instance, intents>>

\* It comes from the main thread, or from a thread that runs onRevoke.
Disconnect ==
  /\ call # <<>> /\ call[1] = "disconnect"
  /\ call' = <<>>
  /\ TakeDisconnect(call[2])
  /\ UNCHANGED revoking

Revoked(s) ==
  /\ s \in revoking
  /\ revoking' = revoking \ {s}
  /\ TakeDisconnect(s)
  /\ UNCHANGED call

-----------------------------------------------------------------------------
(* LocalBackend                                                            *)

\* The callback of newBackend.  LocalBackend configures routes while it is
\* starting or running; its state may fall before the main loop takes them.
SendConfig(r, d) ==
  /\ config \in {Returned, Failed}
  /\ lbState >= Starting \/ r \notin Routable
  /\ config' = <<r, d>>
  /\ UNCHANGED <<loopVars, tunVars, vpnClosed, lbState, notifications, androidVars>>

\* It waits for room in the channel before it changes its state again.
ChangeState(s) ==
  /\ s # lbState
  /\ notifications = <<>> /\ Len(intents) < MaxIntents
  /\ lbState' = s
  /\ notifications' = <<s>>
  /\ UNCHANGED <<loopVars, tunVars, vpnClosed, config, androidVars>>

-----------------------------------------------------------------------------
(* Android and IPNService.java                                             *)

\* The native methods of IPNService hand a new global reference over.
NewRef(s) == refs' = [refs EXCEPT ![s] = @ + 1]

\* App.startVPN: from the UI, a worker, or the tile
StartVPN ==
  /\ Len(intents) < MaxIntents
  /\ intents' = Append(intents, "request")
  /\ UNCHANGED <<loopVars, tunVars, vpnClosed, lbVars, instance, call, revoking>>

\* onStartCommand, in the object that exists or in a new one, which no thread
\* knows yet
OnStartCommand(s) ==
  /\ call = <<>> /\ intents # <<>>
  /\ instance = s \/ (instance = None /\ s \notin revoking)
  /\ instance' = s
  /\ intents' = Tail(intents)
  /\ call' = <<IF Head(intents) = "stop" THEN "disconnect" ELSE "requestVPN", s>>
  /\ NewRef(s)
  /\ UNCHANGED <<state, cfg, service, protect, tunVars, vpnClosed, lbVars, revoking>>

\* onRevoke: another VPN took over, or the user withdrew the permission.  It
\* runs on a binder thread, whatever the main thread is doing.
OnRevoke(s) ==
  /\ instance = s /\ s \notin revoking
  /\ revoking' = revoking \cup {s}
  /\ NewRef(s)
  /\ UNCHANGED <<state, cfg, service, protect, tunVars, vpnClosed, lbVars,
                 instance, intents, call>>

\* onDestroy: a new object can exist only after this one has returned, but the
\* onRevoke of this one may not have.
OnDestroy(s) ==
  /\ call = <<>> /\ instance = s
  /\ instance' = None
  /\ call' = <<"disconnect", s>>
  /\ NewRef(s)
  /\ UNCHANGED <<state, cfg, service, protect, tunVars, vpnClosed, lbVars, intents,
                 revoking>>

\* The UI takes the notification of onVPNClosed.
UIClosed ==
  /\ vpnClosed = 1
  /\ vpnClosed' = 0
  /\ UNCHANGED <<loopVars, tunVars, lbVars, androidVars>>

-----------------------------------------------------------------------------
MainLoop ==
  \/ Configs \/ Notification \/ VPNRequested \/ Disconnect
  \/ \E s \in Service : Revoked(s)

Environment ==
  \/ \E r \in RCfg, d \in DCfg : SendConfig(r, d)
  \/ \E s \in State : ChangeState(s)
  \/ StartVPN \/ UIClosed
  \/ \E s \in Service : OnStartCommand(s) \/ OnRevoke(s) \/ OnDestroy(s)

Next == MainLoop \/ Environment

Spec == Init /\ [][Next]_vars

\* LocalBackend withdraws its routes when it has stopped.
SendEmpty == lbState <= Stopped /\ \E r \in RCfg \ Routable, d \in DCfg : SendConfig(r, d)

\* Android delivers intents and its callbacks return.  The main loop takes every
\* message in the end: select picks at random among the ready cases, and what is
\* sent stays ready until it is taken, so that weak fairness is enough.
Fairness ==
  /\ WF_vars(SendEmpty)
  /\ WF_vars(\E s \in Service : OnStartCommand(s))
  /\ WF_vars(Configs) /\ WF_vars(Notification)
  /\ WF_vars(VPNRequested) /\ WF_vars(Disconnect)

FairSpec == Spec /\ Fairness

-----------------------------------------------------------------------------
(* Properties                                                              *)

\* lastCfg and lastDNSCfg say what is up: updateTUN returns early on the
\* strength of them, so a tunnel that died without them would stay dead.
Mirror ==
  IF tun = None THEN lastCfg = None
  ELSE lastCfg = tun.rcfg /\ lastDNSCfg = tun.dcfg

\* A tunnel that is up carries the latest routes and DNS and was built by the
\* service that is connected, through all the orders in which states,
\* configurations, requests and disconnects arrive.
UpToDate ==
  tun # None => tun = [service |-> service, rcfg |-> cfg[1], dcfg |-> cfg[2]]

\* The main loop never keeps a service that Android has destroyed, nor lets
\* the network code call protect on one, but for the time of its last call.
ServiceAlive ==
  /\ protect = service
  /\ service # None => instance = service \/ call = <<"disconnect", service>>

\* Every global reference is deleted once: what is held is the reference of
\* the main loop and those that the calls of the two kinds of threads hand over.
One(held) == IF held THEN 1 ELSE 0
RefsBalanced ==
  \A s \in Service :
    refs[s] = One(service = s) + One(call # <<>> /\ call[2] = s) + One(s \in revoking)

\* The service that the main loop and the network code use exists, and so does
\* the reference they use it by, although the disconnect of a service that was
\* revoked may come when another one has taken its place.
RefsSound == ServiceAlive /\ RefsBalanced

\* A step of the main loop that leaves a wanted tunnel down says so: to the
\* UI, or to the LocalBackend whose configuration it was.
Down == service # None /\ Wanted(state) /\ cfg[1] \in Routable /\ tun = None
NeverSilentlyDown ==
  [][MainLoop /\ Down' => vpnClosed' = 1 \/ (config' # config /\ config' = Failed)]_vars

\* When LocalBackend stops and stays stopped so does the tunnel: one that a
\* configuration on its way has opened after the stop, for a service that has
\* come back, is closed by the configuration that withdraws the routes.
StoppedStaysDown == <>[](lbState <= Stopped) => <>[](tun = None)

\* An intent to stop the VPN disconnects the service in the end, whatever
\* requests and revocations come with it.
StopDisconnects == (\E i \in DOMAIN intents : intents[i] = "stop") ~> service = None
=============================================================================
