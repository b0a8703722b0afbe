------------------------------- MODULE VPNStart -------------------------------
(***************************************************************************)
(* From the user's consent to the VPN service: the part of the UI          *)
(* goroutine (runUI) that follows Android's activities, asks Android       *)
(* whether the app may be a VPN (prepareVPN) and has IPNService started    *)
(* (startVPN), with the notifications of callbacks.go in between.          *)
(*                                                                         *)
(* States come from the main loop through a mailbox that keeps the latest  *)
(* one only; a state is up when it is beyond Stopped.  A disconnect is an   *)
(* edit of the main loop's preferences, which a goroutine passes on to     *)
(* LocalBackend (external) later.  What the service does to the tunnel is  *)
(* the subject of Backend.                                                 *)
(*                                                                         *)
(* A call of Java may fail.  Where the code logs the error the call has    *)
(* not been made; where runUI returns it the UI goroutine has ended.       *)
(***************************************************************************)
EXTENDS Naturals, Sequences

CONSTANTS
  MaxActivities,  \* bound on the activities that Android creates
  MaxChanges      \* bound on the changes that come from outside

ASSUME StartBounds == MaxActivities \in Nat /\ MaxChanges \in Nat

VARIABLES
  up,           \* the main loop's state
  service,      \* has it an IPNService?
  disconnects,  \* the goroutines of requestBackend with ConnectEvent{false}
  want,         \* state.Prefs.WantRunning
  setters,      \* the goroutines of ConnectEvent{false} that have SetPrefs to call
  stopping,     \* is a state that is down on its way from LocalBackend, after SetPrefs?
  netStates,    \* the content of the mailbox: a set of at most one state
  uiUp,         \* the UI's copy of the state
  activity,     \* the UI's activity, 0 for none
  created,      \* how many there have been
  ended,        \* has runUI returned?
  posted,       \* the activities of the prepareVPN that wait for the main thread
  dialogs,      \* the activities that show Android's question
  consent,      \* may the app be a VPN?
  prepared,     \* the contents of onVPNPrepared and onVPNClosed
  closed,
  intents,      \* the intents on their way to IPNService
  lost,         \* has a down, a disconnect or a question been lost (see Starts)?
  changes

stateVars == <<up, service, disconnects>>
prefsVars == <<want, setters, stopping>>
viewVars == <<uiUp, activity, created, ended>>
androidVars == <<posted, dialogs, consent, intents>>
boxes    == <<netStates, prepared, closed>>
startVars == <<stateVars, prefsVars, viewVars, androidVars, boxes, lost, changes>>

StartTypeOK ==
  /\ up \in BOOLEAN /\ service \in BOOLEAN /\ disconnects \in Nat
  /\ want \in BOOLEAN /\ setters \in Nat /\ stopping \in BOOLEAN
  /\ netStates \in {{}, {TRUE}, {FALSE}} /\ uiUp \in BOOLEAN /\ ended \in BOOLEAN
  /\ created \in 0..MaxActivities /\ activity \in 0..created
  /\ posted \in Seq(1..created) /\ dialogs \subseteq 1..created
  /\ consent \in BOOLEAN /\ prepared \in BOOLEAN /\ closed \in BOOLEAN
  /\ intents \in Seq({"request", "stop"})
  /\ lost \in BOOLEAN /\ changes \in 0..MaxChanges

StartInit ==
  /\ up = FALSE /\ service = FALSE /\ disconnects = 0 /\ netStates = {} /\ uiUp = FALSE
  /\ want = FALSE /\ setters = 0 /\ stopping = FALSE /\ ended = FALSE
  /\ activity = 0 /\ created = 0 /\ posted = <<>> /\ dialogs = {}
  /\ consent \in BOOLEAN /\ prepared = FALSE /\ closed = FALSE
  /\ intents = <<>> /\ lost = FALSE /\ changes = 0

Change == changes < MaxChanges /\ changes' = changes + 1

-----------------------------------------------------------------------------
(* The main loop                                                           *)

\* A new state: when it goes down the loop calls stopVPN.  The mailbox may drop the
\* down that the UI has not taken.
Goes(b) ==
  /\ up' = b /\ netStates' = {b}
  /\ intents' \in IF up /\ ~b THEN {Append(intents, "stop"), intents} ELSE {intents}
  /\ lost' = (lost \/ (b /\ uiUp /\ netStates = {FALSE} /\ ~service))
  /\ UNCHANGED <<service, viewVars, posted, dialogs, consent, prepared, closed>>

\* One from LocalBackend.  What goes up may come with preferences, and behind a
\* state that is down or in its place.
LoopState ==
  /\ Change /\ Goes(~up)
  /\ want' \in {want, want \/ ~up} /\ stopping' \in {stopping, FALSE}
  /\ UNCHANGED <<disconnects, setters>>

\* Preferences that want the VPN to run: those of a notification replace the loop's,
\* and a ConnectEvent{true} edits them.
LoopPrefs ==
  /\ Change /\ ~want /\ want' = TRUE
  /\ UNCHANGED <<stateVars, setters, stopping, viewVars, androidVars, boxes, lost>>

\* The ConnectEvent of case <-onVPNClosed
LoopDisconnect ==
  /\ disconnects > 0 /\ disconnects' = disconnects - 1
  /\ want' = FALSE /\ setters' = setters + 1
  /\ UNCHANGED <<up, service, stopping, viewVars, androidVars, boxes, lost, changes>>

\* Its goroutine passes on what the loop's preferences are by now.
SetPrefs ==
  /\ setters > 0 /\ setters' = setters - 1
  /\ stopping' = (stopping \/ ~want)
  /\ lost' = (lost \/ (want /\ uiUp /\ ~service))
  /\ UNCHANGED <<stateVars, want, viewVars, androidVars, boxes, changes>>

\* LocalBackend, of which WantRunning is off, has stopped.
LoopStopped ==
  /\ stopping /\ stopping' = FALSE
  /\ IF up THEN Goes(FALSE)
     ELSE UNCHANGED <<up, service, netStates, viewVars, androidVars, prepared, closed, lost>>
  /\ UNCHANGED <<disconnects, want, setters, changes>>

-----------------------------------------------------------------------------
(* The UI                                                                  *)

PrepareVPN(act) == posted' = Append(posted, act)

\* runUI returns, and its deferred call deletes the activity's reference.
Ends == ended' = TRUE /\ activity' = 0
GoesOn == UNCHANGED <<activity, ended>>

\* case newState := <-a.netStates.  An error of prepareVPN is logged.
Asks(new) == activity # 0 /\ ~uiUp /\ new
UIState ==
  \E new \in netStates, fails \in BOOLEAN :
    /\ ~ended
    /\ netStates' = {} /\ uiUp' = new
    /\ IF Asks(new) /\ ~fails THEN PrepareVPN(activity) ELSE UNCHANGED posted
    /\ lost' = (new /\ IF Asks(new) THEN fails /\ ~service ELSE lost)
    /\ UNCHANGED <<stateVars, prefsVars, activity, created, ended, dialogs, consent, intents,
                   prepared, closed, changes>>

\* app.ViewEvent with a view: the last activity's reference is deleted, the new
\* one is asked at once when the state is up; an error of prepareVPN ends runUI.
AsksAgainNever == FALSE
AsksAgain == uiUp
ViewCreated ==
  /\ ~ended /\ created < MaxActivities
  /\ created' = created + 1
  /\ \/ /\ activity' = created' /\ UNCHANGED ended
        /\ IF AsksAgain THEN PrepareVPN(created') ELSE UNCHANGED posted
     \/ uiUp /\ Ends /\ UNCHANGED posted
  /\ lost' = (lost /\ ~uiUp)
  /\ UNCHANGED <<stateVars, prefsVars, uiUp, dialogs, consent, intents, boxes, changes>>

\* app.ViewEvent without one, or system.DestroyEvent, which ends runUI.  Android may
\* show its question on, or not.
ViewDestroyed ==
  /\ ~ended /\ activity # 0 /\ activity' = 0 /\ ended' \in BOOLEAN
  /\ dialogs' \in {dialogs, dialogs \ {activity}}
  /\ UNCHANGED <<stateVars, prefsVars, uiUp, created, posted, consent, intents, boxes, lost,
                 changes>>

\* case <-onVPNPrepared: startVPN, and with an activity requestWriteStoragePermission;
\* an error of either ends runUI.
UIPrepared ==
  /\ ~ended /\ prepared /\ prepared' = FALSE
  /\ \/ GoesOn /\ intents' = IF uiUp THEN Append(intents, "request") ELSE intents
     \/ uiUp /\ Ends /\ UNCHANGED intents
     \/ uiUp /\ activity # 0 /\ Ends /\ intents' = Append(intents, "request")
  /\ UNCHANGED <<stateVars, prefsVars, uiUp, created, posted, dialogs, consent, netStates,
                 closed, lost, changes>>

\* case <-onVPNClosed
UIClosed ==
  /\ ~ended /\ closed /\ closed' = FALSE
  /\ disconnects' = disconnects + 1
  /\ UNCHANGED <<up, service, prefsVars, viewVars, androidVars, netStates, prepared, lost,
                 changes>>

-----------------------------------------------------------------------------
(* Android's main thread                                                   *)

\* App.prepareVPN; of an activity that has gone the question may not be shown.
Prepare ==
  /\ posted # <<>> /\ posted' = Tail(posted)
  /\ IF consent THEN prepared' = TRUE /\ UNCHANGED dialogs
     ELSE /\ dialogs' \in {dialogs \cup {Head(posted)}}
                            \cup (IF activity = Head(posted) THEN {} ELSE {dialogs})
          /\ UNCHANGED prepared
  /\ UNCHANGED <<stateVars, prefsVars, viewVars, consent, intents, netStates, closed, lost,
                 changes>>

\* Peer.onActivityResult
Denied(ok) == ~ok
Result(act, ok) ==
  /\ act \in dialogs /\ dialogs' = dialogs \ {act}
  /\ consent' = (consent \/ ok)
  /\ prepared' = (prepared \/ ok)
  /\ closed' = (closed \/ Denied(ok))
  /\ UNCHANGED <<stateVars, prefsVars, viewVars, posted, intents, netStates, lost, changes>>

\* IPNService: a disconnect while the state is up notifies the UI (onDisconnect).
ServiceGoneUnseen == service' = FALSE /\ UNCHANGED closed
ServiceGone == service' = FALSE /\ closed' = (closed \/ up)

OnStartCommand ==
  /\ intents # <<>> /\ intents' = Tail(intents)
  /\ IF Head(intents) = "request" THEN service' = TRUE /\ lost' = FALSE /\ UNCHANGED closed
     ELSE ServiceGone /\ UNCHANGED lost
  /\ UNCHANGED <<up, disconnects, prefsVars, viewVars, posted, dialogs, consent, netStates,
                 prepared, changes>>

\* The user lets another app be the VPN.
OnRevoke ==
  /\ Change /\ consent /\ consent' = FALSE
  /\ IF service THEN ServiceGone ELSE UNCHANGED <<service, closed>>
  /\ UNCHANGED <<up, disconnects, prefsVars, viewVars, posted, dialogs, intents, netStates,
                 prepared, lost>>

-----------------------------------------------------------------------------
StartNext ==
  \/ LoopState \/ LoopPrefs \/ LoopDisconnect \/ SetPrefs \/ LoopStopped
  \/ UIState \/ ViewCreated \/ ViewDestroyed \/ UIPrepared \/ UIClosed
  \/ Prepare \/ OnStartCommand \/ OnRevoke
  \/ \E act \in 1..MaxActivities, ok \in BOOLEAN : Result(act, ok)

StartSpec == StartInit /\ [][StartNext]_startVars

UI == UIState \/ UIPrepared \/ UIClosed
MainThread == Prepare \/ OnStartCommand
User == \E act \in 1..MaxActivities, ok \in BOOLEAN : Result(act, ok)

\* Each goroutine and the main thread go on while they can, with some case of their
\* select, some message of their queue; what LocalBackend sends comes; the user
\* answers.
StartFairness ==
  /\ WF_startVars(LoopDisconnect \/ LoopStopped) /\ WF_startVars(SetPrefs)
  /\ WF_startVars(UI) /\ WF_startVars(MainThread) /\ WF_startVars(User)

StartFairSpec == StartSpec /\ StartFairness

-----------------------------------------------------------------------------
(* Properties                                                              *)

Connecting == uiUp /\ activity # 0 /\ ~lost

\* What leads to the service, or to a state that is down: a question to the
\* activity, an answer, a message on its way, a disconnect.
Underway ==
  \/ \E i \in DOMAIN posted : posted[i] = activity
  \/ activity \in dialogs
  \/ prepared \/ closed \/ disconnects > 0 \/ setters > 0 \/ stopping
  \/ \E i \in DOMAIN intents : intents[i] = "request"
  \/ netStates = {FALSE}

\* A connected app without its service is never forgotten: however activities,
\* answers, revocations and states cross, whoever takes the last step that could
\* have started the service leaves another one behind, unless one was lost.
NotForgotten == Connecting => service \/ Underway

\* When the UI has an activity and the state is up the service starts, or the
\* state goes down again: a refusal, a revocation, a notification that finds its
\* channel full and an activity that comes late do not leave the app connected
\* without a service.  The exceptions are what the code loses (lost), until a state
\* that is down, another activity or a service comes: a down that the mailbox
\* drops, a disconnect whose preferences are replaced before its goroutine passes
\* them on, and a question of which prepareVPN's error is logged.
Starts == Connecting ~> service \/ ~Connecting
=============================================================================
