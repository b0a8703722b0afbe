------------------------- MODULE AutoConnect_proofs -------------------------
(***************************************************************************)
(* Proofs about AutoConnect, for any exit nodes, any saved preferences and *)
(* any number of inputs.                                                   *)
(***************************************************************************)
EXTENDS AutoConnect, TLAPS

\* The notifications on their way have no preferences, have no state.
NoPrefsNote == \A i \in 1..Len(notes) : notes[i].prefs = None
NoStateNote == \A i \in 1..Len(notes) : notes[i].state = None

\* The last preferences and the last state on their way are those of LocalBackend.
LastPrefs ==
  \A i \in 1..Len(notes) :
    notes[i].prefs # None /\ (\A j \in i+1..Len(notes) : notes[j].prefs = None)
      => notes[i].prefs = lb
LastState ==
  \A i \in 1..Len(notes) :
    notes[i].state # None /\ (\A j \in i+1..Len(notes) : notes[j].state = None)
      => notes[i].state = lbState

\* When the main loop has been told everything, only its own edits, each with a
\* goroutine that will pass them on, make it differ from LocalBackend.
Agree == started /\ NoPrefsNote /\ latest + current + after = 0 => prefs = lb
TileAgrees == started /\ NoPrefsNote => active = lb.want
StateAgrees == NoStateNote => state = lbState
ReadyAgrees == loop # "tile" => (ready <=> state >= Stopped)

\* The first notification is that of Start, with the preferences.
FirstNote ==
  /\ ~started => notes = <<>> /\ lbState = NoState
  /\ started /\ prefs = None => notes # <<>> /\ notes[1].prefs # None

PrefsInv == LastPrefs /\ Agree /\ TileAgrees /\ FirstNote
StateInv == LastState /\ StateAgrees /\ ReadyAgrees
\* Between two cases the main loop owes no goroutine.
NothingOwed == loop = "select" => after = 0
IInv == TypeOK /\ PrefsInv /\ StateInv /\ NothingOwed

USE PrefsAssumption, NoneAssumption, BoundAssumption
USE DEF loopVars, setterVars, lbVars, flagVars, androidVars, inputVars, NoState, Stopped,
        Starting, Running

\* Where a step leaves the notifications and the main loop alone.
LEMMA Untouched ==
  ASSUME UNCHANGED <<prefs, state, loop, after, latest, current, lb, lbState, started, notes,
                     ready, active>>, PrefsInv, StateInv
  PROVE  PrefsInv' /\ StateInv'
BY DEF PrefsInv, StateInv, LastPrefs, LastState, Agree, TileAgrees, StateAgrees, ReadyAgrees,
       FirstNote, NoPrefsNote, NoStateNote

-----------------------------------------------------------------------------
(* Type correctness                                                        *)

\* requestBackend with an event that is none, or one that needs state.Prefs to be there.
LEMMA RequestType ==
  ASSUME TypeOK, NEW e \in Event, e.kind = "exit" => prefs # None, RequestBackend(e)
  PROVE  /\ pending' \in [Event -> Nat]
         /\ (\E f \in Event : f.kind = "exit" /\ pending'[f] > 0) => prefs # None
BY DEF TypeOK, RequestBackend

LEMMA ToggleType ==
  ASSUME NEW want \in BOOLEAN, NEW exit \in Exit \cup {None}
  PROVE  Toggle(want, exit) \in Event /\ Toggle(want, exit).kind # "exit"
BY DEF Toggle, Event

\* The preferences that the handler of a ConnectEvent leaves behind
LEMMA WishType ==
  ASSUME TypeOK, NEW e \in Event, e.kind # "exit"
  PROVE  Wish(e) \in Prefs
BY DEF TypeOK, Wish, Edited, NewPrefs, Prefs, Event

LEMMA InputType ==
  ASSUME TypeOK, NEW about \in SUBSET {"disconnect", "exit", "permission", "always"},
         ToConnect(about) \/ Other(about)
  PROVE  /\ connects' \in 0..MaxConnects /\ others' \in 0..MaxOthers
         /\ asked' \subseteq {"disconnect", "exit", "permission", "always"}
<1>1. connects \in 0..MaxConnects /\ others \in 0..MaxOthers
  BY DEF TypeOK
<1>2. connects' \in 0..MaxConnects /\ others' \in 0..MaxOthers
  BY <1>1 DEF ToConnect, Other
<1>3. asked' \subseteq {"disconnect", "exit", "permission", "always"}
  BY DEF TypeOK, ToConnect, Other
<1> QED
  BY <1>2, <1>3

LEMMA NoteType ==
  ASSUME TypeOK
  PROVE  /\ \A p \in Prefs : [prefs |-> p, state |-> None] \in Note
         /\ \A s \in State : [prefs |-> None, state |-> s] \in Note
         /\ [prefs |-> None, state |-> None] \in Note
         /\ \A n \in Note : Append(notes, n) \in Seq(Note)
         /\ notes # <<>> => Head(notes) \in Note /\ Tail(notes) \in Seq(Note)
<1>1. notes \in Seq(Note)
  BY DEF TypeOK
<1>2. /\ \A n \in Note : Append(notes, n) \in Seq(Note)
      /\ notes # <<>> => Head(notes) \in Note /\ Tail(notes) \in Seq(Note)
  BY <1>1
<1>3. /\ \A p \in Prefs : [prefs |-> p, state |-> None] \in Note
      /\ \A s \in State : [prefs |-> None, state |-> s] \in Note
      /\ [prefs |-> None, state |-> None] \in Note
  BY DEF Note
<1> QED
  BY <1>2, <1>3

LEMMA IntentType ==
  ASSUME TypeOK
  PROVE  /\ \A i \in {"request", "stop", "always"} :
              Append(intents, i) \in Seq({"request", "stop", "always"})
         /\ intents # <<>> => /\ Head(intents) \in {"request", "stop", "always"}
                              /\ Tail(intents) \in Seq({"request", "stop", "always"})
BY DEF TypeOK

LEMMA InitInv == Init => IInv
<1> SUFFICES ASSUME Init PROVE IInv
  OBVIOUS
<1>1. Saved \in Prefs /\ Saved.exit \in Exit
  BY DEF Prefs
<1>2. /\ notes = <<>> /\ notes \in Seq(Note) /\ intents \in Seq({"request", "stop", "always"})
      /\ Len(notes) = 0
  BY DEF Init
<1>3. /\ {auto, ready, active, closed} \subseteq BOOLEAN /\ started \in BOOLEAN
      /\ pending \in [Event -> Nat] /\ \A e \in Event : pending[e] = 0
      /\ frozen \in [Prefs -> Nat] /\ workers \in [{"start", "stop"} -> Nat]
  BY DEF Init
<1>4. TypeOK
  <2>1. /\ prefs \in Prefs \cup {None} /\ state \in State /\ lb \in Prefs /\ lbState \in State
        /\ stored \in Exit
    BY <1>1 DEF Init, State
  <2>2. /\ latest = 0 /\ current = 0 /\ after = 0 /\ loop = "select" /\ main = "idle"
        /\ starting = 0 /\ connects = 0 /\ others = 0 /\ asked = {}
    BY DEF Init
  <2> QED
    BY <1>2, <1>3, <2>1, <2>2 DEF TypeOK
<1>5. PrefsInv /\ StateInv
  <2>1. 1..Len(notes) = {}
    BY <1>2
  <2>2. started = FALSE /\ state = NoState /\ lbState = NoState /\ ready = FALSE
    BY DEF Init
  <2>3. ready <=> state >= Stopped
    BY <2>2
  <2> QED
    BY <1>2, <2>1, <2>2, <2>3
       DEF PrefsInv, StateInv, LastPrefs, LastState, Agree, TileAgrees, StateAgrees,
           ReadyAgrees, FirstNote
<1> QED
  BY <1>4, <1>5 DEF Init, IInv, NothingOwed

\* The goroutines and LocalBackend keep the types.
LEMMA SetterType == ASSUME TypeOK, Setter PROVE TypeOK'
<1>1. CASE LoadPrefs
  BY <1>1 DEF LoadPrefs, TypeOK
<1>2. CASE SetCurrent
  BY <1>2, NoteType DEF SetCurrent, SetPrefs, TypeOK
<1>3. ASSUME NEW p \in Prefs, SetFrozen(p) PROVE TypeOK'
  BY <1>3, NoteType DEF SetFrozen, SetPrefs, TypeOK
<1> QED
  BY <1>1, <1>2, <1>3 DEF Setter

LEMMA BackendType == ASSUME TypeOK, Start \/ ChangeState \/ NetMap PROVE TypeOK'
<1>1. CASE Start
  BY <1>1, NoteType DEF Start, TypeOK
<1>2. CASE ChangeState
  BY <1>2, NoteType DEF ChangeState, Target, State, TypeOK
<1>3. CASE NetMap
  <2>1. /\ connects' \in 0..MaxConnects /\ others' \in 0..MaxOthers
        /\ asked' \subseteq {"disconnect", "exit", "permission", "always"}
    BY <1>3, InputType DEF NetMap
  <2> QED
    BY <1>3, <2>1, NoteType DEF NetMap, TypeOK
<1> QED
  BY <1>1, <1>2, <1>3

\* So do the cases of the main loop.
LEMMA LoopType == ASSUME TypeOK, Loop \/ VPNClosed \/ DNSConfigChanged PROVE TypeOK'
<1>1. CASE Notification
  <2> DEFINE n == Head(notes)
  <2>1. /\ n \in Note /\ notes' = Tail(notes) /\ notes' \in Seq(Note)
        /\ loop' \in {"select", "tile"}
        /\ intents' \in Seq({"request", "stop", "always"})
        /\ state' \in State
    <3>1. n \in Note /\ Tail(notes) \in Seq(Note)
      BY <1>1, NoteType DEF Notification
    <3>2. intents' \in Seq({"request", "stop", "always"})
      BY <1>1, IntentType DEF Notification, StopVPN, TypeOK
    <3> QED
      BY <1>1, <3>1, <3>2 DEF Notification, Note, TypeOK
  <2>2. CASE n.prefs # None
    <3>1. /\ n.prefs \in Prefs /\ prefs' = n.prefs /\ current' = 0 /\ active' = n.prefs.want
          /\ frozen' = IF prefs = None THEN frozen ELSE [frozen EXCEPT ![prefs] = @ + current]
      BY <1>1, <2>1, <2>2 DEF Notification, Replace, SetTileStatus, Note
    <3>2. active' \in BOOLEAN
      BY <3>1 DEF Prefs
    <3>3. frozen' \in [Prefs -> Nat]
      <4>1. frozen \in [Prefs -> Nat] /\ current \in Nat /\ prefs \in Prefs \cup {None}
        BY DEF TypeOK
      <4> QED
        BY <3>1, <4>1
    <3> QED
      BY <1>1, <2>1, <3>1, <3>2, <3>3 DEF Notification, TypeOK
  <2>3. CASE n.prefs = None /\ prefs = None
    <3>1. /\ prefs' = NewPrefs /\ NewPrefs \in Prefs /\ current' = 1 /\ active' = FALSE
          /\ frozen' = frozen
      BY <1>1, <2>3 DEF Notification, Replace, SetTileStatus, NewPrefs, Prefs
    <3> QED
      BY <1>1, <2>1, <3>1 DEF Notification, TypeOK
  <2>4. CASE n.prefs = None /\ prefs # None
    <3>1. UNCHANGED <<prefs, current, frozen, active>>
      BY <1>1, <2>4 DEF Notification
    <3> QED
      BY <1>1, <2>1, <3>1 DEF Notification, TypeOK
  <2> QED
    BY <2>2, <2>3, <2>4
<1>2. ASSUME NEW e \in Event, BackendEvent(e) PROVE TypeOK'
  <2>3. /\ pending[e] > 0 /\ pending' = [pending EXCEPT ![e] = @ - 1]
        /\ pending' \in [Event -> Nat]
        /\ \A f \in Event : pending'[f] > 0 => pending[f] > 0
    BY <1>2 DEF BackendEvent, TypeOK
  <2>1. CASE Connect(e)
    <3>1. prefs' \in Prefs
      BY <2>1, WishType DEF Connect
    <3>2. /\ latest' \in Nat /\ after' \in 0..1 /\ loop' \in {"select", "tile", "check"}
          /\ UNCHANGED <<stored, current>>
      BY <2>1 DEF Connect, TypeOK
    <3> QED
      BY <1>2, <2>3, <3>1, <3>2 DEF BackendEvent, TypeOK
  <2>2. CASE RouteAll(e)
    <3>1. prefs \in Prefs /\ e.kind = "exit"
      BY <2>2, <2>3 DEF RouteAll, TypeOK
    <3>2. e.exit \in Exit
      BY <3>1 DEF Event
    <3>3. prefs' \in Prefs /\ stored' \in Exit
      BY <2>2, <3>1, <3>2 DEF RouteAll, Prefs
    <3>4. current' \in Nat /\ loop' = "tile" /\ prefs' # None
      <4>1. current' = current + 1 /\ loop' = "tile"
        BY <2>2 DEF RouteAll, SetterOf
      <4>2. current \in Nat
        BY DEF TypeOK
      <4> QED
        BY <3>3, <4>1, <4>2
    <3>5. UNCHANGED <<latest, after, state, frozen, lbVars, flagVars, androidVars, closed,
                      inputVars>>
      BY <1>2, <2>2 DEF BackendEvent, RouteAll
    <3> QED
      BY <2>3, <3>3, <3>4, <3>5 DEF TypeOK
  <2> QED
    BY <1>2, <2>1, <2>2 DEF BackendEvent
<1>3. CASE TileReady
  BY <1>3 DEF TileReady, TypeOK
<1>4. CASE TileCheck
  BY <1>4, IntentType DEF TileCheck, TypeOK
<1>5. CASE VPNRequested
  BY <1>5 DEF VPNRequested, TypeOK
<1>6. CASE Disconnect
  BY <1>6 DEF Disconnect, TypeOK
<1>7. CASE VPNClosed
  BY <1>7, RequestType, ToggleType DEF VPNClosed, TypeOK
<1>8. CASE DNSConfigChanged
  <2>1. /\ connects' \in 0..MaxConnects /\ others' \in 0..MaxOthers
        /\ asked' \subseteq {"disconnect", "exit", "permission", "always"}
    BY <1>8, InputType DEF DNSConfigChanged
  <2> QED
    BY <1>8, <2>1 DEF DNSConfigChanged, TypeOK
<1> QED
  BY <1>1, <1>2, <1>3, <1>4, <1>5, <1>6, <1>7, <1>8 DEF Loop

\* Android's threads...
LEMMA AndroidType == ASSUME TypeOK, Android PROVE TypeOK'
<1>1. CASE OnStartCommand
  <2>1. /\ intents # <<>> /\ Head(intents) \in {"request", "stop", "always"}
        /\ Tail(intents) \in Seq({"request", "stop", "always"})
    BY <1>1, IntentType DEF OnStartCommand
  <2>2. intents' \in Seq({"request", "stop", "always"})
    BY <1>1, <2>1 DEF OnStartCommand
  <2>3. main' \in {"disconnect", "request", "requestAlways"}
    BY <1>1, <2>1 DEF OnStartCommand, Waits
  <2>4. workers' \in [{"start", "stop"} -> Nat]
    BY <1>1 DEF OnStartCommand, TypeOK
  <2>5. auto' \in BOOLEAN
    BY <1>1 DEF OnStartCommand, StopsAuto
  <2> QED
    BY <1>1, <2>2, <2>3, <2>4, <2>5 DEF OnStartCommand, TypeOK
<1>2. CASE AfterRequest
  BY <1>2, RequestType, ToggleType DEF AfterRequest, TypeOK
<1>3. CASE StartVPNWorker
  BY <1>3 DEF StartVPNWorker, TypeOK
<1>4. CASE StartService
  BY <1>4, IntentType DEF StartService, TypeOK
<1>5. CASE StopVPNWorker
  <2>1. /\ pending' \in [Event -> Nat]
        /\ (\E f \in Event : f.kind = "exit" /\ pending'[f] > 0) => prefs # None
    BY <1>5, RequestType, ToggleType DEF StopVPNWorker
  <2>2. workers' \in [{"start", "stop"} -> Nat]
    BY <1>5 DEF StopVPNWorker, TypeOK
  <2> QED
    BY <1>5, <2>1, <2>2 DEF StopVPNWorker, TypeOK
<1> QED
  BY <1>1, <1>2, <1>3, <1>4, <1>5 DEF Android

\* ... and the inputs.
LEMMA InputsType == ASSUME TypeOK, Inputs PROVE TypeOK'
<1>1. ASSUME NEW want \in BOOLEAN, UIToggle(want) PROVE TypeOK'
  BY <1>1, RequestType, ToggleType, InputType DEF UIToggle, TypeOK
<1>2. ASSUME NEW exit \in Exit, UIExit(exit) PROVE TypeOK'
  BY <1>2, RequestType, InputType DEF UIExit, Event, TypeOK
<1>3. CASE TileClick
  <2>1. /\ connects' \in 0..MaxConnects /\ others' \in 0..MaxOthers
        /\ asked' \subseteq {"disconnect", "exit", "permission", "always"}
    BY <1>3, InputType DEF TileClick
  <2>2. workers' \in [{"start", "stop"} -> Nat]
    BY <1>3 DEF TileClick, TypeOK
  <2> QED
    BY <1>3, <2>1, <2>2 DEF TileClick, TypeOK
<1>4. ASSUME NEW w \in {"start", "stop"}, Broadcast(w) PROVE TypeOK'
  <2>1. /\ connects' \in 0..MaxConnects /\ others' \in 0..MaxOthers
        /\ asked' \subseteq {"disconnect", "exit", "permission", "always"}
    BY <1>4, InputType DEF Broadcast
  <2>2. workers' \in [{"start", "stop"} -> Nat]
    BY <1>4 DEF Broadcast, TypeOK
  <2> QED
    BY <1>4, <2>1, <2>2 DEF Broadcast, TypeOK
<1>5. CASE AlwaysOn
  <2>1. /\ connects' \in 0..MaxConnects /\ others' \in 0..MaxOthers
        /\ asked' \subseteq {"disconnect", "exit", "permission", "always"}
    BY <1>5, InputType DEF AlwaysOn
  <2>2. intents' \in Seq({"request", "stop", "always"})
    BY <1>5, IntentType DEF AlwaysOn
  <2> QED
    BY <1>5, <2>1, <2>2 DEF AlwaysOn, TypeOK
<1>6. CASE Revoke
  <2>1. /\ connects' \in 0..MaxConnects /\ others' \in 0..MaxOthers
        /\ asked' \subseteq {"disconnect", "exit", "permission", "always"}
    BY <1>6, InputType DEF Revoke
  <2> QED
    BY <1>6, <2>1 DEF Revoke, TypeOK
<1> QED
  BY <1>1, <1>2, <1>3, <1>4, <1>5, <1>6 DEF Inputs

LEMMA StepType == TypeOK /\ [Next]_vars => TypeOK'
<1> SUFFICES ASSUME TypeOK, [Next]_vars PROVE TypeOK'
  OBVIOUS
<1>1. CASE UNCHANGED vars
  BY <1>1 DEF vars, TypeOK
<1>2. CASE Next
  BY <1>2, SetterType, BackendType, LoopType, AndroidType, InputsType DEF Next, System
<1> QED
  BY <1>1, <1>2

\* The types, and that the main loop never edits preferences that are not there: no
\* choice of an exit node and no goroutine with SetPrefs is under way before them.
THEOREM TypesHold == Spec => []TypeOK
<1>1. Init => TypeOK
  BY InitInv DEF IInv
<1> QED
  BY <1>1, StepType, PTL DEF Spec

-----------------------------------------------------------------------------
(* Agreement                                                               *)

\* What a notification at the end of the queue leaves of the invariant: the last
\* preferences and the last state are those of LocalBackend, as it is now.
LEMMA AppendNote ==
  ASSUME TypeOK, PrefsInv, StateInv, NEW n \in Note,
         notes' = Append(notes, n), started',
         n.prefs = None \/ n.prefs = lb', n.state = None \/ n.state = lbState',
         n.prefs = None => UNCHANGED <<lb, started>>,
         n.state = None => UNCHANGED lbState,
         UNCHANGED <<prefs, state, loop, ready, active, latest, after>>,
         n.prefs = None => UNCHANGED current,
         started \/ n.prefs # None
  PROVE  PrefsInv' /\ StateInv'
<1>1. /\ notes \in Seq(Note) /\ Len(notes) \in Nat
      /\ Len(notes') = Len(notes) + 1
      /\ notes'[Len(notes) + 1] = n
      /\ \A i \in 1..Len(notes) : notes'[i] = notes[i]
  BY DEF TypeOK
<1>2. LastPrefs'
  <2> SUFFICES ASSUME NEW i \in 1..Len(notes'), notes'[i].prefs # None,
                      \A j \in i+1..Len(notes') : notes'[j].prefs = None
               PROVE  notes'[i].prefs = lb'
    BY DEF LastPrefs
  <2>1. CASE i = Len(notes) + 1
    BY <1>1, <2>1
  <2>2. CASE i \in 1..Len(notes)
    <3>1. n.prefs = None
      BY <1>1, <2>2
    <3>2. \A j \in i+1..Len(notes) : notes[j].prefs = None
      BY <1>1, <2>2
    <3> QED
      BY <1>1, <2>2, <3>1, <3>2 DEF PrefsInv, LastPrefs
  <2> QED
    BY <1>1, <2>1, <2>2
<1>3. LastState'
  <2> SUFFICES ASSUME NEW i \in 1..Len(notes'), notes'[i].state # None,
                      \A j \in i+1..Len(notes') : notes'[j].state = None
               PROVE  notes'[i].state = lbState'
    BY DEF LastState
  <2>1. CASE i = Len(notes) + 1
    BY <1>1, <2>1
  <2>2. CASE i \in 1..Len(notes)
    <3>1. n.state = None
      BY <1>1, <2>2
    <3>2. \A j \in i+1..Len(notes) : notes[j].state = None
      BY <1>1, <2>2
    <3> QED
      BY <1>1, <2>2, <3>1, <3>2 DEF StateInv, LastState
  <2> QED
    BY <1>1, <2>1, <2>2
<1>4. /\ NoPrefsNote' => NoPrefsNote /\ n.prefs = None
      /\ NoStateNote' => NoStateNote /\ n.state = None
  BY <1>1 DEF NoPrefsNote, NoStateNote
<1>5. Agree' /\ TileAgrees' /\ StateAgrees' /\ ReadyAgrees'
  BY <1>4 DEF PrefsInv, StateInv, Agree, TileAgrees, StateAgrees, ReadyAgrees
<1>6. FirstNote'
  <2>1. notes' # <<>>
    BY <1>1
  <2>2. CASE notes = <<>>
    <3>1. notes'[1] = n
      BY <1>1, <2>2
    <3> QED
      BY <2>1, <2>2, <3>1 DEF PrefsInv, FirstNote
  <2>3. CASE notes # <<>>
    <3>1. notes'[1] = notes[1]
      BY <1>1, <2>3
    <3> QED
      BY <2>1, <2>3, <3>1 DEF PrefsInv, FirstNote
  <2> QED
    BY <2>2, <2>3
<1> QED
  BY <1>2, <1>3, <1>5, <1>6 DEF PrefsInv, StateInv

\* An edit in place of preferences that are there, with a goroutine to pass them on.
LEMMA Edit ==
  ASSUME TypeOK, TypeOK', PrefsInv, StateInv,
         latest' + current' + after' > 0, loop' = "tile" \/ loop' = loop,
         UNCHANGED <<state, lbVars, ready, active>>
  PROVE  PrefsInv' /\ StateInv'
<1>1. prefs' # None
  BY DEF TypeOK
<1>2. PrefsInv'
  BY <1>1 DEF PrefsInv, LastPrefs, Agree, TileAgrees, FirstNote, NoPrefsNote
<1>3. StateInv'
  BY DEF StateInv, LastState, StateAgrees, ReadyAgrees, NoStateNote
<1> QED
  BY <1>2, <1>3

\* The handling of a notification
LEMMA NotificationInv ==
  ASSUME TypeOK, TypeOK', PrefsInv, StateInv, Notification
  PROVE  PrefsInv' /\ StateInv'
<1> DEFINE n == Head(notes)
<1>1. /\ notes \in Seq(Note) /\ notes # <<>> /\ Len(notes) \in Nat /\ Len(notes) > 0
      /\ n = notes[1] /\ n \in Note
      /\ notes' = Tail(notes) /\ Len(notes') = Len(notes) - 1
      /\ \A i \in 1..Len(notes') : notes'[i] = notes[i + 1]
      /\ UNCHANGED <<lb, lbState, started, latest, after, ready>>
  <2>1. /\ notes \in Seq(Note) /\ notes # <<>> /\ notes' = Tail(notes)
        /\ UNCHANGED <<lb, lbState, started, latest, after, ready>>
    BY DEF Notification, TypeOK
  <2>2. /\ Len(notes) \in Nat /\ Len(notes) > 0 /\ n = notes[1] /\ n \in Note
        /\ Len(notes') = Len(notes) - 1
        /\ \A i \in 1..Len(notes') : notes'[i] = notes[i + 1]
    BY <2>1
  <2> QED
    BY <2>1, <2>2
<1>2. started /\ prefs = None => n.prefs # None
  BY <1>1 DEF PrefsInv, FirstNote
<1>3. started
  BY <1>1 DEF PrefsInv, FirstNote
<1>4. LastPrefs'
  <2> SUFFICES ASSUME NEW i \in 1..Len(notes'), notes'[i].prefs # None,
                      \A j \in i+1..Len(notes') : notes'[j].prefs = None
               PROVE  notes'[i].prefs = lb
    BY <1>1 DEF LastPrefs
  <2>1. i + 1 \in 1..Len(notes) /\ notes[i + 1].prefs # None
    BY <1>1
  <2>2. ASSUME NEW j \in (i + 1) + 1..Len(notes) PROVE notes[j].prefs = None
    <3>1. j - 1 \in i + 1..Len(notes') /\ notes'[j - 1] = notes[j]
      BY <1>1
    <3> QED
      BY <3>1
  <2>3. notes[i + 1].prefs = lb
    BY <2>1, <2>2 DEF PrefsInv, LastPrefs
  <2> QED
    BY <1>1, <2>3
<1>5. LastState'
  <2> SUFFICES ASSUME NEW i \in 1..Len(notes'), notes'[i].state # None,
                      \A j \in i+1..Len(notes') : notes'[j].state = None
               PROVE  notes'[i].state = lbState
    BY <1>1 DEF LastState
  <2>1. i + 1 \in 1..Len(notes) /\ notes[i + 1].state # None
    BY <1>1
  <2>2. ASSUME NEW j \in (i + 1) + 1..Len(notes) PROVE notes[j].state = None
    <3>1. j - 1 \in i + 1..Len(notes') /\ notes'[j - 1] = notes[j]
      BY <1>1
    <3> QED
      BY <3>1
  <2>3. notes[i + 1].state = lbState
    BY <2>1, <2>2 DEF StateInv, LastState
  <2> QED
    BY <1>1, <2>3
<1>6. NoPrefsNote' => \A j \in 2..Len(notes) : notes[j].prefs = None
  <2> SUFFICES ASSUME NoPrefsNote', NEW j \in 2..Len(notes) PROVE notes[j].prefs = None
    OBVIOUS
  <2>1. j - 1 \in 1..Len(notes') /\ notes'[j - 1] = notes[j]
    BY <1>1
  <2> QED
    BY <2>1 DEF NoPrefsNote
<1>7. NoStateNote' => \A j \in 2..Len(notes) : notes[j].state = None
  <2> SUFFICES ASSUME NoStateNote', NEW j \in 2..Len(notes) PROVE notes[j].state = None
    OBVIOUS
  <2>1. j - 1 \in 1..Len(notes') /\ notes'[j - 1] = notes[j]
    BY <1>1
  <2> QED
    BY <2>1 DEF NoStateNote
<1>8. /\ NoPrefsNote' /\ n.prefs = None => NoPrefsNote
      /\ NoPrefsNote' /\ n.prefs # None => n.prefs = lb
      /\ NoStateNote' /\ n.state = None => NoStateNote
      /\ NoStateNote' /\ n.state # None => n.state = lbState
  <2>1. 1 \in 1..Len(notes) /\ \A j \in 1..Len(notes) : j = 1 \/ j \in 2..Len(notes)
    BY <1>1
  <2>2. 1 + 1..Len(notes) = 2..Len(notes)
    BY <1>1
  <2>3. /\ NoPrefsNote' /\ n.prefs = None => NoPrefsNote
        /\ NoStateNote' /\ n.state = None => NoStateNote
    BY <1>1, <1>6, <1>7, <2>1 DEF NoPrefsNote, NoStateNote
  <2>4. NoPrefsNote' /\ n.prefs # None => n.prefs = lb
    BY <1>1, <1>6, <2>1, <2>2 DEF PrefsInv, LastPrefs
  <2>5. NoStateNote' /\ n.state # None => n.state = lbState
    BY <1>1, <1>7, <2>1, <2>2 DEF StateInv, LastState
  <2> QED
    BY <2>3, <2>4, <2>5
<1>9. Agree' /\ TileAgrees' /\ FirstNote'
  <2>1. CASE n.prefs # None
    <3>1. prefs' = n.prefs /\ active' = n.prefs.want
      BY <2>1 DEF Notification, Replace, SetTileStatus
    <3>2. prefs' # None
      BY <1>1, <2>1, <3>1
    <3> QED
      BY <1>1, <1>3, <1>8, <2>1, <3>1, <3>2 DEF Agree, TileAgrees, FirstNote
  <2>2. CASE n.prefs = None
    <3>1. prefs # None /\ UNCHANGED <<prefs, current, active>>
      BY <1>2, <1>3, <2>2 DEF Notification
    <3> QED
      BY <1>1, <1>3, <1>8, <2>2, <3>1 DEF PrefsInv, Agree, TileAgrees, FirstNote
  <2> QED
    BY <2>1, <2>2
<1>10. StateAgrees'
  BY <1>1, <1>8 DEF Notification, StateInv, StateAgrees
<1>11. ReadyAgrees'
  BY <1>1 DEF Notification, Notifies, StateInv, ReadyAgrees
<1> QED
  BY <1>4, <1>5, <1>9, <1>10, <1>11 DEF PrefsInv, StateInv

\* SetPrefs by a goroutine, before and after Start
LEMMA SetPrefsInv ==
  ASSUME TypeOK, PrefsInv, StateInv, NEW p \in Prefs, SetPrefs(p),
         UNCHANGED <<prefs, state, loop, ready, active, latest, after>>
  PROVE  PrefsInv' /\ StateInv'
<1>1. CASE started
  <2> DEFINE n == [prefs |-> p, state |-> None]
  <2>1. n \in Note /\ n.prefs = lb' /\ n.prefs # None /\ n.state = None
    BY NoteType DEF SetPrefs
  <2>2. notes' = Append(notes, n) /\ started' /\ UNCHANGED lbState
    BY <1>1 DEF SetPrefs
  <2> HIDE DEF n
  <2> QED
    BY <2>1, <2>2, AppendNote
<1>2. CASE ~started
  <2>1. notes = <<>> /\ Len(notes) = 0 /\ UNCHANGED <<notes, lbState, started>>
    BY <1>2 DEF SetPrefs, PrefsInv, FirstNote
  <2>2. 1..Len(notes') = {}
    BY <2>1
  <2> QED
    BY <1>2, <2>1, <2>2
       DEF PrefsInv, StateInv, LastPrefs, LastState, Agree, TileAgrees, StateAgrees,
           ReadyAgrees, FirstNote, NoStateNote
<1> QED
  BY <1>1, <1>2

LEMMA SetterInv ==
  ASSUME TypeOK, TypeOK', PrefsInv, StateInv, Setter
  PROVE  PrefsInv' /\ StateInv'
<1>1. CASE LoadPrefs
  <2>1. latest' + current' + after' > 0
    BY <1>1 DEF LoadPrefs, TypeOK
  <2> QED
    BY <1>1, <2>1, Edit DEF LoadPrefs
<1>2. CASE SetCurrent
  <2>1. prefs \in Prefs
    BY <1>2 DEF SetCurrent, TypeOK
  <2> QED
    BY <1>2, <2>1, SetPrefsInv DEF SetCurrent
<1>3. ASSUME NEW p \in Prefs, SetFrozen(p) PROVE PrefsInv' /\ StateInv'
  BY <1>3, SetPrefsInv DEF SetFrozen
<1> QED
  BY <1>1, <1>2, <1>3 DEF Setter

LEMMA BackendInv ==
  ASSUME TypeOK, PrefsInv, StateInv, Start \/ ChangeState \/ NetMap
  PROVE  PrefsInv' /\ StateInv'
<1>1. CASE Start
  <2> DEFINE n == [prefs |-> lb, state |-> None]
  <2>1. n \in Note /\ n.prefs = lb /\ n.prefs # None /\ n.state = None
    BY NoteType DEF TypeOK
  <2>2. notes' = Append(notes, n) /\ started' /\ UNCHANGED <<lb, lbState>>
    BY <1>1 DEF Start
  <2>3. UNCHANGED <<prefs, state, loop, ready, active, latest, after, current>>
    BY <1>1 DEF Start
  <2> HIDE DEF n
  <2> QED
    BY <2>1, <2>2, <2>3, AppendNote
<1>2. CASE ChangeState
  <2> DEFINE n == [prefs |-> None, state |-> Target]
  <2>1. n \in Note /\ n.prefs = None /\ n.state = lbState'
    BY <1>2, NoteType DEF ChangeState, Target, State
  <2>2. notes' = Append(notes, n) /\ started /\ UNCHANGED <<lb, started>>
    BY <1>2 DEF ChangeState
  <2>3. UNCHANGED <<prefs, state, loop, ready, active, latest, after, current>>
    BY <1>2 DEF ChangeState
  <2>4. n.state # None
    BY <2>1, <1>2 DEF ChangeState, Target
  <2> HIDE DEF n
  <2> QED
    BY <2>1, <2>2, <2>3, <2>4, AppendNote
<1>3. CASE NetMap
  <2> DEFINE n == [prefs |-> None, state |-> None]
  <2>1. n \in Note /\ n.prefs = None /\ n.state = None
    BY NoteType
  <2>2. notes' = Append(notes, n) /\ UNCHANGED <<lb, lbState, started>>
    BY <1>3 DEF NetMap
  <2>3. UNCHANGED <<prefs, state, loop, ready, active, latest, after, current>>
    BY <1>3 DEF NetMap
  <2> HIDE DEF n
  <2>4. started
    BY <1>3 DEF NetMap, PrefsInv, FirstNote
  <2> QED
    BY <2>1, <2>2, <2>3, <2>4, AppendNote
<1> QED
  BY <1>1, <1>2, <1>3

\* The steps that concern neither the notifications nor the preferences
LEMMA LoopInv ==
  ASSUME TypeOK, TypeOK', PrefsInv, StateInv, Loop \/ VPNClosed \/ DNSConfigChanged
  PROVE  PrefsInv' /\ StateInv'
<1>1. ASSUME NEW e \in Event, BackendEvent(e) PROVE PrefsInv' /\ StateInv'
  <2>1. latest' + current' + after' > 0
    <3>1. latest \in Nat /\ current \in Nat /\ after \in 0..1
          /\ latest' \in Nat /\ current' \in Nat /\ after' \in 0..1
      BY DEF TypeOK
    <3> QED
      BY <1>1, <3>1 DEF BackendEvent, Connect, RouteAll, SetterOf
  <2>2. loop' = "tile" \/ loop' = loop
    BY <1>1 DEF BackendEvent, Connect, RouteAll
  <2> QED
    BY <1>1, <2>1, <2>2, Edit DEF BackendEvent
<1>2. CASE TileReady
  <2>1. PrefsInv'
    BY <1>2 DEF TileReady, PrefsInv, LastPrefs, Agree, TileAgrees, FirstNote, NoPrefsNote
  <2>2. LastState' /\ StateAgrees'
    BY <1>2 DEF TileReady, StateInv, LastState, StateAgrees, NoStateNote
  <2>3. ReadyAgrees'
    BY <1>2 DEF TileReady, ReadyAgrees
  <2> QED
    BY <2>1, <2>2, <2>3 DEF StateInv
<1>3. CASE TileCheck
  <2>1. latest' + current' + after' = latest + current + after
    <3>1. latest \in Nat /\ current \in Nat /\ after \in 0..1
      BY DEF TypeOK
    <3>2. latest' = latest + after /\ current' = current /\ after' = 0
      BY <1>3 DEF TileCheck
    <3> QED
      BY <3>1, <3>2
  <2>2. PrefsInv'
    BY <1>3, <2>1
       DEF TileCheck, PrefsInv, LastPrefs, Agree, TileAgrees, FirstNote, NoPrefsNote
  <2>3. StateInv'
    BY <1>3 DEF TileCheck, StateInv, LastState, StateAgrees, ReadyAgrees, NoStateNote
  <2> QED
    BY <2>2, <2>3
<1>4. CASE VPNRequested \/ Disconnect \/ VPNClosed
  BY <1>4, Untouched DEF VPNRequested, Disconnect, VPNClosed
<1>5. CASE DNSConfigChanged
  <2>1. PrefsInv'
    BY <1>5
       DEF DNSConfigChanged, PrefsInv, LastPrefs, Agree, TileAgrees, FirstNote, NoPrefsNote
  <2>2. StateInv'
    BY <1>5 DEF DNSConfigChanged, StateInv, LastState, StateAgrees, ReadyAgrees, NoStateNote
  <2> QED
    BY <2>1, <2>2
<1> QED
  BY <1>1, <1>2, <1>3, <1>4, <1>5, NotificationInv DEF Loop

LEMMA OutsideInv ==
  ASSUME PrefsInv, StateInv, Android \/ Inputs
  PROVE  PrefsInv' /\ StateInv'
<1>1. CASE Android
  BY <1>1, Untouched
     DEF Android, OnStartCommand, AfterRequest, StartVPNWorker, StartService, StopVPNWorker
<1>2. CASE Inputs
  <2>1. ASSUME NEW want \in BOOLEAN, UIToggle(want) PROVE PrefsInv' /\ StateInv'
    BY <2>1, Untouched DEF UIToggle
  <2>2. ASSUME NEW exit \in Exit, UIExit(exit) PROVE PrefsInv' /\ StateInv'
    BY <2>2, Untouched DEF UIExit
  <2>3. CASE TileClick
    BY <2>3, Untouched DEF TileClick
  <2>4. ASSUME NEW w \in {"start", "stop"}, Broadcast(w) PROVE PrefsInv' /\ StateInv'
    BY <2>4, Untouched DEF Broadcast
  <2>5. CASE AlwaysOn \/ Revoke
    BY <2>5, Untouched DEF AlwaysOn, Revoke
  <2> QED
    BY <1>2, <2>1, <2>2, <2>3, <2>4, <2>5 DEF Inputs
<1> QED
  BY <1>1, <1>2

LEMMA StepOwed ==
  ASSUME TypeOK, NothingOwed, [Next]_vars
  PROVE  NothingOwed'
<1>1. CASE UNCHANGED vars \/ Start \/ ChangeState \/ NetMap \/ Setter \/ VPNClosed
  BY <1>1 DEF vars, Start, ChangeState, NetMap, Setter, LoadPrefs, SetCurrent, SetFrozen,
              VPNClosed, NothingOwed
<1>2. CASE Android
  BY <1>2 DEF Android, OnStartCommand, AfterRequest, StartVPNWorker, StartService,
              StopVPNWorker, NothingOwed
<1>3. CASE Inputs
  BY <1>3 DEF Inputs, UIToggle, UIExit, TileClick, Broadcast, AlwaysOn, Revoke, NothingOwed
<1>4. CASE Notification \/ TileReady \/ TileCheck \/ VPNRequested \/ Disconnect
           \/ DNSConfigChanged
  BY <1>4 DEF Notification, TileReady, TileCheck, VPNRequested, Disconnect,
              DNSConfigChanged, NothingOwed
<1>5. ASSUME NEW e \in Event, BackendEvent(e) PROVE NothingOwed'
  BY <1>5 DEF BackendEvent, Connect, RouteAll, NothingOwed
<1> QED
  BY <1>1, <1>2, <1>3, <1>4, <1>5 DEF Next, System, Loop

LEMMA StepInv == IInv /\ [Next]_vars => IInv'
<1> SUFFICES ASSUME IInv, [Next]_vars PROVE IInv'
  OBVIOUS
<1>1. TypeOK /\ PrefsInv /\ StateInv /\ NothingOwed
  BY DEF IInv
<1>2. TypeOK' /\ NothingOwed'
  BY <1>1, StepType, StepOwed
<1>3. PrefsInv' /\ StateInv'
  <2>1. CASE UNCHANGED vars
    BY <1>1, <2>1, Untouched DEF vars
  <2>2. CASE Next
    BY <1>1, <1>2, <2>2, SetterInv, BackendInv, LoopInv, OutsideInv DEF Next, System
  <2> QED
    BY <2>1, <2>2
<1> QED
  BY <1>2, <1>3 DEF IInv

LEMMA QuietAgrees ==
  IInv /\ Quiet => prefs = lb /\ state = lbState /\ active = lb.want /\ ready
<1> SUFFICES ASSUME IInv, Quiet PROVE prefs = lb /\ state = lbState /\ active = lb.want /\ ready
  OBVIOUS
<1>1. 1..Len(notes) = {}
  BY DEF Quiet
<1>2. after = 0 /\ latest + current + after = 0
  BY DEF Quiet, IInv, NothingOwed
<1>3. NoPrefsNote /\ NoStateNote
  BY <1>1 DEF NoPrefsNote, NoStateNote
<1>4. prefs = lb /\ active = lb.want /\ state = lbState
  BY <1>2, <1>3 DEF Quiet, IInv, PrefsInv, StateInv, Agree, TileAgrees, StateAgrees
<1>5. state >= Stopped
  BY <1>4 DEF Quiet, Target
<1>6. ready
  BY <1>5 DEF Quiet, IInv, StateInv, ReadyAgrees
<1> QED
  BY <1>4, <1>6

-----------------------------------------------------------------------------
(* A wish to connect that nobody takes back                                *)

\* Nobody disconnects.
NoStop ==
  /\ main \in {"idle", "request", "check"} /\ ~closed /\ workers["stop"] = 0
  /\ \A i \in 1..Len(intents) : intents[i] = "request"
  /\ \A e \in Event : pending[e] > 0 => e.kind = "connect"

\* Before the preferences have come nothing is done with them.
BeforePrefs ==
  /\ ~started => prefs = None
  /\ prefs = None =>
       /\ state = NoState /\ ~ready
       /\ \A p \in Prefs : frozen[p] = 0
       /\ \A e \in Event : pending[e] = 0
       /\ \A i \in 2..Len(notes) : notes[i].prefs = None

\* Afterwards WantRunning is only switched on, wherever preferences are held.
SwitchesOn ==
  /\ \A p \in Prefs : frozen[p] > 0 => p.want
  /\ latest + current + after > 0 => prefs.want
  /\ prefs # None =>
       \A i \in 1..Len(notes) : notes[i].prefs # None => notes[i].prefs.want

\* A running backend runs on, so the main loop never asks for the VPN to be stopped.
RunsOn ==
  /\ lbState = Running => lb.want
  /\ \A i \in 1..Len(notes) : notes[i].state = Running => lbState = Running
  /\ \A i \in 1..Len(notes) : \A j \in 1..Len(notes) :
       i < j /\ notes[i].state = Running => notes[j].state \in {None, Running}
  /\ state = Running =>
       lbState = Running /\ \A i \in 1..Len(notes) : notes[i].state \in {None, Running}

\* What the wish has become: the main loop has heard it, ...
Heard == (prefs # None /\ prefs.want) \/ \E e \in Event : pending[e] > 0
\* ... or a worker has it, and will have set autoConnect, ...
Wished == connects > 0 => Heard \/ auto \/ workers["start"] > 0
\* ... after which the service asks for the connect if it finds the backend ready,
\* and the main loop asks for the service when it becomes ready.
OnItsWay ==
  auto /\ ready =>
    \/ Heard \/ loop = "check" \/ starting > 0 \/ main \in {"request", "check"}
    \/ \E i \in 1..Len(intents) : intents[i] = "request"

Calm == NoStop /\ BeforePrefs /\ SwitchesOn /\ RunsOn /\ Wished /\ OnItsWay
WishInv == asked = {} => Calm

\* A step that leaves notifications, preferences and states alone disturbs little.
LEMMA CalmElsewhere ==
  ASSUME TypeOK, Calm,
         UNCHANGED <<prefs, state, started, notes, lb, lbState, frozen>>,
         latest' + current' + after' > 0 => latest + current + after > 0
  PROVE  /\ SwitchesOn' /\ RunsOn'
         /\ (ready' => ready) /\ (\A e \in Event : pending'[e] = 0 \/ prefs # None)
              => BeforePrefs'
<1>1. SwitchesOn'
  BY DEF Calm, SwitchesOn
<1>2. RunsOn'
  BY DEF Calm, RunsOn
<1>3. ASSUME ready' => ready, \A e \in Event : pending'[e] = 0 \/ prefs # None
      PROVE  BeforePrefs'
  BY <1>3 DEF Calm, BeforePrefs
<1> QED
  BY <1>1, <1>2, <1>3

\* What a notification at the end of the queue leaves of the invariant
LEMMA CalmAppend ==
  ASSUME TypeOK, PrefsInv, Calm, NEW n \in Note, notes' = Append(notes, n), started',
         n.prefs # None => IF prefs = None THEN notes = <<>> ELSE n.prefs.want,
         n.state = Running => lbState' = Running,
         lbState = Running => n.state \in {None, Running} /\ lbState' = Running,
         lbState' = Running => lb'.want,
         \A p \in Prefs : frozen'[p] > 0 => frozen[p] > 0, frozen' \in [Prefs -> Nat],
         latest' + current' + after' > 0 => latest + current + after > 0,
         UNCHANGED <<prefs, state, loop, ready, auto, pending, androidVars, closed, connects>>
  PROVE  Calm'
<1>1. /\ notes \in Seq(Note) /\ Len(notes) \in Nat
      /\ Len(notes') = Len(notes) + 1
      /\ notes'[Len(notes) + 1] = n
      /\ \A i \in 1..Len(notes) : notes'[i] = notes[i]
  BY DEF TypeOK
<1>2. NoStop' /\ Wished' /\ OnItsWay'
  BY DEF Calm, NoStop, Wished, OnItsWay, Heard
<1>3. BeforePrefs'
  <2>1. SUFFICES ASSUME prefs = None
                 PROVE  /\ \A p \in Prefs : frozen'[p] = 0
                        /\ \A i \in 2..Len(notes') : notes'[i].prefs = None
    BY DEF Calm, BeforePrefs
  <2>2. ASSUME NEW p \in Prefs PROVE frozen'[p] = 0
    <3>1. frozen'[p] \in Nat /\ ~(frozen'[p] > 0)
      BY <2>1 DEF Calm, BeforePrefs
    <3> QED
      BY <3>1
  <2>3. ASSUME NEW i \in 2..Len(notes') PROVE notes'[i].prefs = None
    <3>1. CASE i = Len(notes) + 1
      <4>1. notes # <<>>
        BY <1>1, <3>1
      <4> QED
        BY <1>1, <2>1, <3>1, <4>1
    <3>2. CASE i \in 2..Len(notes)
      BY <1>1, <2>1, <3>2 DEF Calm, BeforePrefs
    <3> QED
      BY <1>1, <3>1, <3>2
  <2> QED
    BY <2>2, <2>3
<1>4. SwitchesOn'
  <2>1. ASSUME prefs # None, NEW i \in 1..Len(notes'), notes'[i].prefs # None
        PROVE  notes'[i].prefs.want
    BY <1>1, <2>1 DEF Calm, SwitchesOn
  <2> QED
    BY <2>1 DEF Calm, SwitchesOn
<1>5. RunsOn'
  <2>1. \A i \in 1..Len(notes') : notes'[i].state = Running => lbState' = Running
    BY <1>1 DEF Calm, RunsOn
  <2>2. ASSUME NEW i \in 1..Len(notes'), NEW j \in 1..Len(notes'), i < j,
               notes'[i].state = Running
        PROVE  notes'[j].state \in {None, Running}
    <3>1. i \in 1..Len(notes) /\ notes[i].state = Running /\ lbState = Running
      BY <1>1, <2>2 DEF Calm, RunsOn
    <3>2. CASE j = Len(notes) + 1
      BY <1>1, <3>1, <3>2
    <3>3. CASE j \in 1..Len(notes)
      BY <1>1, <2>2, <3>1, <3>3 DEF Calm, RunsOn
    <3> QED
      BY <1>1, <3>2, <3>3
  <2>3. state = Running =>
          lbState' = Running /\ \A i \in 1..Len(notes') : notes'[i].state \in {None, Running}
    BY <1>1 DEF Calm, RunsOn
  <2> QED
    BY <2>1, <2>2, <2>3 DEF RunsOn
<1> QED
  BY <1>2, <1>3, <1>4, <1>5 DEF Calm

\* The goroutines of SetPrefs hold preferences in which WantRunning is set.
LEMMA CalmSetter == ASSUME TypeOK, PrefsInv, Calm, Setter PROVE Calm'
<1>1. /\ latest \in Nat /\ current \in Nat /\ after \in 0..1 /\ frozen \in [Prefs -> Nat]
      /\ latest + current + after > 0 => prefs # None
  BY DEF TypeOK
<1>2. CASE LoadPrefs
  <2>1. latest' + current' + after' > 0 => latest + current + after > 0
    BY <1>1, <1>2 DEF LoadPrefs
  <2>2. NoStop' /\ Wished' /\ OnItsWay'
    BY <1>2 DEF LoadPrefs, Calm, NoStop, Wished, OnItsWay, Heard
  <2>3. BeforePrefs' /\ SwitchesOn' /\ RunsOn'
    BY <1>2, <2>1, CalmElsewhere DEF LoadPrefs, Calm, BeforePrefs
  <2> QED
    BY <2>2, <2>3 DEF Calm
<1>3. ASSUME NEW p \in Prefs, p.want, prefs # None, SetPrefs(p),
             frozen' \in [Prefs -> Nat], \A q \in Prefs : frozen'[q] > 0 => frozen[q] > 0,
             latest' + current' + after' > 0 => latest + current + after > 0,
             UNCHANGED <<loopVars, pending, flagVars, androidVars, closed, inputVars>>
      PROVE  Calm'
  <2> DEFINE n == [prefs |-> p, state |-> None]
  <2>1. started
    BY <1>3 DEF Calm, BeforePrefs
  <2>2. n \in Note /\ n.prefs = p /\ n.state = None
    BY NoteType
  <2>3. notes' = Append(notes, n) /\ lb' = p /\ lbState' = lbState /\ started'
    BY <1>3, <2>1 DEF SetPrefs
  <2>4. None # Running /\ None \in {None, Running}
    OBVIOUS
  <2> HIDE DEF n
  <2> QED
    BY <1>3, <2>2, <2>3, <2>4, CalmAppend
<1>4. CASE SetCurrent
  <2>1. current > 0 /\ prefs # None /\ prefs \in Prefs /\ prefs.want
    BY <1>1, <1>4 DEF SetCurrent, TypeOK, Calm, SwitchesOn
  <2>2. latest' + current' + after' > 0 => latest + current + after > 0
    BY <1>1, <1>4, <2>1 DEF SetCurrent
  <2> QED
    BY <1>1, <1>3, <1>4, <2>1, <2>2 DEF SetCurrent
<1>5. ASSUME NEW p \in Prefs, SetFrozen(p) PROVE Calm'
  <2>1. frozen[p] > 0 /\ p.want /\ prefs # None
    BY <1>1, <1>5 DEF SetFrozen, Calm, SwitchesOn, BeforePrefs
  <2>2. frozen' \in [Prefs -> Nat] /\ \A q \in Prefs : frozen'[q] > 0 => frozen[q] > 0
    BY <1>1, <1>5, <2>1 DEF SetFrozen
  <2>3. latest' + current' + after' > 0 => latest + current + after > 0
    BY <1>1, <1>5 DEF SetFrozen
  <2> QED
    BY <1>3, <1>5, <2>1, <2>2, <2>3 DEF SetFrozen
<1> QED
  BY <1>2, <1>4, <1>5 DEF Setter

LEMMA CalmBackend ==
  ASSUME TypeOK, PrefsInv, Calm, Start \/ ChangeState \/ NetMap PROVE Calm'
<1>1. /\ frozen \in [Prefs -> Nat] /\ None # Running /\ Stopped # Running
      /\ lbState = Running => lb.want
  BY DEF TypeOK, Calm, RunsOn
<1>2. CASE Start
  <2> DEFINE n == [prefs |-> lb, state |-> None]
  <2>1. prefs = None /\ notes = <<>> /\ lbState = NoState
    BY <1>2 DEF Start, Calm, BeforePrefs, PrefsInv, FirstNote
  <2>2. n \in Note /\ n.prefs = lb /\ n.state = None
    BY NoteType DEF TypeOK
  <2>3. notes' = Append(notes, n) /\ started' /\ UNCHANGED <<lb, lbState>>
    BY <1>2 DEF Start
  <2> HIDE DEF n
  <2> QED
    BY <1>1, <1>2, <2>1, <2>2, <2>3, CalmAppend DEF Start
<1>3. CASE ChangeState
  <2> DEFINE n == [prefs |-> None, state |-> Target]
  <2>1. n \in Note /\ n.prefs = None /\ n.state = Target /\ lbState' = Target
    BY <1>3, NoteType DEF ChangeState, Target, State
  <2>2. lbState # Running /\ (Target = Running => lb.want)
    BY <1>1, <1>3 DEF ChangeState, Target
  <2>3. notes' = Append(notes, n) /\ started' /\ UNCHANGED lb
    BY <1>3 DEF ChangeState
  <2> HIDE DEF n
  <2> QED
    BY <1>1, <1>3, <2>1, <2>2, <2>3, CalmAppend DEF ChangeState
<1>4. CASE NetMap
  <2> DEFINE n == [prefs |-> None, state |-> None]
  <2>1. n \in Note /\ n.prefs = None /\ n.state = None
    BY NoteType
  <2>2. notes' = Append(notes, n) /\ started' /\ UNCHANGED <<lb, lbState>>
    BY <1>4 DEF NetMap, PrefsInv, FirstNote
  <2>3. UNCHANGED connects
    BY <1>4 DEF NetMap, Other
  <2> HIDE DEF n
  <2> QED
    BY <1>1, <1>4, <2>1, <2>2, <2>3, CalmAppend DEF NetMap
<1> QED
  BY <1>2, <1>3, <1>4

\* The main loop takes a notification: the first one brings the preferences, and the
\* later ones bring preferences with WantRunning, and no state below Running after it.
LEMMA CalmNotification ==
  ASSUME TypeOK, TypeOK', PrefsInv, Calm, Notification PROVE Calm'
<1> DEFINE n == Head(notes)
<1>1. /\ notes \in Seq(Note) /\ notes # <<>> /\ Len(notes) \in Nat /\ Len(notes) > 0
      /\ n = notes[1] /\ n \in Note
      /\ notes' = Tail(notes) /\ Len(notes') = Len(notes) - 1
      /\ \A i \in 1..Len(notes') : i + 1 \in 2..Len(notes) /\ notes'[i] = notes[i + 1]
      /\ 1 \in 1..Len(notes) /\ \A i \in 2..Len(notes) : i \in 1..Len(notes) /\ 1 < i
      /\ UNCHANGED <<lb, lbState, started, latest, after, ready, auto, pending, main,
                     workers, starting, closed, connects>>
      /\ loop = "select"
  BY DEF Notification, TypeOK
<1>2. started /\ (prefs = None => n.prefs # None)
  BY <1>1 DEF PrefsInv, FirstNote
<1>3. IF n.prefs # None
      THEN /\ prefs' = n.prefs /\ current' = 0
           /\ frozen' = IF prefs = None THEN frozen ELSE [frozen EXCEPT ![prefs] = @ + current]
      ELSE prefs # None /\ UNCHANGED <<prefs, current, frozen>>
  BY <1>2 DEF Notification, Replace
<1>4. prefs' # None
  BY <1>2, <1>3
<1>5. /\ latest \in Nat /\ current \in Nat /\ after \in 0..1 /\ frozen \in [Prefs -> Nat]
      /\ latest + current + after > 0 => prefs # None
      /\ prefs \in Prefs \cup {None}
  BY DEF TypeOK
<1>6. state' = IF n.state = None THEN state ELSE n.state
  BY DEF Notification
<1>7. UNCHANGED intents
  <2>1. state = Running => n.state \in {None, Running}
    BY <1>1 DEF Calm, RunsOn
  <2>2. state \in {NoState, Stopped, Running}
    BY DEF TypeOK, State
  <2>3. ~(state > Stopped /\ state' <= Stopped)
    BY <1>6, <2>1, <2>2
  <2> QED
    BY <2>3 DEF Notification, StopVPN
<1> HIDE DEF n
<1>8. NoStop'
  BY <1>1, <1>7 DEF Calm, NoStop
<1>9. BeforePrefs'
  BY <1>1, <1>2, <1>4 DEF BeforePrefs
<1>10. SwitchesOn'
  <2>1. ASSUME NEW i \in 1..Len(notes'), notes'[i].prefs # None PROVE notes'[i].prefs.want
    BY <1>1, <2>1 DEF Calm, BeforePrefs, SwitchesOn
  <2>2. \A p \in Prefs : frozen'[p] > 0 => p.want
    <3>1. CASE n.prefs = None \/ prefs = None
      BY <1>3, <3>1 DEF Calm, SwitchesOn
    <3>2. CASE n.prefs # None /\ prefs # None
      <4>1. frozen' = [frozen EXCEPT ![prefs] = @ + current] /\ prefs \in Prefs
        BY <1>3, <1>5, <3>2
      <4>2. current > 0 => prefs.want
        BY <1>5 DEF Calm, SwitchesOn
      <4>3. ASSUME NEW p \in Prefs, frozen'[p] > 0 PROVE p.want
        <5>1. CASE p = prefs
          <6>1. frozen[p] > 0 \/ current > 0
            BY <1>5, <4>1, <4>3, <5>1
          <6> QED
            BY <4>2, <5>1, <6>1 DEF Calm, SwitchesOn
        <5>2. CASE p # prefs
          BY <1>5, <4>1, <4>3, <5>2 DEF Calm, SwitchesOn
        <5> QED
          BY <5>1, <5>2
      <4> QED
        BY <4>3
    <3> QED
      BY <3>1, <3>2
  <2>3. latest' + current' + after' > 0 => prefs'.want
    <3>1. CASE n.prefs = None
      BY <1>1, <1>3, <3>1 DEF Calm, SwitchesOn
    <3>2. CASE n.prefs # None
      <4>1. latest' + current' + after' > 0 => latest + current + after > 0
        BY <1>1, <1>3, <1>5, <3>2
      <4> QED
        BY <1>1, <1>3, <1>5, <3>2, <4>1 DEF Calm, SwitchesOn
    <3> QED
      BY <3>1, <3>2
  <2> QED
    BY <2>1, <2>2, <2>3 DEF SwitchesOn
<1>11. RunsOn'
  <2>1. \A i \in 1..Len(notes') : notes'[i].state = Running => lbState' = Running
    BY <1>1 DEF Calm, RunsOn
  <2>2. ASSUME NEW i \in 1..Len(notes'), NEW j \in 1..Len(notes'), i < j,
               notes'[i].state = Running
        PROVE  notes'[j].state \in {None, Running}
    <3>1. /\ i + 1 \in 1..Len(notes) /\ j + 1 \in 1..Len(notes) /\ i + 1 < j + 1
          /\ notes'[i] = notes[i + 1] /\ notes'[j] = notes[j + 1]
      BY <1>1, <2>2
    <3> QED
      BY <2>2, <3>1 DEF Calm, RunsOn
  <2>3. ASSUME state' = Running
        PROVE  lbState' = Running /\ \A i \in 1..Len(notes') : notes'[i].state \in {None, Running}
    <3>1. state = Running \/ n.state = Running
      BY <1>6, <2>3
    <3> QED
      BY <1>1, <3>1 DEF Calm, RunsOn
  <2>4. lbState' = Running => lb'.want
    BY <1>1 DEF Calm, RunsOn
  <2> QED
    BY <2>1, <2>2, <2>3, <2>4 DEF RunsOn
<1>12. Heard => Heard'
  <2>1. ASSUME prefs # None, prefs.want PROVE prefs'.want
    <3>1. n.prefs # None => n.prefs.want
      BY <1>1, <2>1 DEF Calm, SwitchesOn
    <3> QED
      BY <1>3, <2>1, <3>1
  <2> QED
    BY <1>1, <1>4, <2>1 DEF Heard
<1> QED
  BY <1>1, <1>7, <1>8, <1>9, <1>10, <1>11, <1>12 DEF Calm, Wished, OnItsWay

\* The main loop takes an event: with nobody disconnecting it is a ConnectEvent.
LEMMA CalmEvent ==
  ASSUME TypeOK, TypeOK', Calm, NEW e \in Event, BackendEvent(e) PROVE Calm'
<1>1. /\ loop = "select" /\ pending[e] > 0 /\ e.kind = "connect"
      /\ pending' = [pending EXCEPT ![e] = @ - 1] /\ pending \in [Event -> Nat]
      /\ UNCHANGED <<state, frozen, lbVars, flagVars, androidVars, closed, inputVars>>
  BY DEF BackendEvent, Calm, NoStop, TypeOK
<1>2. Connect(e) /\ prefs # None
  BY <1>1 DEF BackendEvent, RouteAll, Calm, BeforePrefs
<1>3. prefs' \in Prefs /\ prefs'.want /\ prefs' # None
  <2>1. prefs' \in Prefs
    BY <1>1, <1>2, WishType DEF Connect
  <2>2. prefs'.want
    BY <1>1, <1>2 DEF Connect, Wish, Edited
  <2> QED
    BY <2>1, <2>2
<1>4. \A f \in Event : pending'[f] > 0 => pending[f] > 0
  BY <1>1
<1>5. NoStop'
  BY <1>1, <1>4 DEF Calm, NoStop
<1>6. BeforePrefs'
  BY <1>1, <1>2, <1>3 DEF Calm, BeforePrefs
<1>7. SwitchesOn' /\ RunsOn'
  BY <1>1, <1>2, <1>3 DEF Calm, SwitchesOn, RunsOn
<1>8. Heard'
  BY <1>3 DEF Heard
<1> QED
  BY <1>5, <1>6, <1>7, <1>8 DEF Calm, Wished, OnItsWay

\* The other cases of the main loop
LEMMA CalmLoop ==
  ASSUME TypeOK, TypeOK', PrefsInv, Calm, Loop \/ VPNClosed \/ DNSConfigChanged PROVE Calm'
<1>1. ~closed /\ main # "disconnect" /\ latest \in Nat /\ current \in Nat /\ after \in 0..1
  BY DEF Calm, NoStop, TypeOK
<1>2. CASE TileReady
  <2>1. prefs = None => state = NoState
    BY DEF Calm, BeforePrefs
  <2>2. prefs = None => ~ready'
    <3>1. prefs = None => ~(state >= Stopped)
      BY <2>1 DEF NoState, Stopped
    <3>2. ready' = (state >= Stopped)
      BY <1>2 DEF TileReady
    <3> QED
      BY <3>1, <3>2, Zenon
  <2>3. BeforePrefs' /\ SwitchesOn' /\ RunsOn'
    <3>1. SwitchesOn' /\ RunsOn'
      BY <1>2, CalmElsewhere DEF TileReady
    <3>2. BeforePrefs'
      BY <1>2, <2>2 DEF TileReady, Calm, BeforePrefs
    <3> QED
      BY <3>1, <3>2
  <2>4. NoStop'
    BY <1>2 DEF TileReady, Calm, NoStop
  <2>5. Wished' /\ OnItsWay'
    BY <1>2 DEF TileReady, Calm, Wished, OnItsWay, Heard
  <2> QED
    BY <2>3, <2>4, <2>5 DEF Calm
<1>3. CASE TileCheck
  <2>1. /\ intents \in Seq({"request", "stop", "always"}) /\ Len(intents) \in Nat
        /\ intents' = IF ready /\ auto THEN Append(intents, "request") ELSE intents
    BY <1>3 DEF TileCheck, StartsVPN, TypeOK
  <2>2. latest' + current' + after' > 0 => latest + current + after > 0
    BY <1>1, <1>3 DEF TileCheck
  <2>3. BeforePrefs' /\ SwitchesOn' /\ RunsOn'
    BY <1>3, <2>2, CalmElsewhere DEF TileCheck, Calm, BeforePrefs
  <2>4. NoStop'
    BY <1>3, <2>1 DEF TileCheck, Calm, NoStop
  <2>5. Wished'
    BY <1>3 DEF TileCheck, Calm, Wished, Heard
  <2>6. OnItsWay'
    <3>1. SUFFICES ASSUME ready, auto
                   PROVE  \E i \in 1..Len(intents') : intents'[i] = "request"
      BY <1>3 DEF TileCheck, OnItsWay
    <3>2. Len(intents') = Len(intents) + 1 /\ intents'[Len(intents) + 1] = "request"
      BY <2>1, <3>1
    <3> QED
      BY <2>1, <3>2
  <2> QED
    BY <2>3, <2>4, <2>5, <2>6 DEF Calm
<1>4. CASE VPNRequested \/ Disconnect \/ VPNClosed
  <2>1. VPNRequested /\ main = "request" /\ main' = "check"
    BY <1>1, <1>4 DEF VPNRequested, Disconnect, VPNClosed, Calm, NoStop
  <2>2. BeforePrefs' /\ SwitchesOn' /\ RunsOn'
    BY <2>1, CalmElsewhere DEF VPNRequested, Calm, BeforePrefs
  <2>3. NoStop' /\ Wished' /\ OnItsWay'
    BY <2>1 DEF VPNRequested, Calm, NoStop, Wished, OnItsWay, Heard
  <2> QED
    BY <2>2, <2>3 DEF Calm
<1>5. CASE DNSConfigChanged
  <2>1. BeforePrefs' /\ SwitchesOn' /\ RunsOn'
    BY <1>5, CalmElsewhere DEF DNSConfigChanged, Calm, BeforePrefs
  <2>2. UNCHANGED connects /\ loop = "select"
    BY <1>5 DEF DNSConfigChanged, Other
  <2>3. NoStop' /\ Wished' /\ OnItsWay'
    BY <1>5, <2>2 DEF DNSConfigChanged, Calm, NoStop, Wished, OnItsWay, Heard
  <2> QED
    BY <2>1, <2>3 DEF Calm
<1> QED
  BY <1>2, <1>3, <1>4, <1>5, CalmNotification, CalmEvent DEF Loop

\* IPNService and the workers pass the wish on.
LEMMA CalmAndroid == ASSUME TypeOK, TypeOK', asked = {}, Calm, Android PROVE Calm'
<1>1. /\ intents \in Seq({"request", "stop", "always"}) /\ Len(intents) \in Nat
      /\ pending \in [Event -> Nat] /\ workers \in [{"start", "stop"} -> Nat]
      /\ Toggle(TRUE, None) \in Event /\ Toggle(TRUE, None).kind = "connect"
  <2>1. Toggle(TRUE, None) \in Event /\ Toggle(TRUE, None).kind = "connect"
    BY DEF Toggle, Event
  <2>2. /\ intents \in Seq({"request", "stop", "always"})
        /\ pending \in [Event -> Nat] /\ workers \in [{"start", "stop"} -> Nat]
    BY DEF TypeOK
  <2>3. Len(intents) \in Nat
    BY <2>2
  <2> QED
    BY <2>1, <2>2, <2>3
<1>2. CASE OnStartCommand
  <2>1. /\ intents # <<>> /\ Head(intents) = intents[1] /\ 1 \in 1..Len(intents)
        /\ intents' = Tail(intents) /\ Len(intents') = Len(intents) - 1
        /\ \A i \in 1..Len(intents') : i + 1 \in 1..Len(intents) /\ intents'[i] = intents[i + 1]
    BY <1>1, <1>2 DEF OnStartCommand
  <2>2. Head(intents) = "request"
    BY <2>1 DEF Calm, NoStop
  <2>3. auto' = auto /\ main' = "request" /\ workers' = workers
    BY <1>2, <2>2 DEF OnStartCommand, StopsAuto, Waits, TypeOK
  <2>4. BeforePrefs' /\ SwitchesOn' /\ RunsOn'
    BY <1>2, CalmElsewhere DEF OnStartCommand, Calm, BeforePrefs
  <2>5. NoStop' /\ Wished' /\ OnItsWay'
    BY <1>2, <2>1, <2>3 DEF OnStartCommand, Calm, NoStop, Wished, OnItsWay, Heard
  <2> QED
    BY <2>4, <2>5 DEF Calm
<1>3. CASE AfterRequest
  <2> DEFINE c == Toggle(TRUE, None)
  <2>1. main = "check" /\ main' = "idle"
    BY <1>3 DEF AfterRequest, Calm, NoStop
  <2>2. pending' = IF ready /\ auto THEN [pending EXCEPT ![c] = @ + 1] ELSE pending
    BY <1>3, <2>1 DEF AfterRequest, MayConnect, RequestBackend
  <2>3. c \in Event /\ c.kind = "connect"
    BY <1>1
  <2> HIDE DEF c
  <2>4. ready => prefs # None
    BY DEF Calm, BeforePrefs
  <2>5. \A f \in Event : pending'[f] = 0 \/ prefs # None
    BY <1>1, <2>2, <2>4 DEF Calm, BeforePrefs
  <2>6. BeforePrefs' /\ SwitchesOn' /\ RunsOn'
    BY <1>3, <2>5, CalmElsewhere DEF AfterRequest
  <2>7. NoStop'
    <3>1. \A f \in Event : pending'[f] > 0 => f.kind = "connect"
      BY <1>1, <2>2, <2>3 DEF Calm, NoStop
    <3> QED
      BY <1>3, <2>1, <3>1 DEF AfterRequest, Calm, NoStop
  <2>8. Heard => Heard'
    <3>1. \A f \in Event : pending[f] > 0 => pending'[f] > 0
      BY <1>1, <2>2, <2>3
    <3> QED
      BY <1>3, <3>1 DEF AfterRequest, Heard
  <2>9. ready /\ auto => Heard'
    <3>1. ASSUME ready, auto PROVE pending'[c] > 0
      BY <1>1, <2>2, <2>3, <3>1
    <3> QED
      BY <2>3, <3>1 DEF Heard
  <2>10. Wished' /\ OnItsWay'
    BY <1>3, <2>8, <2>9 DEF AfterRequest, Calm, Wished, OnItsWay
  <2> QED
    BY <2>6, <2>7, <2>10 DEF Calm
<1>4. CASE StartVPNWorker
  <2>1. BeforePrefs' /\ SwitchesOn' /\ RunsOn'
    BY <1>4, CalmElsewhere DEF StartVPNWorker, Calm, BeforePrefs
  <2>2. /\ auto' = TRUE /\ starting' > 0
        /\ workers'["stop"] = workers["stop"]
    BY <1>1, <1>4 DEF StartVPNWorker, TypeOK
  <2>3. NoStop' /\ Wished' /\ OnItsWay'
    BY <1>4, <2>2 DEF StartVPNWorker, Calm, NoStop, Wished, OnItsWay, Heard
  <2> QED
    BY <2>1, <2>3 DEF Calm
<1>5. CASE StartService
  <2>1. BeforePrefs' /\ SwitchesOn' /\ RunsOn'
    BY <1>5, CalmElsewhere DEF StartService, Calm, BeforePrefs
  <2>2. /\ intents' = Append(intents, "request") /\ Len(intents') = Len(intents) + 1
        /\ intents'[Len(intents) + 1] = "request"
        /\ \A i \in 1..Len(intents) : intents'[i] = intents[i]
    BY <1>1, <1>5 DEF StartService
  <2>3. \E i \in 1..Len(intents') : intents'[i] = "request"
    BY <1>1, <2>2
  <2>4. NoStop' /\ Wished' /\ OnItsWay'
    BY <1>1, <1>5, <2>2, <2>3 DEF StartService, Calm, NoStop, Wished, OnItsWay, Heard
  <2> QED
    BY <2>1, <2>4 DEF Calm
<1>6. ~StopVPNWorker
  BY DEF StopVPNWorker, Calm, NoStop
<1> QED
  BY <1>2, <1>3, <1>4, <1>5, <1>6 DEF Android

\* The inputs that ask for nothing but a connect
LEMMA CalmInputs ==
  ASSUME TypeOK, TypeOK', Calm, Inputs, asked' = {} PROVE Calm'
<1>1. pending \in [Event -> Nat] /\ workers \in [{"start", "stop"} -> Nat]
  BY DEF TypeOK
<1>2. ASSUME NEW want \in BOOLEAN, UIToggle(want) PROVE Calm'
  <2>1. PICK exit \in {None, stored} \ {NoExit} :
          /\ RequestBackend(Toggle(want, exit))
          /\ IF want THEN ToConnect({}) ELSE Other({"disconnect"})
    BY <1>2 DEF UIToggle
  <2>2. want
    BY <2>1 DEF Other
  <2> DEFINE c == Toggle(want, exit)
  <2>3. c \in Event /\ c.kind = "connect"
    BY <2>1, <2>2 DEF Toggle, Event, TypeOK
  <2>4. pending' = [pending EXCEPT ![c] = @ + 1]
    BY <2>1 DEF RequestBackend
  <2> HIDE DEF c
  <2>5. /\ \A f \in Event : pending'[f] > 0 => f.kind = "connect"
        /\ pending'[c] > 0 /\ prefs # None
    BY <1>1, <1>2, <2>3, <2>4 DEF UIToggle, Calm, NoStop
  <2>6. BeforePrefs' /\ SwitchesOn' /\ RunsOn'
    BY <1>2, <2>5, CalmElsewhere DEF UIToggle
  <2>7. NoStop'
    BY <1>2, <2>5 DEF UIToggle, Calm, NoStop
  <2>8. Heard'
    BY <2>3, <2>5 DEF Heard
  <2> QED
    BY <2>6, <2>7, <2>8 DEF Calm, Wished, OnItsWay
<1>3. ASSUME NEW exit \in Exit, UIExit(exit) PROVE FALSE
  BY <1>3 DEF UIExit, Other
<1>4. ASSUME workers' = [workers EXCEPT !["start"] = @ + 1], ToConnect({}),
             UNCHANGED <<loopVars, pending, setterVars, lbVars, flagVars, intents, main,
                         starting, closed>>
      PROVE  Calm'
  <2>1. workers'["start"] > 0 /\ workers'["stop"] = workers["stop"]
    BY <1>1, <1>4
  <2>2. BeforePrefs' /\ SwitchesOn' /\ RunsOn'
    BY <1>4, CalmElsewhere DEF Calm, BeforePrefs
  <2>3. NoStop' /\ Wished' /\ OnItsWay'
    BY <1>4, <2>1 DEF Calm, NoStop, Wished, OnItsWay, Heard
  <2> QED
    BY <2>2, <2>3 DEF Calm
<1>5. CASE TileClick
  <2>1. ~active
    BY <1>5 DEF TileClick, Other
  <2> QED
    BY <1>4, <1>5, <2>1 DEF TileClick
<1>6. ASSUME NEW w \in {"start", "stop"}, Broadcast(w) PROVE Calm'
  <2>1. w = "start"
    BY <1>6 DEF Broadcast, Other
  <2> QED
    BY <1>4, <1>6, <2>1 DEF Broadcast
<1>7. ~AlwaysOn /\ ~Revoke
  BY DEF AlwaysOn, Revoke, ToConnect, Other
<1> QED
  BY <1>2, <1>3, <1>5, <1>6, <1>7 DEF Inputs

LEMMA CalmInit == ASSUME Init PROVE Calm
<1>1. Len(notes) = 0 /\ Len(intents) = 0 /\ 1..0 = {} /\ 2..0 = {}
  BY DEF Init
<1>2. NoStop /\ BeforePrefs
  BY <1>1 DEF Init, NoStop, BeforePrefs
<1>3. SwitchesOn /\ RunsOn
  BY <1>1 DEF Init, SwitchesOn, RunsOn
<1>4. Wished /\ OnItsWay
  BY DEF Init, Wished, OnItsWay
<1> QED
  BY <1>2, <1>3, <1>4 DEF Calm

\* What has been asked for is not forgotten.
LEMMA AskedGrows == ASSUME [Next]_vars PROVE asked \subseteq asked'
<1>1. CASE UNCHANGED vars \/ System
  BY <1>1 DEF vars, System, Setter, LoadPrefs, SetCurrent, SetFrozen, Loop, Notification,
              BackendEvent, TileReady, TileCheck, VPNRequested, Disconnect, VPNClosed,
              Android, OnStartCommand, AfterRequest, StartVPNWorker, StartService,
              StopVPNWorker, Start, ChangeState
<1>2. CASE NetMap \/ DNSConfigChanged
  BY <1>2 DEF NetMap, DNSConfigChanged, Other
<1>3. CASE Inputs
  BY <1>3 DEF Inputs, UIToggle, UIExit, TileClick, Broadcast, AlwaysOn, Revoke, ToConnect, Other
<1> QED
  BY <1>1, <1>2, <1>3 DEF Next

LEMMA StepWish == IInv /\ WishInv /\ [Next]_vars => WishInv'
<1> SUFFICES ASSUME IInv, WishInv, [Next]_vars, asked' = {} PROVE Calm'
  BY DEF WishInv
<1>1. TypeOK /\ TypeOK' /\ PrefsInv
  BY StepInv DEF IInv
<1>2. asked = {} /\ Calm
  BY AskedGrows DEF WishInv
<1>3. CASE UNCHANGED vars
  BY <1>2, <1>3 DEF vars, Calm, NoStop, BeforePrefs, SwitchesOn, RunsOn, Wished, OnItsWay, Heard
<1>4. CASE Next
  BY <1>1, <1>2, <1>4, CalmSetter, CalmBackend, CalmLoop, CalmAndroid, CalmInputs
  DEF Next, System
<1> QED
  BY <1>3, <1>4

\* When nothing is under way the wish has become the preference of LocalBackend.
LEMMA QuietGranted ==
  ASSUME IInv, WishInv, Quiet, connects > 0, asked = {} PROVE lb.want
<1>1. prefs = lb /\ ready
  BY QuietAgrees
<1>2. \A e \in Event : ~(pending[e] > 0)
  BY DEF Quiet
<1>3. Len(intents) = 0
  BY DEF Quiet
<1>4. Heard
  BY <1>1, <1>3 DEF Quiet, WishInv, Calm, Wished, OnItsWay
<1> QED
  BY <1>1, <1>2, <1>4 DEF Heard

-----------------------------------------------------------------------------
\* Whatever the user, Android and the network do, and in whatever order the goroutines
\* run: once nothing is under way, the main loop, LocalBackend and the tile agree, and
\* they agree on being connected if that is all that anybody asked for.
THEOREM QuietAgreement == Spec => []QuietAgree
<1>1. Init => IInv /\ WishInv
  BY InitInv, CalmInit DEF WishInv
<1>2. IInv /\ WishInv /\ [Next]_vars => (IInv /\ WishInv)'
  BY StepInv, StepWish
<1>3. IInv /\ WishInv => QuietAgree
  BY QuietAgrees, QuietGranted DEF QuietAgree
<1> QED
  BY <1>1, <1>2, <1>3, PTL DEF Spec
=============================================================================
