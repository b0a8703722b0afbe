------------------------------ MODULE Mailboxes ------------------------------
(***************************************************************************)
(* The channels between the UI goroutine (runUI, processUIEvents) and the  *)
(* main loop goroutine (runBackend) of cmd/tailscale/main.go.              *)
(*                                                                         *)
(* A mailbox is a channel of capacity 1.  The main loop writes the latest  *)
(* value in three steps of its own: it takes what is there, if anything,   *)
(* and sends.  The send blocks when somebody filled the mailbox between    *)
(* the two.  It sends lists of file targets and bug reports without taking *)
(* the old one first.  The UI sends its events through goroutines that     *)
(* wait until the main loop takes them, in any order.                      *)
(***************************************************************************)
EXTENDS Naturals, Sequences

CONSTANTS
  Events,      \* the kinds of UI events that occur
  MaxReports,  \* bound on the bug reports that the user asks for
  MaxEvents    \* bound on the events that the main loop handles

Kind == {"exitNode", "login", "licenses"}

ASSUME EventsAssumption == Events \subseteq Kind
ASSUME BoundAssumption == MaxReports \in Nat /\ MaxEvents \in Nat

Box == {"notifications", "prefs", "netStates", "browseURLs", "targetsLoaded", "bugReport"}
\* The mailboxes that the main loop empties before it sends.
Overwritten == {"prefs", "netStates", "browseURLs"}
\* The mailboxes of the UI's select.
Shown == Overwritten \cup {"targetsLoaded"}
\* Those that only the main loop sends to, values that it numbers by its events
LoopOnly == Shown \ {"browseURLs"}

VARIABLES
  box,       \* the content of each channel, 0 when it is empty
  todo,      \* the channels that the main loop has still to send to
  drained,   \* 1 when it has emptied the first of them
  value,     \* the value it sends: the number of its event, or of the report
  handled,   \* the number of events that the main loop has taken
  sent,      \* the last value that the main loop sent to each channel
  requests,  \* the goroutines of requestBackend: <<kind, number>>
  ui,        \* what the UI goroutine does: "select", "url" or "report"
  seen,      \* the last value that the UI took from each channel
  asked      \* the number of the last bug report the user asked for

loopVars == <<todo, drained, value, handled, sent>>
uiVars   == <<ui, seen, asked>>
vars     == <<box, requests, loopVars, uiVars>>

Request == ((Events \ {"licenses"}) \X {0}) \cup ({"report"} \X (1..MaxReports))

TypeOK ==
  /\ box \in [Box -> Nat] /\ sent \in [Box -> Nat] /\ seen \in [Box -> Nat]
  /\ todo \in Seq(Box) /\ drained \in 0..1
  /\ value \in Nat /\ handled \in 0..MaxEvents
  /\ requests \subseteq Request
  /\ drained = 1 => todo # <<>> /\ Head(todo) \in Overwritten
  /\ ui \in {"select", "url", "report"} /\ asked \in 0..MaxReports

Init ==
  /\ box = [b \in Box |-> 0] /\ sent = box /\ seen = box
  /\ todo = <<>> /\ drained = 0 /\ value = 0 /\ handled = 0
  /\ requests = {} /\ ui = "select" /\ asked = 0

-----------------------------------------------------------------------------
(* LocalBackend: its callback blocks while a notification is waiting.      *)

Notify ==
  /\ box["notifications"] = 0
  /\ box' = [box EXCEPT !["notifications"] = 1]
  /\ UNCHANGED <<requests, loopVars, uiVars>>

-----------------------------------------------------------------------------
(* The main loop                                                           *)

\* One case of the select: it will send v to the channels of list, in order.
Handle(list, v) ==
  /\ todo = <<>> /\ handled < MaxEvents
  /\ handled' = handled + 1
  /\ todo' = list /\ value' = v /\ drained' = 0

If(part, b) == IF part THEN <<b>> ELSE <<>>

\* case n := <-notifications: what is sent depends on the parts of n; the file
\* targets always are.
LoopNotification ==
  /\ box["notifications"] # 0
  /\ \E prefs, state, url, netMap \in BOOLEAN :
       Handle(If(prefs, "prefs") \o If(state, "netStates") \o If(url, "browseURLs")
              \o If(netMap, "netStates") \o <<"targetsLoaded">>, handled + 1)
  /\ box' = [box EXCEPT !["notifications"] = 0]
  /\ UNCHANGED <<sent, requests, uiVars>>

\* case e := <-backendEvents, for the events that use a channel.  BugEvent calls
\* GetBugReportID, RouteAllEvent calls notify, and SetLoginServerEvent calls
\* SetPrefs, which runs the callback of LocalBackend on this very goroutine.
Answer(r) ==
  CASE r[1] = "report"   -> Handle(<<"bugReport">>, r[2])
    [] r[1] = "exitNode" -> Handle(<<"netStates">>, handled + 1)
    [] r[1] = "login"    -> Handle(<<"notifications">>, handled + 1)

LoopRequest(r) ==
  /\ r \in requests
  /\ requests' = requests \ {r}
  /\ Answer(r)
  /\ UNCHANGED <<box, sent, uiVars>>

\* case <-onDNSConfigChanged
LoopNetworkChanged ==
  /\ Handle(<<"netStates">>, handled + 1)
  /\ UNCHANGED <<box, sent, requests, uiVars>>

\* select { case <-ch: default: } of notify, setPrefs and setURL
DrainNothing(b) == UNCHANGED box
Drain(b) == box' = [box EXCEPT ![b] = 0]

LoopDrain ==
  /\ todo # <<>> /\ Head(todo) \in Overwritten /\ drained = 0
  /\ drained' = 1
  /\ Drain(Head(todo))
  /\ UNCHANGED <<todo, value, handled, sent, requests, uiVars>>

\* ch <- value; putting it and then emptying the channel would lose it.
PutThenDrain(b) == box[b] = 0 /\ UNCHANGED box
Put(b) == box[b] = 0 /\ box' = [box EXCEPT ![b] = value]

NextBox == todo' = Tail(todo) /\ drained' = 0

\* As a send that gives up when the mailbox is full
LoopOffer ==
  /\ todo # <<>>
  /\ box' = [box EXCEPT ![Head(todo)] = IF @ = 0 THEN value ELSE @]
  /\ sent' = [sent EXCEPT ![Head(todo)] = value]
  /\ NextBox
  /\ UNCHANGED <<value, handled, requests, uiVars>>

\* The send, which waits for an empty channel
LoopPut ==
  /\ todo # <<>>
  /\ Head(todo) \in Overwritten => drained = 1
  /\ Put(Head(todo))
  /\ sent' = [sent EXCEPT ![Head(todo)] = value]
  /\ NextBox
  /\ UNCHANGED <<value, handled, requests, uiVars>>

-----------------------------------------------------------------------------
(* The UI                                                                  *)

\* The cases of the select of runUI that receive from the main loop.
UITake(b) ==
  /\ ui = "select" /\ b \in Shown /\ box[b] # 0
  /\ seen' = [seen EXCEPT ![b] = box[b]]
  /\ box' = [box EXCEPT ![b] = 0]
  /\ UNCHANGED <<requests, loopVars, ui, asked>>

\* An event whose handling uses requestBackend
UIRequest(e) ==
  /\ ui = "select" /\ e \in Events \ {"licenses"} /\ <<e, 0>> \notin requests
  /\ requests' = requests \cup {<<e, 0>>}
  /\ UNCHANGED <<box, loopVars, uiVars>>

\* OSSLicensesEvent: setURL on the UI goroutine takes what is in the mailbox...
UILicenses ==
  /\ ui = "select" /\ "licenses" \in Events
  /\ ui' = "url"
  /\ box' = [box EXCEPT !["browseURLs"] = 0]
  /\ UNCHANGED <<requests, loopVars, seen, asked>>

\* ... and sends the URL of the licenses.
UIPutURL ==
  /\ ui = "url" /\ box["browseURLs"] = 0
  /\ ui' = "select"
  /\ box' = [box EXCEPT !["browseURLs"] = MaxEvents + 1]
  /\ UNCHANGED <<requests, loopVars, seen, asked>>

\* BugEvent: drops an old report and asks for a new one...
UIReport ==
  /\ ui = "select" /\ asked < MaxReports
  /\ box' = [box EXCEPT !["bugReport"] = 0]
  /\ asked' = asked + 1
  /\ requests' = requests \cup {<<"report", asked'>>}
  /\ ui' = "report"
  /\ UNCHANGED <<loopVars, seen>>

\* ... then waits for it ...
UIReceive ==
  /\ ui = "report" /\ box["bugReport"] # 0
  /\ seen' = [seen EXCEPT !["bugReport"] = box["bugReport"]]
  /\ box' = [box EXCEPT !["bugReport"] = 0]
  /\ ui' = "select"
  /\ UNCHANGED <<requests, loopVars, asked>>

\* ... for two seconds, after which it makes one up.
GivesUpNever == FALSE
GivesUp == ui = "report"
UITimeout ==
  /\ GivesUp
  /\ ui' = "select"
  /\ UNCHANGED <<box, requests, loopVars, seen, asked>>

-----------------------------------------------------------------------------
Loop == LoopDrain \/ LoopPut
LoopTakes == LoopNotification \/ \E r \in Request : LoopRequest(r)
UITakes == \E b \in Shown : UITake(b)
UITakesLoops == \E b \in LoopOnly : UITake(b)
UIGoesOn == UIPutURL \/ UIReceive \/ UITimeout

Next ==
  \/ Notify \/ LoopNotification \/ LoopNetworkChanged \/ Loop
  \/ \E r \in Request : LoopRequest(r)
  \/ \E b \in Box : UITake(b)
  \/ \E e \in Kind : UIRequest(e)
  \/ UILicenses \/ UIPutURL \/ UIReport \/ UIReceive \/ UITimeout

Spec == Init /\ [][Next]_vars

\* Each goroutine goes on while it can, and takes some case of its select; which
\* one is left open.  Nobody has to notify or to press a button.  Strong fairness
\* is Go's: a goroutine that waits to send has the place that comes free, and a
\* select that chooses among its ready cases at random does not pass over the main
\* loop's channels for ever, however often a button is pressed.
Fairness ==
  /\ SF_vars(Loop)
  /\ WF_vars(LoopTakes)
  /\ WF_vars(UITakes) /\ SF_vars(UITakesLoops)
  /\ WF_vars(UIGoesOn)

FairSpec == Spec /\ Fairness

-----------------------------------------------------------------------------
(* Properties                                                              *)

\* The send that follows the select of notify and setPrefs finds the mailbox empty,
\* whatever the UI did in between, so it never blocks the main loop.  The mailbox
\* browseURLs has a second writer, the UI itself.
NeverBlocks ==
  drained = 1 /\ Head(todo) # "browseURLs" => box[Head(todo)] = 0

\* What was sent last is not lost: the UI has taken it or finds it in the mailbox,
\* where nothing else ever is, unless the main loop is about to send the next value.
LatestKept ==
  \A b \in LoopOnly :
    /\ box[b] \in {0, sent[b]}
    /\ sent[b] \in {seen[b], box[b]} \/ (drained = 1 /\ Head(todo) = b)

\* Overwriting is two steps, between which the UI may take a step of its own;
\* nevertheless it neither blocks nor loses more than what is out of date.
Overwriting == NeverBlocks /\ LatestKept

\* The UI never goes back to an older list or state, although it is told of them
\* through mailboxes that are emptied behind its back, by several cases of the loop.
Register == INSTANCE Latest WITH
  Box  <- LoopOnly,
  sent <- [b \in LoopOnly |-> sent[b]],
  seen <- [b \in LoopOnly |-> seen[b]]
ShowsInOrder == Register!Spec

\* The main loop gets back to its select.  It does not always: see LoopGoesOn.
LoopReturns == todo # <<>> ~> todo = <<>>

\* A bug report nobody waits for any more stands before the next one.
ReportUnclaimed == ui # "report" /\ todo # <<>> /\ Head(todo) = "bugReport" /\ box["bugReport"] # 0
\* The main loop sends to the channel that only it receives from.
OwnChannel == todo # <<>> /\ Head(todo) = "notifications" /\ box["notifications"] # 0
\* The UI sends to the channel that only it receives from.
UIHung == ui = "url" /\ box["browseURLs"] # 0

\* The main loop gets back to its select, even while the UI waits for a bug report
\* and takes nothing from its mailboxes, but in three cases: a report finds in its
\* channel one that was not waited for, the callback of SetLoginServerEvent's
\* SetPrefs finds a notification, or setURL has hung the UI.
LoopGoesOn == todo # <<>> ~> todo = <<>> \/ ReportUnclaimed \/ OwnChannel \/ UIHung

\* The UI catches up with what the main loop sent last, again and again, although
\* later values overwrite earlier ones that the UI has not taken, unless setURL
\* hangs it.
ShowsLatest == \A b \in LoopOnly : []<>(seen[b] = sent[b] \/ UIHung)
=============================================================================
