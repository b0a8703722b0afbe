------------------------------- MODULE MCLive -------------------------------
(***************************************************************************)
(* The instances for TLC of the parts of the program whose liveness is     *)
(* checked and which share no state.  Every behaviour is one of a single part *)
(* (part says of which), with the fairness of that part; the others stay as *)
(* they start, where their properties hold.                                *)
(***************************************************************************)
EXTENDS VPNStart

VARIABLES
  part,
  box, todo, drained, value, handled, sent, requests, ui, seen, asked,
  spool, arrived, announced, fileNotes, waitingFiles, processingFiles,
  storageGranted, permitted, worker, copies, told, litter, failed, faults

boxesVars == <<box, todo, drained, value, handled, sent, requests, ui, seen, asked>>
filesVars == <<spool, arrived, announced, fileNotes, waitingFiles, processingFiles,
               storageGranted, permitted, worker, copies, told, litter, failed, faults>>
liveVars  == <<part, boxesVars, filesVars, startVars>>

\* The channels in three ways: with every kind of event; with a second report behind
\* one that is not waited for; and with a notification after setURL has hung the UI.
Bound == [events  |-> [kinds |-> {"exitNode", "login", "licenses"}, reports |-> 1, handled |-> 1],
          reports |-> [kinds |-> {}, reports |-> 2, handled |-> 2],
          urls    |-> [kinds |-> {"licenses"}, reports |-> 0, handled |-> 2]]
BoxesPart == DOMAIN Bound

Boxes(p) == INSTANCE Mailboxes WITH
  Events <- Bound[p].kinds, MaxReports <- Bound[p].reports, MaxEvents <- Bound[p].handled

Files == INSTANCE FileReceive WITH File <- {"f1", "f2"}, Worker <- {"w1", "w2"}, MaxFaults <- 1

\* Where a part that does not move has several initial states one is enough.
LiveInit ==
  /\ part \in BoxesPart \cup {"files", "vpn"}
  /\ Boxes("events")!Init /\ Files!ReceiveInit /\ StartInit
  /\ part # "files" => permitted
  /\ part # "vpn" => consent

Others ==
  /\ UNCHANGED part
  /\ part \notin BoxesPart => UNCHANGED boxesVars
  /\ part # "files" => UNCHANGED filesVars
  /\ part # "vpn" => UNCHANGED startVars

LiveNext ==
  \/ (\E p \in BoxesPart : part = p /\ Boxes(p)!Next) /\ Others
  \/ part = "files" /\ Files!ReceiveNext /\ Others
  \/ part = "vpn" /\ StartNext /\ Others

\* The fairness of each part, as its module has it
LiveFairness ==
  /\ SF_boxesVars(\E p \in BoxesPart : part = p /\ Boxes(p)!Loop)
  /\ SF_boxesVars(\E p \in BoxesPart : part = p /\ Boxes(p)!UITakesLoops)
  /\ WF_boxesVars(\E p \in BoxesPart : part = p /\ Boxes(p)!LoopTakes)
  /\ WF_boxesVars(\E p \in BoxesPart : part = p /\ Boxes(p)!UITakes)
  /\ WF_boxesVars(\E p \in BoxesPart : part = p /\ Boxes(p)!UIGoesOn)
  /\ WF_filesVars(part = "files" /\ Files!NotifyWaiting /\ ~announced)
  /\ WF_filesVars(part = "files" /\ Files!MainNotification)
  /\ WF_filesVars(part = "files" /\ \E w \in {"w1", "w2"} : Files!FilesDone(w))
  /\ \A w \in {"w1", "w2"} : WF_filesVars(part = "files" /\ Files!Step(w))
  /\ WF_startVars(part = "vpn" /\ (LoopDisconnect \/ LoopStopped))
  /\ WF_startVars(part = "vpn" /\ SetPrefs) /\ WF_startVars(part = "vpn" /\ UI)
  /\ WF_startVars(part = "vpn" /\ MainThread) /\ WF_startVars(part = "vpn" /\ User)

LiveSpec == LiveInit /\ [][LiveNext]_liveVars /\ LiveFairness

-----------------------------------------------------------------------------
(* The properties of the parts, by their names, but for those of VPNStart  *)

\* The main loop gets back to its select, with three exceptions; see Mailboxes.
LoopGoesOn == Boxes("events")!LoopGoesOn
\* The UI catches up with what the main loop sent last; see Mailboxes.
ShowsLatest == Boxes("events")!ShowsLatest
\* Every received file is downloaded, or fails to be; see FileReceive.
Delivered == Files!Delivered
=============================================================================
