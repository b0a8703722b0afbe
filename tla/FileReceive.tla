----------------------------- MODULE FileReceive -----------------------------
(***************************************************************************)
(* Taildrop, the receiving side: the files that wait in LocalBackend's     *)
(* spool, the part of the main loop (runBackend) that starts a goroutine   *)
(* for them, and that goroutine (processWaitingFiles, downloadFile), which *)
(* copies each to Android's media store and then deletes it.               *)
(*                                                                         *)
(* Every step of a download may fail, and Android may kill the process     *)
(* between any two.  Files are not divided: io.Copy copies all or fails.   *)
(***************************************************************************)
EXTENDS Naturals, Sequences

CONSTANTS
  File,       \* the files that peers send, each once
  Worker,     \* the goroutines of processFiles: two, to tell a second one
  MaxFaults   \* bound on the faults, the process's deaths among them

VARIABLES
  spool,           \* the files that wait in LocalBackend
  arrived,         \* the files that have come
  announced,       \* has LocalBackend sent a notification since the last file?
  fileNotes,       \* n.FilesWaiting # nil of the notifications on their way
  waitingFiles,    \* the variables of runBackend
  processingFiles,
  storageGranted,  \* the number of messages in onWriteStorageGranted
  permitted,       \* does the app have the permission to write files?
  worker,          \* each goroutine: where it is, what it listed, its file
  copies,          \* how often each file was copied
  told,            \* the files of which Android has notified the user
  litter,          \* incomplete entries left in the media store
  failed,          \* the files of which some attempt failed
  faults           \* the number of faults so far

flagVars  == <<fileNotes, waitingFiles, processingFiles, storageGranted>>
mediaVars == <<copies, told, litter, failed>>
receiveVars ==
  <<spool, arrived, announced, flagVars, permitted, worker, mediaVars, faults>>

Idle == [pc |-> "idle", todo |-> {}, cur |-> {}]

ReceiveTypeOK ==
  /\ spool \subseteq File /\ arrived \subseteq File /\ litter \subseteq File
  /\ failed \subseteq File /\ told \subseteq File /\ copies \in [File -> Nat] /\ faults \in Nat
  /\ announced \in BOOLEAN /\ permitted \in BOOLEAN /\ storageGranted \in {0, 1}
  /\ waitingFiles \in BOOLEAN /\ processingFiles \in BOOLEAN
  /\ fileNotes \in Seq(BOOLEAN)
  /\ worker \in [Worker -> [pc : {"idle", "list", "next", "copy", "delete", "done"},
                            todo : SUBSET File, cur : SUBSET File]]

ReceiveInit ==
  /\ spool = {} /\ arrived = {} /\ announced = TRUE /\ fileNotes = <<>>
  /\ waitingFiles = FALSE /\ processingFiles = FALSE
  /\ storageGranted = 0 /\ permitted \in BOOLEAN
  /\ worker = [w \in Worker |-> Idle]
  /\ copies = [f \in File |-> 0] /\ told = {} /\ litter = {} /\ failed = {} /\ faults = 0

-----------------------------------------------------------------------------
(* LocalBackend and Android                                                *)

Arrive(f) ==
  /\ f \notin arrived
  /\ arrived' = arrived \cup {f} /\ spool' = spool \cup {f}
  /\ announced' = FALSE
  /\ UNCHANGED <<flagVars, permitted, worker, mediaVars, faults>>

\* Every notification says whether files wait.  One waits in the channel while
\* the callback blocks with the next.
NotifyWaiting ==
  /\ Len(fileNotes) < 2
  /\ fileNotes' = Append(fileNotes, spool # {})
  /\ announced' = TRUE
  /\ UNCHANGED <<spool, arrived, waitingFiles, processingFiles, storageGranted,
                 permitted, worker, mediaVars, faults>>

\* The user grants the permission, which the callback passes on.
Grant ==
  /\ ~permitted /\ permitted' = TRUE
  /\ storageGranted' = 1
  /\ UNCHANGED <<spool, arrived, announced, fileNotes, waitingFiles, processingFiles,
                 worker, mediaVars, faults>>

-----------------------------------------------------------------------------
(* The main loop                                                           *)

StartsAlways(waiting, processing) == waiting
Starts(waiting, processing) == waiting /\ ~processing

\* processFiles, with the flags as the case of the select has left them.
ProcessFiles(waiting, processing, ws) ==
  IF Starts(waiting, processing)
  THEN /\ waitingFiles' = FALSE /\ processingFiles' = TRUE
       /\ LET idle == {w \in Worker : ws[w] = Idle} IN
          idle # {} /\ worker' = [ws EXCEPT ![CHOOSE w \in idle : TRUE].pc = "list"]
  ELSE waitingFiles' = waiting /\ processingFiles' = processing /\ worker' = ws

MainNotification ==
  /\ fileNotes # <<>>
  /\ fileNotes' = Tail(fileNotes)
  /\ ProcessFiles(Head(fileNotes), processingFiles, worker)
  /\ UNCHANGED <<spool, arrived, announced, storageGranted, permitted, mediaVars, faults>>

\* case <-waitingFilesDone: files may have come while it was at work.
StillWaitingNever == FALSE
StillWaiting == waitingFiles
FilesDone(w) ==
  /\ worker[w].pc = "done"
  /\ ProcessFiles(StillWaiting, FALSE, [worker EXCEPT ![w] = Idle])
  /\ UNCHANGED <<spool, arrived, announced, fileNotes, storageGranted, permitted,
                 mediaVars, faults>>

MainGranted ==
  /\ storageGranted = 1 /\ storageGranted' = 0
  /\ ProcessFiles(waitingFiles, processingFiles, worker)
  /\ UNCHANGED <<spool, arrived, announced, fileNotes, permitted, mediaVars, faults>>

-----------------------------------------------------------------------------
(* The goroutine                                                           *)

Fault == faults < MaxFaults /\ faults' = faults + 1
Goes(w, pc, todo, cur) ==
  worker' = [worker EXCEPT ![w] = [pc |-> pc, todo |-> todo, cur |-> cur]]

\* b.WaitingFiles
List(w) ==
  /\ worker[w].pc = "list"
  /\ \/ Goes(w, "next", spool, {}) /\ UNCHANGED <<failed, faults>>
     \/ Goes(w, "done", {}, {}) /\ Fault /\ failed' = failed \cup spool
  /\ UNCHANGED <<spool, arrived, announced, flagVars, permitted, copies, told, litter>>

\* The next file: OpenFile, insertMedia and openURI, any of which may fail.  The
\* entry that insertMedia has made is deleted then, which may fail, too.
Open(w) ==
  /\ worker[w].pc = "next"
  /\ \E f \in worker[w].todo :
       LET rest == worker[w].todo \ {f} IN
       \/ /\ f \in spool /\ permitted
          /\ Goes(w, "copy", rest, {f})
          /\ UNCHANGED <<litter, failed, faults>>
       \/ /\ IF f \in spool /\ permitted THEN Fault ELSE UNCHANGED faults
          /\ litter' \in IF f \in spool THEN {litter, litter \cup {f}} ELSE {litter}
          /\ failed' = failed \cup {f} /\ Goes(w, "next", rest, {})
  /\ UNCHANGED <<spool, arrived, announced, flagVars, permitted, copies, told>>

\* io.Copy and Close, followed by the user's notification, of which an error is
\* logged: the file is deleted all the same.
Copy(w) ==
  /\ worker[w].pc = "copy"
  /\ \E f \in worker[w].cur :
       \/ /\ copies' = [copies EXCEPT ![f] = @ + 1]
          /\ \/ told' = told \cup {f} /\ UNCHANGED <<failed, faults>>
             \/ Fault /\ failed' = failed \cup {f} /\ UNCHANGED told
          /\ Goes(w, "delete", worker[w].todo, {f})
          /\ UNCHANGED litter
       \/ /\ Fault
          /\ litter' \in {litter, litter \cup {f}}
          /\ failed' = failed \cup {f} /\ Goes(w, "next", worker[w].todo, {})
          /\ UNCHANGED <<copies, told>>
  /\ UNCHANGED <<spool, arrived, announced, flagVars, permitted>>

\* b.DeleteFile
Delete(w) ==
  /\ worker[w].pc = "delete"
  /\ \/ spool' = spool \ worker[w].cur /\ UNCHANGED <<failed, faults>>
     \/ Fault /\ failed' = failed \cup worker[w].cur /\ UNCHANGED spool
  /\ Goes(w, "next", worker[w].todo, {})
  /\ UNCHANGED <<arrived, announced, flagVars, permitted, copies, told, litter>>

\* Every file was seen to.
End(w) ==
  /\ worker[w].pc = "next" /\ worker[w].todo = {}
  /\ Goes(w, "done", {}, {})
  /\ UNCHANGED <<spool, arrived, announced, flagVars, permitted, mediaVars, faults>>

\* Android kills the process; the next one starts with nothing but the spool, and
\* LocalBackend notifies it.
Crash ==
  /\ Fault
  /\ litter' = litter \cup UNION {worker[w].cur : w \in {v \in Worker : worker[v].pc = "copy"}}
  /\ worker' = [w \in Worker |-> Idle]
  /\ waitingFiles' = FALSE /\ processingFiles' = FALSE
  /\ storageGranted' = 0 /\ fileNotes' = <<>> /\ announced' = FALSE
  /\ UNCHANGED <<spool, arrived, permitted, copies, told, failed>>

-----------------------------------------------------------------------------
Main == MainNotification \/ MainGranted
Step(w) == List(w) \/ Open(w) \/ Copy(w) \/ Delete(w) \/ End(w)

ReceiveNext ==
  \/ \E f \in File : Arrive(f)
  \/ NotifyWaiting \/ Grant \/ Main \/ Crash
  \/ \E w \in Worker : FilesDone(w) \/ Step(w)

ReceiveSpec == ReceiveInit /\ [][ReceiveNext]_receiveVars

\* LocalBackend notifies after a file has come, and the goroutines go on.
ReceiveFairness ==
  /\ WF_receiveVars(NotifyWaiting /\ ~announced)
  /\ WF_receiveVars(MainNotification) /\ WF_receiveVars(\E w \in Worker : FilesDone(w))
  /\ \A w \in Worker : WF_receiveVars(Step(w))

ReceiveFairSpec == ReceiveSpec /\ ReceiveFairness

-----------------------------------------------------------------------------
(* Properties                                                              *)

\* A file that waits will be seen to: a notification will say so, or a goroutine is at
\* work that has still to come to it, or will be followed by another one.
Tended(f) ==
  \/ ~announced \/ \E i \in 1..Len(fileNotes) : fileNotes[i]
  \/ \E w \in Worker :
       /\ worker[w].pc # "idle"
       /\ \/ waitingFiles \/ worker[w].pc = "list"
          \/ f \in worker[w].todo \cup worker[w].cur

\* A file leaves the spool only when the user has a whole copy, and has been told
\* of it or an attempt has failed; it is copied once, or once more for each failure
\* in between; and incomplete entries stay only after one.  Nothing but two flags
\* of the main loop keeps a second goroutine from downloading and deleting the same
\* files, and these flags must not make it forget a file that comes while a
\* goroutine is at work.
NothingLost ==
  /\ \A f \in arrived \ spool : copies[f] >= 1 /\ f \in told \cup failed
  /\ \A f \in File : copies[f] <= 1 + faults
  /\ litter \subseteq failed \/ faults > 0
  /\ \A f \in spool \ failed : Tended(f)

\* Every file that waits is downloaded, or fails to be, although notifications
\* come while an earlier download is under way, and the process may die.
Delivered == \A f \in File : f \in spool ~> f \notin spool \/ f \in failed
=============================================================================
