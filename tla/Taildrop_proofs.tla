--------------------------- MODULE Taildrop_proofs ---------------------------
(***************************************************************************)
(* Proofs about FileReceive: no file that a peer has sent is lost, for any *)
(* number of files, goroutines and faults.  Proofs about FileSend: the     *)
(* share dialog shows the transfer that the user started last, and how it  *)
(* ended, for any number of transfers and chunks.                          *)
(***************************************************************************)
EXTENDS FileReceive, FileSend, TLAPS

-----------------------------------------------------------------------------
(* FileReceive                                                             *)

Place == {"idle", "list", "next", "copy", "delete", "done"}
State == [pc : Place, todo : SUBSET File, cur : SUBSET File]

\* At most one goroutine is at work, and then the flag processingFiles is set.
Single(ws, processing) ==
  /\ \A w \in Worker : ws[w].pc # "idle" => processing
  /\ \A v, w \in Worker : ws[v].pc # "idle" /\ ws[w].pc # "idle" => v = w

\* The file was copied, and the user told of it unless an attempt failed.
Kept(f) == copies[f] >= 1 /\ f \in told \cup failed

\* The file that it copies or deletes still waits in the spool.
Held ==
  \A w \in Worker :
    /\ worker[w].pc \in {"copy", "delete"} => worker[w].cur \subseteq spool
    /\ worker[w].pc = "delete" => \A f \in worker[w].cur : Kept(f)

InDelete(f) == \E w \in Worker : worker[w].pc = "delete" /\ f \in worker[w].cur

\* Between two failures a file is copied only on its way out of the spool.
Counted ==
  /\ spool \subseteq arrived
  /\ \A f \in File :
       /\ f \in arrived \ spool => Kept(f)
       /\ f \notin arrived => copies[f] = 0
       /\ copies[f] <= 1 + faults
       /\ f \in spool => copies[f] <= faults \/ InDelete(f)

Littered == litter \subseteq failed \/ faults > 0

IInv == ReceiveTypeOK /\ Single(worker, processingFiles) /\ Held /\ Counted /\ Littered

-----------------------------------------------------------------------------
\* processFiles starts a goroutine only when none is at work.
LEMMA StartsOne ==
  ASSUME NEW ws \in [Worker -> State], NEW waiting \in BOOLEAN, NEW processing \in BOOLEAN,
         Single(ws, processing), ProcessFiles(waiting, processing, ws)
  PROVE  /\ waitingFiles' \in BOOLEAN /\ processingFiles' \in BOOLEAN
         /\ worker' \in [Worker -> State]
         /\ Single(worker, processingFiles)'
         /\ \A w \in Worker :
              worker'[w].pc \in {"copy", "delete"} \/ ws[w].pc \in {"copy", "delete"}
                => worker'[w] = ws[w]
<1>1. CASE waiting /\ ~processing
  <2> DEFINE x == CHOOSE w \in {v \in Worker : ws[v] = Idle} : TRUE
  <2>1. /\ waitingFiles' = FALSE /\ processingFiles' = TRUE
        /\ {v \in Worker : ws[v] = Idle} # {} /\ worker' = [ws EXCEPT ![x].pc = "list"]
    BY <1>1 DEF ProcessFiles, Starts
  <2>2. x \in Worker /\ ws[x] = Idle
    BY <2>1
  <2> HIDE DEF x
  <2>3. worker' = [ws EXCEPT ![x] = [Idle EXCEPT !.pc = "list"]]
    BY <2>1, <2>2
  <2>4. [Idle EXCEPT !.pc = "list"] = [pc |-> "list", todo |-> {}, cur |-> {}]
    BY DEF Idle
  <2>5. [pc |-> "list", todo |-> {}, cur |-> {}] \in State
    BY DEF State, Place
  <2>6. worker' \in [Worker -> State]
    BY <2>2, <2>3, <2>4, <2>5
  <2>7. /\ worker'[x].pc = "list" /\ ws[x].pc = "idle"
        /\ \A w \in Worker \ {x} : worker'[w] = ws[w]
    BY <2>2, <2>3, <2>4 DEF Idle
  <2>8. \A w \in Worker \ {x} : worker'[w].pc = "idle"
    BY <1>1, <2>7 DEF Single
  <2>9. Single(worker, processingFiles)'
    BY <2>1, <2>8 DEF Single
  <2> QED
    BY <2>1, <2>6, <2>7, <2>9
<1>2. CASE ~(waiting /\ ~processing)
  BY <1>2 DEF ProcessFiles, Starts
<1> QED
  BY <1>1, <1>2

\* A goroutine at work goes from one place to another.
LEMMA StepsOne ==
  ASSUME IInv, NEW w \in Worker, worker[w].pc # "idle",
         NEW pc \in Place, NEW todo \in SUBSET File, NEW cur \in SUBSET File,
         Goes(w, pc, todo, cur), processingFiles' = processingFiles
  PROVE  /\ worker' \in [Worker -> State]
         /\ Single(worker, processingFiles)'
         /\ worker'[w] = [pc |-> pc, todo |-> todo, cur |-> cur]
         /\ \A v \in Worker \ {w} : worker'[v] = worker[v] /\ worker[v].pc = "idle"
<1> DEFINE new == [pc |-> pc, todo |-> todo, cur |-> cur]
<1>1. worker \in [Worker -> State] /\ new \in State
  BY DEF IInv, ReceiveTypeOK, State, Place
<1>2. worker' = [worker EXCEPT ![w] = new]
  BY DEF Goes
<1> HIDE DEF new
<1>3. worker' \in [Worker -> State] /\ worker'[w] = new
  BY <1>1, <1>2
<1>4. \A v \in Worker \ {w} : worker'[v] = worker[v] /\ worker[v].pc = "idle"
  BY <1>1, <1>2 DEF IInv, Single
<1>5. processingFiles
  BY DEF IInv, Single
<1>6. Single(worker, processingFiles)'
  BY <1>4, <1>5 DEF Single
<1> QED
  BY <1>3, <1>4, <1>6 DEF new

-----------------------------------------------------------------------------
LEMMA InitHolds == ASSUME ReceiveInit PROVE IInv
<1>1. ReceiveTypeOK
  <2>1. Idle \in [pc : {"idle", "list", "next", "copy", "delete", "done"},
                  todo : SUBSET File, cur : SUBSET File]
    BY DEF Idle
  <2>2. worker \in [Worker -> [pc : {"idle", "list", "next", "copy", "delete", "done"},
                              todo : SUBSET File, cur : SUBSET File]]
    BY <2>1 DEF ReceiveInit
  <2>3. copies \in [File -> Nat] /\ fileNotes \in Seq(BOOLEAN)
    BY DEF ReceiveInit
  <2>4. announced \in BOOLEAN /\ permitted \in BOOLEAN
    BY Zenon DEF ReceiveInit
  <2>5. waitingFiles \in BOOLEAN /\ processingFiles \in BOOLEAN
    BY Zenon DEF ReceiveInit
  <2> QED
    BY <2>2, <2>3, <2>4, <2>5 DEF ReceiveInit, ReceiveTypeOK
<1>2. \A w \in Worker : worker[w].pc = "idle"
  BY DEF ReceiveInit, Idle
<1>3. Single(worker, processingFiles) /\ Held
  BY <1>2 DEF Single, Held
<1>4. Counted /\ Littered
  BY DEF ReceiveInit, Counted, Littered
<1> QED
  BY <1>1, <1>3, <1>4 DEF IInv

\* What the cases of the main loop leave to prove.
LEMMA MainHolds ==
  ASSUME IInv, NEW ws \in [Worker -> State], NEW waiting \in BOOLEAN, NEW processing \in BOOLEAN,
         Single(ws, processing), ProcessFiles(waiting, processing, ws),
         \A w \in Worker : worker[w].pc \in {"copy", "delete"} \/ ws[w].pc \in {"copy", "delete"}
                             => ws[w] = worker[w],
         fileNotes' \in Seq(BOOLEAN), storageGranted' \in {0, 1},
         UNCHANGED <<spool, arrived, announced, permitted, mediaVars, faults>>
  PROVE  IInv'
<1>1. /\ waitingFiles' \in BOOLEAN /\ processingFiles' \in BOOLEAN
      /\ worker' \in [Worker -> State]
      /\ Single(worker, processingFiles)'
      /\ \A w \in Worker :
           worker'[w].pc \in {"copy", "delete"} \/ ws[w].pc \in {"copy", "delete"}
             => worker'[w] = ws[w]
  BY StartsOne
<1>2. \A w \in Worker :
        worker'[w].pc \in {"copy", "delete"} \/ worker[w].pc \in {"copy", "delete"}
          => worker'[w] = worker[w]
  BY <1>1
<1>3. ReceiveTypeOK'
  BY <1>1 DEF IInv, ReceiveTypeOK, State, Place, mediaVars
<1>4. Held'
  BY <1>2 DEF IInv, Held, mediaVars, Kept
<1>5. Counted'
  <2>1. \A f \in File : InDelete(f) => InDelete(f)'
    BY <1>2 DEF InDelete
  <2> QED
    BY <2>1 DEF IInv, Counted, mediaVars, Kept
<1>6. Littered'
  BY DEF IInv, Littered, mediaVars
<1> QED
  BY <1>1, <1>3, <1>4, <1>5, <1>6 DEF IInv

\* The file that is being deleted is that of the goroutine at work.
LEMMA AtWork ==
  ASSUME IInv, NEW w \in Worker, worker[w].pc # "idle"
  PROVE  /\ \A f \in File : InDelete(f) <=> worker[w].pc = "delete" /\ f \in worker[w].cur
         /\ worker[w].todo \in SUBSET File /\ worker[w].cur \in SUBSET File
<1>1. \A f \in File : InDelete(f) <=> worker[w].pc = "delete" /\ f \in worker[w].cur
  BY DEF IInv, Single, InDelete
<1> QED
  BY <1>1 DEF IInv, ReceiveTypeOK

\* What a step of the goroutine to the place pc with the file cur does to files.
FilesKept(pc, cur) ==
  /\ spool' \subseteq spool /\ litter' \subseteq File /\ failed' \subseteq File
  /\ told' \subseteq File /\ copies' \in [File -> Nat] /\ faults' \in Nat
  /\ pc \in {"copy", "delete"} => cur \subseteq spool'
  /\ pc = "delete" => \A f \in cur : Kept(f)'
  /\ \A f \in File :
       /\ f \in arrived \ spool' => Kept(f)'
       /\ f \notin arrived => copies'[f] = 0
       /\ copies'[f] <= 1 + faults'
       /\ f \in spool' => copies'[f] <= faults' \/ (pc = "delete" /\ f \in cur)
  /\ Littered'

LEMMA StepHolds ==
  ASSUME IInv, NEW w \in Worker, worker[w].pc # "idle",
         NEW pc \in Place, NEW todo \in SUBSET File, NEW cur \in SUBSET File,
         Goes(w, pc, todo, cur),
         UNCHANGED <<arrived, announced, flagVars, permitted>>,
         FilesKept(pc, cur)
  PROVE  IInv'
<1>1. /\ worker' \in [Worker -> State]
      /\ Single(worker, processingFiles)'
      /\ worker'[w] = [pc |-> pc, todo |-> todo, cur |-> cur]
      /\ \A v \in Worker \ {w} : worker'[v] = worker[v] /\ worker[v].pc = "idle"
  BY StepsOne DEF flagVars
<1>2. ReceiveTypeOK'
  BY <1>1 DEF IInv, ReceiveTypeOK, State, Place, flagVars, FilesKept
<1>3. worker'[w].pc = pc /\ worker'[w].cur = cur
  BY <1>1
<1>4. Held'
  <2>1. \A v \in Worker \ {w} : worker'[v].pc = "idle"
    BY <1>1
  <2> QED
    BY <1>3, <2>1 DEF Held, FilesKept
<1>5. Counted'
  <2>1. \A f \in File : pc = "delete" /\ f \in cur => InDelete(f)'
    BY <1>3 DEF InDelete
  <2>2. spool' \subseteq arrived'
    BY DEF IInv, Counted, FilesKept
  <2> QED
    BY <2>1, <2>2 DEF Counted, FilesKept
<1> QED
  BY <1>1, <1>2, <1>4, <1>5 DEF IInv, FilesKept

-----------------------------------------------------------------------------
LEMMA ListHolds == ASSUME IInv, NEW w \in Worker, List(w) PROVE IInv'
<1>1. /\ worker[w].pc = "list"
      /\ UNCHANGED <<spool, arrived, announced, flagVars, permitted, copies, told, litter>>
  BY DEF List
<1>2. \A f \in File : ~InDelete(f)
  BY <1>1, AtWork
<1>3. /\ "next" \in Place /\ "done" \in Place
      /\ spool \in SUBSET File /\ {} \in SUBSET File /\ faults \in Nat
  BY DEF Place, IInv, ReceiveTypeOK
<1>4. CASE Goes(w, "next", spool, {}) /\ UNCHANGED <<failed, faults>>
  <2>1. FilesKept("next", {})
    BY <1>1, <1>2, <1>4 DEF IInv, ReceiveTypeOK, Counted, Littered, FilesKept, Kept
  <2> QED
    BY <1>1, <1>3, <1>4, <2>1, StepHolds
<1>5. CASE Goes(w, "done", {}, {}) /\ Fault /\ failed' = failed \cup spool
  <2>1. FilesKept("done", {})
    BY <1>1, <1>2, <1>3, <1>5 DEF IInv, ReceiveTypeOK, Counted, Littered, FilesKept, Fault, Kept
  <2> QED
    BY <1>1, <1>3, <1>5, <2>1, StepHolds
<1> QED
  BY <1>4, <1>5 DEF List

LEMMA OpenHolds == ASSUME IInv, NEW w \in Worker, Open(w) PROVE IInv'
<1>1. /\ worker[w].pc = "next"
      /\ UNCHANGED <<spool, arrived, announced, flagVars, permitted, copies, told>>
  BY DEF Open
<1>2. /\ \A f \in File : ~InDelete(f)
      /\ worker[w].todo \in SUBSET File
  BY <1>1, AtWork
<1> DEFINE Rest(f) == worker[w].todo \ {f}
<1>3. PICK f \in worker[w].todo :
        \/ /\ f \in spool /\ permitted
           /\ Goes(w, "copy", Rest(f), {f}) /\ UNCHANGED <<litter, failed, faults>>
        \/ /\ IF f \in spool /\ permitted THEN Fault ELSE UNCHANGED faults
           /\ litter' \in IF f \in spool THEN {litter, litter \cup {f}} ELSE {litter}
           /\ failed' = failed \cup {f} /\ Goes(w, "next", Rest(f), {})
  BY DEF Open
<1>4. /\ "next" \in Place /\ "copy" \in Place /\ f \in File /\ faults \in Nat
      /\ Rest(f) \in SUBSET File /\ {} \in SUBSET File /\ {f} \in SUBSET File
  BY <1>2 DEF Place, IInv, ReceiveTypeOK
<1> HIDE DEF Rest
<1>5. CASE /\ f \in spool /\ permitted
           /\ Goes(w, "copy", Rest(f), {f}) /\ UNCHANGED <<litter, failed, faults>>
  <2>1. FilesKept("copy", {f})
    BY <1>1, <1>2, <1>5 DEF IInv, ReceiveTypeOK, Counted, Littered, FilesKept, Kept
  <2> QED
    BY <1>1, <1>4, <1>5, <2>1, StepHolds
<1>6. CASE /\ IF f \in spool /\ permitted THEN Fault ELSE UNCHANGED faults
           /\ litter' \in IF f \in spool THEN {litter, litter \cup {f}} ELSE {litter}
           /\ failed' = failed \cup {f} /\ Goes(w, "next", Rest(f), {})
  <2>1. faults' \in Nat /\ faults' >= faults
    BY <1>4, <1>6 DEF Fault
  <2>2. litter' \subseteq litter \cup {f} /\ failed' = failed \cup {f}
    BY <1>6
  <2>3. Littered'
    BY <1>4, <2>1, <2>2 DEF IInv, Littered
  <2>4. FilesKept("next", {})
    BY <1>1, <1>2, <1>4, <2>1, <2>2, <2>3 DEF IInv, ReceiveTypeOK, Counted, FilesKept, Kept
  <2> QED
    BY <1>1, <1>4, <1>6, <2>4, StepHolds
<1> QED
  BY <1>3, <1>5, <1>6

LEMMA CopyHolds == ASSUME IInv, NEW w \in Worker, Copy(w) PROVE IInv'
<1>1. /\ worker[w].pc = "copy"
      /\ UNCHANGED <<spool, arrived, announced, flagVars, permitted>>
  BY DEF Copy
<1>2. /\ \A f \in File : ~InDelete(f)
      /\ worker[w].todo \in SUBSET File /\ worker[w].cur \in SUBSET File
      /\ worker[w].cur \subseteq spool
  BY <1>1, AtWork DEF IInv, Held
<1>3. PICK f \in worker[w].cur :
        \/ /\ copies' = [copies EXCEPT ![f] = @ + 1]
           /\ \/ told' = told \cup {f} /\ UNCHANGED <<failed, faults>>
              \/ Fault /\ failed' = failed \cup {f} /\ UNCHANGED told
           /\ Goes(w, "delete", worker[w].todo, {f}) /\ UNCHANGED litter
        \/ /\ Fault /\ litter' \in {litter, litter \cup {f}}
           /\ failed' = failed \cup {f} /\ Goes(w, "next", worker[w].todo, {})
           /\ UNCHANGED <<copies, told>>
  BY DEF Copy
<1>4. /\ "next" \in Place /\ "delete" \in Place /\ f \in File /\ f \in spool /\ faults \in Nat
      /\ {} \in SUBSET File /\ {f} \in SUBSET File
  BY <1>2 DEF Place, IInv, ReceiveTypeOK
<1>5. CASE /\ copies' = [copies EXCEPT ![f] = @ + 1]
           /\ \/ told' = told \cup {f} /\ UNCHANGED <<failed, faults>>
              \/ Fault /\ failed' = failed \cup {f} /\ UNCHANGED told
           /\ Goes(w, "delete", worker[w].todo, {f}) /\ UNCHANGED litter
  <2>1. copies[f] \in Nat /\ copies[f] <= faults /\ f \in arrived
    BY <1>2, <1>4 DEF IInv, ReceiveTypeOK, Counted
  <2>2. copies' \in [File -> Nat] /\ copies'[f] = copies[f] + 1
        /\ \A g \in File \ {f} : copies'[g] = copies[g]
    BY <1>4, <1>5, <2>1 DEF IInv, ReceiveTypeOK
  <2>3. /\ told \subseteq told' /\ failed \subseteq failed' /\ f \in told' \cup failed'
        /\ told' \subseteq File /\ failed' \subseteq File
        /\ faults' \in Nat /\ faults <= faults'
    BY <1>4, <1>5 DEF IInv, ReceiveTypeOK, Fault
  <2>4. Kept(f)' /\ \A g \in File : Kept(g) => Kept(g)'
    BY <2>1, <2>2, <2>3 DEF Kept
  <2>5. \A g \in File :
          /\ g \in arrived \ spool' => Kept(g)'
          /\ g \notin arrived => copies'[g] = 0
          /\ copies'[g] <= 1 + faults'
          /\ g \in spool' => copies'[g] <= faults' \/ g = f
    <3>1. \A g \in File : copies[g] \in Nat
      BY DEF IInv, ReceiveTypeOK
    <3> QED
      BY <1>1, <1>2, <1>4, <2>1, <2>2, <2>3, <2>4, <3>1 DEF IInv, Counted
  <2>6. Littered'
    BY <1>4, <1>5, <2>3 DEF IInv, Littered
  <2>7. FilesKept("delete", {f})
    BY <1>1, <1>4, <1>5, <2>2, <2>3, <2>4, <2>5, <2>6 DEF IInv, ReceiveTypeOK, FilesKept
  <2> QED
    BY <1>1, <1>2, <1>4, <1>5, <2>7, StepHolds
<1>6. CASE /\ Fault /\ litter' \in {litter, litter \cup {f}}
           /\ failed' = failed \cup {f} /\ Goes(w, "next", worker[w].todo, {})
           /\ UNCHANGED <<copies, told>>
  <2>1. faults' = faults + 1 /\ litter' \subseteq File /\ failed' \subseteq File
    BY <1>4, <1>6 DEF Fault, IInv, ReceiveTypeOK
  <2>2. FilesKept("next", {})
    BY <1>1, <1>2, <1>4, <1>6, <2>1
    DEF IInv, ReceiveTypeOK, Counted, Littered, FilesKept, Kept
  <2> QED
    BY <1>1, <1>2, <1>4, <1>6, <2>2, StepHolds
<1> QED
  BY <1>3, <1>5, <1>6

LEMMA DeleteHolds == ASSUME IInv, NEW w \in Worker, Delete(w) PROVE IInv'
<1>1. /\ worker[w].pc = "delete" /\ Goes(w, "next", worker[w].todo, {})
      /\ UNCHANGED <<arrived, announced, flagVars, permitted, copies, told, litter>>
  BY DEF Delete
<1>2. /\ \A f \in File : InDelete(f) <=> f \in worker[w].cur
      /\ worker[w].todo \in SUBSET File /\ worker[w].cur \in SUBSET File
      /\ \A f \in worker[w].cur : Kept(f)
  BY <1>1, AtWork DEF IInv, Held
<1>3. "next" \in Place /\ {} \in SUBSET File /\ faults \in Nat
  BY DEF Place, IInv, ReceiveTypeOK
<1>4. CASE spool' = spool \ worker[w].cur /\ UNCHANGED <<failed, faults>>
  <2>1. FilesKept("next", {})
    BY <1>1, <1>2, <1>4 DEF IInv, ReceiveTypeOK, Counted, Littered, FilesKept, Kept
  <2> QED
    BY <1>1, <1>2, <1>3, <2>1, StepHolds
<1>5. CASE Fault /\ failed' = failed \cup worker[w].cur /\ UNCHANGED spool
  <2>1. FilesKept("next", {})
    BY <1>1, <1>2, <1>3, <1>5 DEF Fault, IInv, ReceiveTypeOK, Counted, Littered, FilesKept, Kept
  <2> QED
    BY <1>1, <1>2, <1>3, <2>1, StepHolds
<1> QED
  BY <1>4, <1>5 DEF Delete

LEMMA EndHolds == ASSUME IInv, NEW w \in Worker, End(w) PROVE IInv'
<1>1. /\ worker[w].pc = "next" /\ Goes(w, "done", {}, {})
      /\ UNCHANGED <<spool, arrived, announced, flagVars, permitted, mediaVars, faults>>
  BY DEF End
<1>2. \A f \in File : ~InDelete(f)
  BY <1>1, AtWork
<1>3. "done" \in Place /\ {} \in SUBSET File
  BY DEF Place
<1>4. FilesKept("done", {})
  BY <1>1, <1>2 DEF IInv, ReceiveTypeOK, Counted, Littered, FilesKept, mediaVars, Kept
<1> QED
  BY <1>1, <1>3, <1>4, StepHolds

-----------------------------------------------------------------------------
LEMMA NotificationHolds == ASSUME IInv, MainNotification PROVE IInv'
<1>1. /\ fileNotes # <<>> /\ fileNotes' = Tail(fileNotes)
      /\ ProcessFiles(Head(fileNotes), processingFiles, worker)
      /\ UNCHANGED <<spool, arrived, announced, storageGranted, permitted, mediaVars, faults>>
  BY DEF MainNotification
<1>2. Head(fileNotes) \in BOOLEAN /\ fileNotes' \in Seq(BOOLEAN)
  BY <1>1 DEF IInv, ReceiveTypeOK
<1>3. /\ worker \in [Worker -> State] /\ processingFiles \in BOOLEAN
      /\ Single(worker, processingFiles) /\ storageGranted' \in {0, 1}
  BY <1>1 DEF IInv, ReceiveTypeOK, State, Place
<1> QED
  BY <1>1, <1>2, <1>3, MainHolds

LEMMA GrantedHolds == ASSUME IInv, MainGranted PROVE IInv'
<1>1. /\ storageGranted' = 0 /\ ProcessFiles(waitingFiles, processingFiles, worker)
      /\ UNCHANGED <<spool, arrived, announced, fileNotes, permitted, mediaVars, faults>>
  BY DEF MainGranted
<1>2. /\ worker \in [Worker -> State] /\ processingFiles \in BOOLEAN /\ waitingFiles \in BOOLEAN
      /\ Single(worker, processingFiles) /\ storageGranted' \in {0, 1}
      /\ fileNotes' \in Seq(BOOLEAN)
  BY <1>1 DEF IInv, ReceiveTypeOK, State, Place
<1> QED
  BY <1>1, <1>2, MainHolds

\* waitingFilesDone: the goroutine is no longer at work, and no other is.
LEMMA DoneHolds == ASSUME IInv, NEW w \in Worker, FilesDone(w) PROVE IInv'
<1> DEFINE ws == [worker EXCEPT ![w] = Idle]
<1>1. /\ worker[w].pc = "done"
      /\ ProcessFiles(waitingFiles, FALSE, ws)
      /\ UNCHANGED <<spool, arrived, announced, fileNotes, storageGranted, permitted,
                     mediaVars, faults>>
  BY DEF FilesDone, StillWaiting
<1>2. worker \in [Worker -> State] /\ Idle \in State
  BY DEF IInv, ReceiveTypeOK, State, Place, Idle
<1>3. /\ ws \in [Worker -> State] /\ ws[w].pc = "idle"
      /\ \A v \in Worker \ {w} : ws[v] = worker[v] /\ worker[v].pc = "idle"
  BY <1>1, <1>2 DEF Idle, IInv, Single
<1> HIDE DEF ws
<1>4. Single(ws, FALSE)
  BY <1>3 DEF Single
<1>5. \A v \in Worker : worker[v].pc \in {"copy", "delete"} \/ ws[v].pc \in {"copy", "delete"}
                          => ws[v] = worker[v]
  BY <1>1, <1>3
<1>6. /\ waitingFiles \in BOOLEAN /\ storageGranted' \in {0, 1} /\ fileNotes' \in Seq(BOOLEAN)
      /\ FALSE \in BOOLEAN
  BY <1>1 DEF IInv, ReceiveTypeOK
<1> QED
  BY <1>1, <1>3, <1>4, <1>5, <1>6, MainHolds

\* LocalBackend and the user
LEMMA ArriveHolds == ASSUME IInv, NEW f \in File, Arrive(f) PROVE IInv'
<1>1. /\ f \notin arrived /\ f \notin spool
      /\ arrived' = arrived \cup {f} /\ spool' = spool \cup {f} /\ announced' = FALSE
      /\ UNCHANGED <<flagVars, permitted, worker, mediaVars, faults>>
  BY DEF Arrive, IInv, Counted
<1>2. ReceiveTypeOK'
  BY <1>1 DEF IInv, ReceiveTypeOK, flagVars, mediaVars
<1>3. Held' /\ Single(worker, processingFiles)'
  BY <1>1 DEF IInv, Held, Single, flagVars, mediaVars, Kept
<1>4. \A g \in File : InDelete(g)' <=> InDelete(g)
  BY <1>1 DEF InDelete
<1>5. copies[f] = 0 /\ copies[f] <= faults
  BY <1>1 DEF IInv, ReceiveTypeOK, Counted
<1>6. Counted'
  BY <1>1, <1>4, <1>5 DEF IInv, Counted, mediaVars, Kept
<1>7. Littered'
  BY <1>1 DEF IInv, Littered, mediaVars
<1> QED
  BY <1>2, <1>3, <1>6, <1>7 DEF IInv

LEMMA OutsideHolds == ASSUME IInv, NotifyWaiting \/ Grant \/ UNCHANGED receiveVars PROVE IInv'
<1>1. UNCHANGED <<spool, arrived, waitingFiles, processingFiles, worker, mediaVars, faults>>
  BY DEF NotifyWaiting, Grant, receiveVars, flagVars
<1>2. ReceiveTypeOK'
  <2>1. /\ fileNotes' \in Seq(BOOLEAN) /\ storageGranted' \in {0, 1}
        /\ announced' \in BOOLEAN /\ permitted' \in BOOLEAN
    <3>1. CASE NotifyWaiting
      <4>1. (spool # {}) \in BOOLEAN
        OBVIOUS
      <4> QED
        BY <3>1, <4>1 DEF NotifyWaiting, IInv, ReceiveTypeOK
    <3>2. CASE Grant
      BY <3>2 DEF Grant, IInv, ReceiveTypeOK
    <3>3. CASE UNCHANGED receiveVars
      BY <3>3 DEF receiveVars, flagVars, IInv, ReceiveTypeOK
    <3> QED
      BY <3>1, <3>2, <3>3
  <2> QED
    BY <1>1, <2>1 DEF IInv, ReceiveTypeOK, mediaVars
<1>3. Held' /\ Single(worker, processingFiles)'
  BY <1>1 DEF IInv, Held, Single, mediaVars, Kept
<1>4. \A g \in File : InDelete(g)' <=> InDelete(g)
  BY <1>1 DEF InDelete
<1>5. Counted' /\ Littered'
  BY <1>1, <1>4 DEF IInv, Counted, Littered, mediaVars, Kept
<1> QED
  BY <1>2, <1>3, <1>5 DEF IInv

\* The death of the process is a fault, which allows one more copy of each file.
LEMMA CrashHolds == ASSUME IInv, Crash PROVE IInv'
<1>1. /\ faults' = faults + 1 /\ faults \in Nat
      /\ worker' = [w \in Worker |-> Idle]
      /\ waitingFiles' = FALSE /\ processingFiles' = FALSE /\ announced' = FALSE
      /\ storageGranted' = 0 /\ fileNotes' = <<>>
      /\ UNCHANGED <<spool, arrived, permitted, copies, told, failed>>
  BY DEF Crash, Fault, IInv, ReceiveTypeOK
<1>2. \A w \in Worker : worker'[w].pc = "idle"
  BY <1>1 DEF Idle
<1>3. ReceiveTypeOK'
  <2>1. litter' \subseteq File
    BY DEF Crash, IInv, ReceiveTypeOK
  <2>2. worker' \in [Worker -> [pc : {"idle", "list", "next", "copy", "delete", "done"},
                                todo : SUBSET File, cur : SUBSET File]]
    BY <1>1 DEF Idle
  <2>3. announced' \in BOOLEAN /\ waitingFiles' \in BOOLEAN /\ processingFiles' \in BOOLEAN
    BY <1>1, Zenon
  <2>4. fileNotes' \in Seq(BOOLEAN) /\ storageGranted' \in {0, 1} /\ faults' \in Nat
    BY <1>1
  <2> QED
    BY <1>1, <2>1, <2>2, <2>3, <2>4 DEF IInv, ReceiveTypeOK
<1>4. Held' /\ Single(worker, processingFiles)'
  BY <1>2 DEF Held, Single
<1>5. Counted'
  BY <1>1 DEF IInv, ReceiveTypeOK, Counted, Kept
<1>6. Littered'
  BY <1>1 DEF Littered
<1> QED
  BY <1>3, <1>4, <1>5, <1>6 DEF IInv

LEMMA NextHolds == ASSUME IInv, [ReceiveNext]_receiveVars PROVE IInv'
<1>1. CASE NotifyWaiting \/ Grant \/ UNCHANGED receiveVars
  BY <1>1, OutsideHolds
<1>2. CASE Main \/ Crash
  BY <1>2, NotificationHolds, GrantedHolds, CrashHolds DEF Main
<1>3. ASSUME NEW f \in File, Arrive(f) PROVE IInv'
  BY <1>3, ArriveHolds
<1>4. ASSUME NEW w \in Worker, FilesDone(w) \/ Step(w) PROVE IInv'
  BY <1>4, DoneHolds, ListHolds, OpenHolds, CopyHolds, DeleteHolds, EndHolds DEF Step
<1> QED
  BY <1>1, <1>2, <1>3, <1>4 DEF ReceiveNext

-----------------------------------------------------------------------------
\* The flags, the channels and the goroutines have their types.
THEOREM ReceiveTyped == ReceiveSpec => []ReceiveTypeOK
<1>1. ReceiveInit => IInv
  BY InitHolds
<1>2. IInv /\ [ReceiveNext]_receiveVars => IInv'
  BY NextHolds
<1>3. IInv => ReceiveTypeOK
  BY DEF IInv
<1> QED
  BY <1>1, <1>2, <1>3, PTL DEF ReceiveSpec

-----------------------------------------------------------------------------
(* FileReceive: no file is forgotten                                       *)

\* Files wait for the next goroutine only while one is at work, which will report.
Flags ==
  /\ waitingFiles => processingFiles
  /\ processingFiles => \E w \in Worker : worker[w].pc # "idle"

\* Which files a goroutine has before it, by its place.
HandsOf(ws) ==
  \A w \in Worker :
    /\ ws[w].pc \in {"idle", "list", "done"} => ws[w].todo = {} /\ ws[w].cur = {}
    /\ ws[w].pc = "next" => ws[w].cur = {}
    /\ \A f, g \in ws[w].cur : f = g

\* The last notification on its way was sent when the last file had come.
LastNote ==
  announced /\ fileNotes # <<>> /\ spool # {} => fileNotes[Len(fileNotes)]

Before(ws, w, f) == ws[w].pc = "list" \/ f \in ws[w].todo \cup ws[w].cur

Known ==
  \A f \in spool \ failed :
    \/ ~announced \/ fileNotes # <<>> \/ waitingFiles
    \/ \E w \in Worker : Before(worker, w, f)

Tracked == Flags /\ HandsOf(worker) /\ LastNote /\ Known

\* Somebody sees to every file that the invariant knows of.
LEMMA TrackedTended == ASSUME IInv, Tracked PROVE \A f \in spool \ failed : Tended(f)
<1> SUFFICES ASSUME NEW f \in spool \ failed PROVE Tended(f)
  OBVIOUS
<1>1. CASE fileNotes # <<>> /\ announced
  <2>1. Len(fileNotes) \in 1..Len(fileNotes)
    BY <1>1 DEF IInv, ReceiveTypeOK
  <2> QED
    BY <1>1, <2>1 DEF Tracked, LastNote, Tended
<1>2. CASE waitingFiles
  BY <1>2 DEF Tracked, Flags, Tended
<1>3. ASSUME NEW w \in Worker, Before(worker, w, f) PROVE Tended(f)
  <2>1. worker[w].pc # "idle"
    BY <1>3 DEF Tracked, HandsOf, Before
  <2> QED
    BY <1>3, <2>1 DEF Before, Tended
<1> QED
  BY <1>1, <1>2, <1>3 DEF Tracked, Known, Tended

LEMMA TrackedInit == ASSUME ReceiveInit PROVE Tracked
<1>1. \A w \in Worker : worker[w] = Idle
  BY DEF ReceiveInit
<1> QED
  BY <1>1 DEF ReceiveInit, Tracked, Flags, HandsOf, LastNote, Known, Idle

\* processFiles leaves the goroutines at work alone, and one is at work when it has
\* been told of files.
LEMMA StartsFollow ==
  ASSUME NEW ws \in [Worker -> State], NEW waiting \in BOOLEAN, NEW processing \in BOOLEAN,
         HandsOf(ws), processing => \E w \in Worker : ws[w].pc # "idle",
         ProcessFiles(waiting, processing, ws)
  PROVE  /\ Flags' /\ HandsOf(worker)'
         /\ waiting => waitingFiles' \/ \E w \in Worker : worker'[w].pc = "list"
         /\ \A w \in Worker : ws[w].pc # "idle" => worker'[w] = ws[w]
<1>1. CASE waiting /\ ~processing
  <2> DEFINE x == CHOOSE w \in {v \in Worker : ws[v] = Idle} : TRUE
  <2>1. /\ waitingFiles' = FALSE /\ processingFiles' = TRUE
        /\ {v \in Worker : ws[v] = Idle} # {} /\ worker' = [ws EXCEPT ![x].pc = "list"]
    BY <1>1 DEF ProcessFiles, Starts
  <2>2. x \in Worker /\ ws[x] = Idle
    BY <2>1
  <2> HIDE DEF x
  <2>3. worker' = [ws EXCEPT ![x] = [Idle EXCEPT !.pc = "list"]]
    BY <2>1, <2>2
  <2>4. /\ worker'[x] = [pc |-> "list", todo |-> {}, cur |-> {}] /\ ws[x].pc = "idle"
        /\ \A w \in Worker \ {x} : worker'[w] = ws[w]
    BY <2>2, <2>3 DEF Idle
  <2>5. worker'[x].pc = "list" /\ worker'[x].todo = {} /\ worker'[x].cur = {}
    BY <2>4
  <2>6. Flags'
    BY <2>1, <2>2, <2>5 DEF Flags
  <2>7. HandsOf(worker)'
    BY <2>4, <2>5 DEF HandsOf
  <2> QED
    BY <2>2, <2>4, <2>5, <2>6, <2>7
<1>2. CASE ~(waiting /\ ~processing)
  <2>1. waitingFiles' = waiting /\ processingFiles' = processing /\ worker' = ws
    BY <1>2 DEF ProcessFiles, Starts
  <2> QED
    BY <1>2, <2>1 DEF Flags, HandsOf
<1> QED
  BY <1>1, <1>2

\* What is before a goroutine stays so until it is done with it.
LEMMA StepTracked ==
  ASSUME IInv, Tracked, NEW w \in Worker, worker[w].pc # "idle",
         NEW pc \in Place \ {"idle"}, NEW todo \in SUBSET File, NEW cur \in SUBSET File,
         Goes(w, pc, todo, cur), UNCHANGED <<announced, flagVars>>,
         spool' \subseteq spool, failed \subseteq failed',
         pc \in {"list", "done"} => todo = {} /\ cur = {},
         pc = "next" => cur = {}, \A f, g \in cur : f = g,
         \A f \in spool' \ failed' : Before(worker, w, f) => f \in todo \cup cur
  PROVE  Tracked'
<1>1. /\ worker'[w] = [pc |-> pc, todo |-> todo, cur |-> cur]
      /\ \A v \in Worker \ {w} : worker'[v] = worker[v] /\ worker[v].pc = "idle"
  BY StepsOne DEF flagVars
<1>2. worker'[w].pc = pc /\ worker'[w].todo = todo /\ worker'[w].cur = cur
  BY <1>1
<1>3. Flags'
  BY <1>2 DEF Tracked, Flags, flagVars
<1>4. HandsOf(worker)'
  BY <1>1, <1>2 DEF Tracked, HandsOf
<1>5. LastNote'
  BY DEF Tracked, LastNote, flagVars
<1>6. Known'
  <2>1. SUFFICES ASSUME NEW f \in spool' \ failed', announced', fileNotes' = <<>>, ~waitingFiles'
                 PROVE  \E v \in Worker : Before(worker', v, f)
    BY DEF Known, Before
  <2>2. PICK v \in Worker : Before(worker, v, f)
    BY <2>1 DEF Tracked, Known, flagVars
  <2>3. v = w
    BY <1>1, <2>2 DEF Tracked, HandsOf, Before
  <2> QED
    BY <1>2, <2>2, <2>3 DEF Before
<1> QED
  BY <1>3, <1>4, <1>5, <1>6 DEF Tracked

\* The steps of the goroutine
LEMMA WorkTracked == ASSUME IInv, Tracked, NEW w \in Worker, Step(w) PROVE Tracked'
<1>1. /\ {"list", "next", "copy", "delete", "done"} \subseteq Place \ {"idle"}
      /\ worker[w].todo \in SUBSET File /\ worker[w].cur \in SUBSET File
      /\ spool \in SUBSET File /\ {} \in SUBSET File
  BY DEF Place, IInv, ReceiveTypeOK
<1>2. CASE List(w)
  <2>1. /\ worker[w].pc = "list" /\ UNCHANGED <<spool, announced, flagVars>>
        /\ worker[w].todo = {} /\ worker[w].cur = {}
    BY <1>2 DEF List, Tracked, HandsOf
  <2>2. CASE Goes(w, "next", spool, {}) /\ UNCHANGED <<failed, faults>>
    BY <1>1, <2>1, <2>2, StepTracked
  <2>3. CASE Goes(w, "done", {}, {}) /\ Fault /\ failed' = failed \cup spool
    BY <1>1, <2>1, <2>3, StepTracked
  <2> QED
    BY <1>2, <2>2, <2>3 DEF List
<1>3. CASE Open(w)
  <2> DEFINE Rest(f) == worker[w].todo \ {f}
  <2>1. /\ worker[w].pc = "next" /\ UNCHANGED <<spool, announced, flagVars>>
        /\ worker[w].cur = {}
    BY <1>3 DEF Open, Tracked, HandsOf
  <2>2. PICK f \in worker[w].todo :
          \/ Goes(w, "copy", Rest(f), {f}) /\ UNCHANGED failed
          \/ Goes(w, "next", Rest(f), {}) /\ failed' = failed \cup {f}
    BY <1>3 DEF Open
  <2>3. Rest(f) \in SUBSET File /\ {f} \in SUBSET File /\ \A g, h \in {f} : g = h
    BY <1>1
  <2>4. \A g : Before(worker, w, g) => g \in Rest(f) \/ g = f
    BY <2>1 DEF Before
  <2> HIDE DEF Rest
  <2>5. CASE Goes(w, "copy", Rest(f), {f}) /\ UNCHANGED failed
    BY <1>1, <2>1, <2>3, <2>4, <2>5, StepTracked
  <2>6. CASE Goes(w, "next", Rest(f), {}) /\ failed' = failed \cup {f}
    BY <1>1, <2>1, <2>3, <2>4, <2>6, StepTracked
  <2> QED
    BY <2>2, <2>5, <2>6
<1>4. CASE Copy(w)
  <2>1. worker[w].pc = "copy" /\ UNCHANGED <<spool, announced, flagVars>>
    BY <1>4 DEF Copy
  <2>2. PICK f \in worker[w].cur :
          \/ Goes(w, "delete", worker[w].todo, {f}) /\ failed \subseteq failed'
          \/ Goes(w, "next", worker[w].todo, {}) /\ failed' = failed \cup {f}
    BY <1>4 DEF Copy
  <2>3. {f} \in SUBSET File /\ \A g, h \in {f} : g = h
    BY <1>1
  <2>4. \A g : Before(worker, w, g) => g \in worker[w].todo \/ g = f
    BY <2>1 DEF Before, Tracked, HandsOf
  <2>5. CASE Goes(w, "delete", worker[w].todo, {f}) /\ failed \subseteq failed'
    BY <1>1, <2>1, <2>3, <2>4, <2>5, StepTracked
  <2>6. CASE Goes(w, "next", worker[w].todo, {}) /\ failed' = failed \cup {f}
    BY <1>1, <2>1, <2>4, <2>6, StepTracked
  <2> QED
    BY <2>2, <2>5, <2>6
<1>5. CASE Delete(w)
  <2>1. /\ worker[w].pc = "delete" /\ Goes(w, "next", worker[w].todo, {})
        /\ UNCHANGED <<announced, flagVars>>
        /\ \/ spool' = spool \ worker[w].cur /\ failed' = failed
           \/ spool' = spool /\ failed' = failed \cup worker[w].cur
    BY <1>5 DEF Delete
  <2>2. spool' \subseteq spool /\ failed \subseteq failed'
    BY <2>1
  <2>3. \A f \in spool' \ failed' : Before(worker, w, f) => f \in worker[w].todo \cup {}
    BY <2>1 DEF Before
  <2> QED
    BY <1>1, <2>1, <2>2, <2>3, StepTracked
<1>6. CASE End(w)
  <2>1. /\ worker[w].pc = "next" /\ worker[w].todo = {} /\ Goes(w, "done", {}, {})
        /\ UNCHANGED <<spool, announced, flagVars, failed>> /\ worker[w].cur = {}
    BY <1>6 DEF End, mediaVars, Tracked, HandsOf
  <2>2. \A f : ~Before(worker, w, f)
    BY <2>1 DEF Before
  <2> QED
    BY <1>1, <2>1, <2>2, StepTracked
<1> QED
  BY <1>2, <1>3, <1>4, <1>5, <1>6 DEF Step

\* A notification that is taken is followed by others, or its news reach a goroutine.
LEMMA NotificationTracked == ASSUME IInv, Tracked, MainNotification PROVE Tracked'
<1>1. /\ fileNotes # <<>> /\ fileNotes' = Tail(fileNotes)
      /\ ProcessFiles(Head(fileNotes), processingFiles, worker)
      /\ UNCHANGED <<spool, announced, failed>>
  BY DEF MainNotification, mediaVars
<1>2. /\ worker \in [Worker -> State] /\ processingFiles \in BOOLEAN
      /\ fileNotes \in Seq(BOOLEAN) /\ Head(fileNotes) \in BOOLEAN
  BY <1>1 DEF IInv, ReceiveTypeOK, State, Place
<1>3. /\ Flags' /\ HandsOf(worker)'
      /\ Head(fileNotes) => waitingFiles' \/ \E w \in Worker : worker'[w].pc = "list"
  BY <1>1, <1>2, StartsFollow DEF Tracked, Flags
<1>4. LastNote'
  BY <1>1, <1>2 DEF Tracked, LastNote
<1>5. Known'
  <2>1. SUFFICES ASSUME NEW f \in spool \ failed, announced, Tail(fileNotes) = <<>>
                 PROVE  waitingFiles' \/ \E w \in Worker : worker'[w].pc = "list"
    BY <1>1 DEF Known, Before
  <2>2. ASSUME NEW s \in Seq(BOOLEAN), s # <<>>, Tail(s) = <<>>
        PROVE  Len(s) = 1 /\ Head(s) = s[Len(s)]
    <3>1. Len(Tail(s)) = Len(s) - 1 /\ Len(s) \in Nat
      BY <2>2
    <3>2. Len(<<>>) = 0
      OBVIOUS
    <3>3. Len(Tail(s)) = 0
      BY ONLY <2>2, <3>2, Zenon
    <3>4. Len(s) = 1
      BY ONLY <3>1, <3>3
    <3> QED
      BY <2>2, <3>4
  <2>3. Head(fileNotes) = fileNotes[Len(fileNotes)]
    BY <1>1, <1>2, <2>1, <2>2
  <2>4. spool # {} /\ fileNotes[Len(fileNotes)]
    BY <1>1, <2>1 DEF Tracked, LastNote
  <2> QED
    BY <1>3, <2>3, <2>4
<1> QED
  BY <1>3, <1>4, <1>5 DEF Tracked

\* What the end of a goroutine and the grant of the permission leave to prove.
LEMMA FollowTracked ==
  ASSUME IInv, Tracked, NEW ws \in [Worker -> State], NEW processing \in BOOLEAN,
         HandsOf(ws), processing => \E w \in Worker : ws[w].pc # "idle",
         ProcessFiles(waitingFiles, processing, ws),
         \A f : \A w \in Worker : Before(worker, w, f) => ws[w] = worker[w],
         UNCHANGED <<spool, announced, fileNotes, failed>>
  PROVE  Tracked'
<1>1. waitingFiles \in BOOLEAN
  BY DEF IInv, ReceiveTypeOK
<1>2. /\ Flags' /\ HandsOf(worker)'
      /\ waitingFiles => waitingFiles' \/ \E w \in Worker : worker'[w].pc = "list"
      /\ \A w \in Worker : ws[w].pc # "idle" => worker'[w] = ws[w]
  BY <1>1, StartsFollow
<1>3. LastNote'
  BY DEF Tracked, LastNote
<1>4. Known'
  <2>1. SUFFICES ASSUME NEW f \in spool \ failed, announced, fileNotes = <<>>
                 PROVE  waitingFiles' \/ \E w \in Worker : Before(worker', w, f)
    BY DEF Known, Before
  <2>2. CASE waitingFiles
    BY <1>2, <2>2 DEF Before
  <2>3. ASSUME NEW w \in Worker, Before(worker, w, f) PROVE Before(worker', w, f)
    <3>1. ws[w] = worker[w] /\ worker[w].pc # "idle"
      BY <2>3 DEF Tracked, HandsOf, Before
    <3> QED
      BY <1>2, <2>3, <3>1 DEF Before
  <2> QED
    BY <2>1, <2>2, <2>3 DEF Tracked, Known
<1> QED
  BY <1>2, <1>3, <1>4 DEF Tracked

LEMMA MainTracked ==
  ASSUME IInv, Tracked, MainGranted \/ \E w \in Worker : FilesDone(w) PROVE Tracked'
<1>1. worker \in [Worker -> State] /\ processingFiles \in BOOLEAN /\ FALSE \in BOOLEAN
  BY DEF IInv, ReceiveTypeOK, State, Place
<1>2. CASE MainGranted
  BY <1>1, <1>2, FollowTracked DEF MainGranted, mediaVars, Tracked, Flags
<1>3. ASSUME NEW w \in Worker, FilesDone(w) PROVE Tracked'
  <2> DEFINE ws == [worker EXCEPT ![w] = Idle]
  <2>1. /\ worker[w].pc = "done" /\ ProcessFiles(waitingFiles, FALSE, ws)
        /\ UNCHANGED <<spool, announced, fileNotes, failed>>
    BY <1>3 DEF FilesDone, StillWaiting, mediaVars
  <2>2. Idle \in State
    BY DEF State, Place, Idle
  <2>3. /\ ws \in [Worker -> State] /\ ws[w] = Idle
        /\ \A v \in Worker \ {w} : ws[v] = worker[v]
    BY <1>1, <2>2
  <2> HIDE DEF ws
  <2>4. HandsOf(ws)
    BY <2>3 DEF Tracked, HandsOf, Idle
  <2>5. \A f : \A v \in Worker : Before(worker, v, f) => ws[v] = worker[v]
    BY <2>1, <2>3 DEF Tracked, HandsOf, Before
  <2> QED
    BY <1>1, <2>1, <2>3, <2>4, <2>5, FollowTracked
<1> QED
  BY <1>2, <1>3

LEMMA TrackedNext == ASSUME IInv, Tracked, [ReceiveNext]_receiveVars PROVE Tracked'
<1>1. CASE Grant \/ UNCHANGED receiveVars
  <2>1. UNCHANGED <<spool, announced, fileNotes, waitingFiles, processingFiles, worker, failed>>
    BY <1>1 DEF Grant, receiveVars, flagVars, mediaVars
  <2> QED
    BY <2>1 DEF Tracked, Flags, HandsOf, LastNote, Known, Before
<1>2. ASSUME NEW f \in File, Arrive(f) PROVE Tracked'
  <2>1. announced' = FALSE /\ UNCHANGED <<waitingFiles, processingFiles, worker>>
    BY <1>2 DEF Arrive, flagVars
  <2> QED
    BY <2>1 DEF Tracked, Flags, HandsOf, LastNote, Known
<1>3. CASE NotifyWaiting
  <2>1. /\ fileNotes' = Append(fileNotes, spool # {}) /\ fileNotes \in Seq(BOOLEAN)
        /\ UNCHANGED <<spool, waitingFiles, processingFiles, worker, failed>>
    BY <1>3 DEF NotifyWaiting, mediaVars, IInv, ReceiveTypeOK
  <2>2. (spool # {}) \in BOOLEAN
    OBVIOUS
  <2>3. fileNotes' # <<>> /\ fileNotes'[Len(fileNotes')] = (spool # {})
    BY <2>1, <2>2
  <2> QED
    BY <2>1, <2>3 DEF Tracked, Flags, HandsOf, LastNote, Known
<1>4. CASE Crash
  <2>1. /\ \A w \in Worker : worker'[w] = Idle
        /\ waitingFiles' = FALSE /\ processingFiles' = FALSE /\ announced' = FALSE
    BY <1>4 DEF Crash
  <2> QED
    BY <2>1 DEF Tracked, Flags, HandsOf, LastNote, Known, Idle
<1> QED
  BY <1>1, <1>2, <1>3, <1>4, WorkTracked, NotificationTracked, MainTracked
  DEF ReceiveNext, Main

\* Both invariants hold throughout.
LEMMA TrackedInvariance == ReceiveSpec => [](IInv /\ Tracked)
<1>1. ReceiveInit => IInv /\ Tracked
  BY InitHolds, TrackedInit
<1>2. IInv /\ Tracked /\ [ReceiveNext]_receiveVars => (IInv /\ Tracked)'
  BY NextHolds, TrackedNext
<1> QED
  BY <1>1, <1>2, PTL DEF ReceiveSpec

-----------------------------------------------------------------------------
\* A file leaves the spool (DeleteFile) only when a whole copy is in the media
\* store, the flags of runBackend keep a second goroutine from copying it again, and
\* they forget no file that waits.
THEOREM ReceiveLosesNothing == ReceiveSpec => []NothingLost
<1>1. IInv /\ Tracked => NothingLost
  BY TrackedTended DEF IInv, ReceiveTypeOK, Counted, Littered, NothingLost, Kept
<1> QED
  BY <1>1, TrackedInvariance, PTL

\* The case of runBackend for onWriteStorageGranted never starts a goroutine: while
\* files are noted as waiting, another one is at work.  A file that failed for want
\* of the permission waits for the next notification.
THEOREM GrantStartsNothing ==
  ReceiveSpec => [][MainGranted => UNCHANGED <<waitingFiles, processingFiles, worker>>]_receiveVars
<1>1. IInv /\ Tracked /\ [ReceiveNext]_receiveVars
        => [MainGranted => UNCHANGED <<waitingFiles, processingFiles, worker>>]_receiveVars
  BY DEF Tracked, Flags, MainGranted, ProcessFiles, Starts
<1> QED
  BY <1>1, TrackedInvariance, PTL DEF ReceiveSpec

-----------------------------------------------------------------------------
(* FileSend                                                                *)

\* Each transfer: what is in its channel, and what its goroutines will still say.
Started(x) ==
  sender[x] = "new" => updates[x] = "empty" /\ reader[x] = "idle" /\ x \notin cancelled
Told(x) ==
  /\ updates[x] \in Verdict => sender[x] = "ended" /\ verdict[x] = updates[x]
  /\ updates[x] = "transferring" \/ reader[x] # "idle" => left[x] < Chunks
Ends(x) ==
  /\ verdict[x] = "complete" => left[x] = 0 /\ reader[x] = "idle"
  /\ sender[x] \in {"drain", "put"} => verdict[x] \in Verdict
  /\ sender[x] = "ended" => x \in cancelled \/ verdict[x] \in Verdict
TransferInv(x) == Started(x) /\ Told(x) /\ Ends(x)

\* The dialog has a transfer exactly when it shows one.
DialogInv ==
  /\ current = NoTransfer <=> info = "not started"
  /\ current # NoTransfer => current \notin cancelled /\ sender[current] # "new"

SendInv ==
  /\ SendTypeOK /\ (\A x \in Transfer : TransferInv(x))
  /\ DialogInv /\ ShownIsOwn /\ EndIsShown

-----------------------------------------------------------------------------
LEMMA SendInitHolds == SendInit => SendInv
<1> SUFFICES ASSUME SendInit PROVE SendInv
  OBVIOUS
<1>1. SendTypeOK
  <2>1. left \in [Transfer -> 0..Chunks]
    <3>1. Chunks \in 0..Chunks
      BY TransferAssumption
    <3> QED
      BY <3>1 DEF SendInit
  <2>2. updates \in [Transfer -> {"empty"} \cup Reported]
    BY DEF SendInit
  <2> QED
    BY <2>1, <2>2 DEF SendInit, SendTypeOK
<1>2. ASSUME NEW x \in Transfer PROVE TransferInv(x)
  BY <1>2 DEF SendInit, TransferInv, Started, Told, Ends, Verdict
<1>3. DialogInv /\ ShownIsOwn /\ EndIsShown
  BY DEF SendInit, DialogInv, ShownIsOwn, EndIsShown, Reported, Verdict
<1> QED
  BY <1>1, <1>2, <1>3 DEF SendInv

\* What the dialog shows next, and what is left in the channels, when a frame is
\* drawn or a click is handled.
LEMMA LatestIs ==
  ASSUME SendInv
  PROVE  /\ Latest \in {"not started", "connecting"} \cup Reported
         /\ Emptied \in [Transfer -> {"empty"} \cup Reported]
         /\ \A x \in Transfer : Emptied[x] \in {updates[x], "empty"}
         /\ current # NoTransfer => Emptied[current] = "empty"
         /\ current = NoTransfer <=> Latest = "not started"
         /\ Latest \in Verdict => sender[current] = "ended" /\ verdict[current] = Latest
         /\ Latest = "transferring" => left[current] < Chunks
<1>1. CASE current = NoTransfer
  <2>1. Latest = info /\ Emptied = updates
    BY <1>1 DEF Latest, Emptied
  <2> QED
    BY <1>1, <2>1 DEF SendInv, SendTypeOK, DialogInv, Reported, Verdict
<1>2. CASE current # NoTransfer
  <2>1. current \in Transfer
    BY <1>2 DEF SendInv, SendTypeOK
  <2>2. /\ Emptied = [updates EXCEPT ![current] = "empty"]
        /\ Latest = IF updates[current] # "empty" THEN updates[current] ELSE info
    BY <1>2 DEF Latest, Emptied, Channel
  <2>3. TransferInv(current)
    BY <2>1 DEF SendInv
  <2>4. /\ Emptied \in [Transfer -> {"empty"} \cup Reported]
        /\ \A x \in Transfer : Emptied[x] \in {updates[x], "empty"}
        /\ Emptied[current] = "empty"
    BY <2>1, <2>2 DEF SendInv, SendTypeOK
  <2>5. updates[current] \in {"empty", "transferring"} \cup Verdict
    BY <2>1 DEF SendInv, SendTypeOK, Reported
  <2>6. CASE updates[current] = "empty"
    BY <1>2, <2>2, <2>4, <2>6 DEF SendInv, SendTypeOK, DialogInv, ShownIsOwn, Reported, Verdict
  <2>7. CASE updates[current] # "empty"
    BY <1>2, <2>2, <2>3, <2>4, <2>5, <2>7
      DEF TransferInv, Told, Reported, Verdict
  <2> QED
    BY <2>6, <2>7
<1> QED
  BY <1>1, <1>2

LEMMA DialogHolds == ASSUME SendInv, Dialog PROVE SendInv'
<1>1. SendTypeOK'
  BY DEF SendInv, SendTypeOK, Dialog, Share, Dismiss, Fill
<1>2. ASSUME NEW x \in Transfer PROVE TransferInv(x)'
  BY <1>2 DEF SendInv, TransferInv, Started, Told, Ends, Dialog
<1>3. CASE Share \/ Dismiss
  BY <1>1, <1>2, <1>3
    DEF SendInv, DialogInv, ShownIsOwn, EndIsShown, Latest, Channel, Dialog, Share, Dismiss
<1>4. CASE Fill
  BY <1>1, <1>2, <1>4
    DEF SendInv, DialogInv, ShownIsOwn, EndIsShown, Reported, Verdict, Dialog, Fill
<1> QED
  BY <1>3, <1>4 DEF Dialog

\* A transfer whose channel is emptied by the UI.
LEMMA EmptyingHolds ==
  ASSUME SendInv, NEW x \in Transfer,
         updates'[x] \in {updates[x], "empty"},
         UNCHANGED <<verdict, reader, left>>,
         x \in cancelled' => x \in cancelled \/ sender[x] # "new",
         x \in cancelled => x \in cancelled',
         sender'[x] = sender[x]
  PROVE  TransferInv(x)'
BY DEF SendInv, TransferInv, Started, Told, Ends, Verdict

LEMMA DrawFrameHolds == ASSUME SendInv, DrawFrame PROVE SendInv'
<1>1. /\ info' = Latest /\ updates' = Emptied /\ invalid' = FALSE
      /\ UNCHANGED <<shown, current, cancelled, sender, verdict, reader, left>>
  BY DEF DrawFrame
<1>2. SendTypeOK'
  BY <1>1, LatestIs DEF SendInv, SendTypeOK
<1>3. ASSUME NEW x \in Transfer PROVE TransferInv(x)'
  BY <1>1, <1>3, LatestIs, EmptyingHolds
<1>4. DialogInv'
  BY <1>1, LatestIs DEF SendInv, DialogInv
<1>5. ShownIsOwn'
  BY <1>1, <1>4, LatestIs DEF ShownIsOwn, DialogInv, Reported, Verdict
<1>6. EndIsShown'
  <2>1. SUFFICES ASSUME current # NoTransfer, sender[current] = "ended"
                 PROVE  /\ \/ reader[current] # "idle"
                           \/ Latest' = verdict[current]
                           \/ Latest' = "transferring" /\ verdict[current] = "failed"
                        /\ updates'[current] = "empty"
    BY <1>1 DEF EndIsShown
  <2>2. updates'[current] = "empty"
    BY <1>1, <2>1, LatestIs
  <2>3. Latest' = Latest
    BY <1>1, <2>2 DEF Latest, Channel
  <2> QED
    BY <2>1, <2>2, <2>3 DEF SendInv, EndIsShown
<1> QED
  BY <1>2, <1>3, <1>4, <1>5, <1>6 DEF SendInv

LEMMA ClickCancelHolds == ASSUME SendInv, ClickCancel PROVE SendInv'
<1>1. /\ current' = NoTransfer /\ info' = "not started" /\ invalid' = FALSE
      /\ updates' = Emptied /\ cancelled' = cancelled \cup {current}
      /\ UNCHANGED <<shown, sender, verdict, reader, left>>
      /\ Latest \in {"connecting", "transferring"}
  BY DEF ClickCancel
<1>2. current # NoTransfer /\ current \in Transfer /\ sender[current] # "new"
  <2>1. current # NoTransfer
    BY <1>1, LatestIs
  <2> QED
    BY <2>1 DEF SendInv, SendTypeOK, DialogInv
<1>3. SendTypeOK'
  BY <1>1, <1>2, LatestIs DEF SendInv, SendTypeOK
<1>4. ASSUME NEW x \in Transfer PROVE TransferInv(x)'
  BY <1>1, <1>2, <1>4, LatestIs, EmptyingHolds
<1>5. DialogInv' /\ ShownIsOwn' /\ EndIsShown'
  BY <1>1 DEF DialogInv, ShownIsOwn, EndIsShown, Reported, Verdict
<1> QED
  BY <1>3, <1>4, <1>5 DEF SendInv

LEMMA ClickSendHolds == ASSUME SendInv, ClickSend PROVE SendInv'
<1>1. /\ updates' = Emptied /\ invalid' = FALSE
      /\ UNCHANGED <<shown, cancelled, verdict, reader, left>>
  BY DEF ClickSend
<1>2. PICK x \in Transfer :
        /\ sender[x] = "new" /\ current' = x /\ info' = "connecting"
        /\ sender' = [sender EXCEPT ![x] = "sending"]
  BY DEF ClickSend
<1>3. /\ sender'[x] = "sending" /\ x # NoTransfer
      /\ \A y \in Transfer \ {x} : sender'[y] = sender[y]
  BY <1>2, TransferAssumption DEF SendInv, SendTypeOK
<1>4. updates[x] = "empty" /\ reader[x] = "idle" /\ x \notin cancelled
  BY <1>2 DEF SendInv, TransferInv, Started
<1>5. updates'[x] = "empty"
  BY <1>1, <1>4, LatestIs
<1>6. SendTypeOK'
  BY <1>1, <1>2, LatestIs DEF SendInv, SendTypeOK
<1>7. ASSUME NEW y \in Transfer PROVE TransferInv(y)'
  <2>1. CASE y = x
    BY <1>1, <1>3, <1>4, <1>5, <2>1
      DEF SendInv, TransferInv, Started, Told, Ends, Verdict
  <2>2. CASE y # x
    BY <1>1, <1>3, <1>7, <2>2, LatestIs, EmptyingHolds
  <2> QED
    BY <2>1, <2>2
<1>8. DialogInv'
  BY <1>1, <1>2, <1>3, <1>4 DEF DialogInv
<1>9. ShownIsOwn' /\ EndIsShown'
  BY <1>1, <1>2, <1>3, <1>4, <1>5 DEF ShownIsOwn, EndIsShown, Reported, Verdict
<1> QED
  BY <1>6, <1>7, <1>8, <1>9 DEF SendInv

-----------------------------------------------------------------------------
\* A step of the goroutines of one transfer.
Steps(x) ==
  /\ UNCHANGED <<dialogVars, cancelled>>
  /\ \A y \in Transfer \ {x} :
       /\ updates'[y] = updates[y] /\ sender'[y] = sender[y] /\ verdict'[y] = verdict[y]
       /\ reader'[y] = reader[y] /\ left'[y] = left[y]

\* It leaves the others as they were, and the dialog, unless it is the one that
\* the dialog shows.
LEMMA SendStepHolds ==
  ASSUME SendInv, NEW x \in Transfer, Steps(x), SendTypeOK', TransferInv(x)',
         invalid => invalid',
         x = current =>
           /\ sender'[x] # "new"
           /\ info \in Verdict => sender'[x] = "ended" /\ verdict'[x] = info
           /\ info = "transferring" => left'[x] < Chunks
           /\ EndIsShown'
  PROVE  SendInv'
<1>1. UNCHANGED <<shown, current, info, cancelled>>
  BY DEF Steps, dialogVars
<1>2. ASSUME NEW y \in Transfer PROVE TransferInv(y)'
  <2>1. CASE y = x
    BY <2>1
  <2>2. CASE y # x
    BY <1>1, <1>2, <2>2 DEF SendInv, TransferInv, Started, Told, Ends, Steps
  <2> QED
    BY <2>1, <2>2
<1>3. CASE x = current
  BY <1>1, <1>2, <1>3 DEF SendInv, DialogInv, ShownIsOwn
<1>4. CASE x # current
  <2>1. current # NoTransfer => current \in Transfer \ {x}
    BY <1>4 DEF SendInv, SendTypeOK
  <2>2. current # NoTransfer =>
          /\ updates'[current] = updates[current] /\ sender'[current] = sender[current]
          /\ verdict'[current] = verdict[current] /\ reader'[current] = reader[current]
          /\ left'[current] = left[current]
    BY <2>1 DEF Steps
  <2>3. DialogInv'
    BY <1>1, <2>2 DEF SendInv, DialogInv
  <2>4. ShownIsOwn'
    BY <1>1, <2>2 DEF SendInv, ShownIsOwn, Reported, Verdict
  <2>5. EndIsShown'
    BY <1>1, <2>2 DEF SendInv, EndIsShown, Latest, Channel
  <2> QED
    BY <1>2, <2>3, <2>4, <2>5 DEF SendInv
<1> QED
  BY <1>3, <1>4

LEMMA ReadHolds == ASSUME SendInv, NEW x \in Transfer, Read(x) PROVE SendInv'
<1>1. /\ sender[x] # "new" /\ reader[x] = "idle" /\ left[x] > 0
      /\ left' = [left EXCEPT ![x] = @ - 1]
      /\ reader' = [reader EXCEPT ![x] = "drain"]
      /\ UNCHANGED <<dialogVars, invalid, updates, cancelled, sender, verdict>>
  BY DEF Read
<1>2. left[x] \in 0..Chunks /\ left'[x] = left[x] - 1 /\ reader'[x] = "drain"
  BY <1>1 DEF SendInv, SendTypeOK
<1>3. left'[x] \in 0..Chunks /\ left'[x] < Chunks
  BY <1>1, <1>2, TransferAssumption
<1>4. SendTypeOK'
  BY <1>1, <1>2, <1>3 DEF SendInv, SendTypeOK, dialogVars
<1>5. Steps(x)
  BY <1>1 DEF SendInv, SendTypeOK, Steps
<1>6. TransferInv(x)'
  BY <1>1, <1>2, <1>3 DEF SendInv, TransferInv, Started, Told, Ends, Verdict
<1>7. x = current => EndIsShown'
  BY <1>1, <1>2 DEF SendInv, EndIsShown, dialogVars
<1> QED
  BY <1>1, <1>3, <1>4, <1>5, <1>6, <1>7, SendStepHolds DEF SendInv, ShownIsOwn, dialogVars

LEMMA ReaderHolds == ASSUME SendInv, NEW x \in Transfer, Reader(x) PROVE SendInv'
<1>1. UNCHANGED <<dialogVars, cancelled, sender, verdict, left>> /\ reader[x] # "idle"
  BY DEF Reader, ReaderDrain, ReaderPut
<1>2. /\ sender[x] # "new" /\ left[x] < Chunks /\ verdict[x] # "complete"
      /\ sender[x] = "ended" => x \in cancelled \/ verdict[x] = "failed"
  BY <1>1 DEF SendInv, TransferInv, Started, Told, Ends, Verdict
<1>3. CASE ReaderDrain(x)
  <2>1. /\ reader' = [reader EXCEPT ![x] = "put"] /\ UNCHANGED invalid
        /\ updates' = [updates EXCEPT ![x] = "empty"]
    BY <1>3 DEF ReaderDrain, Channel
  <2>2. reader'[x] = "put" /\ updates'[x] = "empty"
    BY <2>1 DEF SendInv, SendTypeOK
  <2>3. SendTypeOK'
    BY <1>1, <2>1 DEF SendInv, SendTypeOK, dialogVars
  <2>4. Steps(x)
    BY <1>1, <2>1 DEF SendInv, SendTypeOK, Steps
  <2>5. TransferInv(x)'
    BY <1>1, <1>2, <2>2 DEF SendInv, TransferInv, Started, Told, Ends, Verdict
  <2>6. x = current => EndIsShown'
    BY <1>1, <2>2 DEF EndIsShown, dialogVars
  <2> QED
    BY <1>1, <1>2, <2>1, <2>3, <2>4, <2>5, <2>6, SendStepHolds DEF SendInv, ShownIsOwn
<1>4. CASE ReaderPut(x)
  <2>1. /\ reader' = [reader EXCEPT ![x] = "idle"] /\ invalid' = TRUE
        /\ updates' = [updates EXCEPT ![x] = "transferring"]
    BY <1>4 DEF ReaderPut, Channel
  <2>2. reader'[x] = "idle" /\ updates'[x] = "transferring"
    BY <2>1 DEF SendInv, SendTypeOK
  <2>3. SendTypeOK'
    BY <1>1, <2>1 DEF SendInv, SendTypeOK, Reported, dialogVars
  <2>4. Steps(x)
    BY <1>1, <2>1 DEF SendInv, SendTypeOK, Steps
  <2>5. TransferInv(x)'
    BY <1>1, <1>2, <2>2 DEF SendInv, TransferInv, Started, Told, Ends, Verdict
  <2>6. x = current => EndIsShown'
    BY <1>1, <1>2, <2>1, <2>2
      DEF SendInv, DialogInv, EndIsShown, Latest, Channel, dialogVars
  <2> QED
    BY <1>1, <1>2, <2>1, <2>3, <2>4, <2>5, <2>6, SendStepHolds DEF SendInv, ShownIsOwn
<1> QED
  BY <1>3, <1>4 DEF Reader

LEMMA SendEndsHolds == ASSUME SendInv, NEW x \in Transfer, SendEnds(x) PROVE SendInv'
<1>1. PICK v \in Verdict :
        /\ v = "complete" => AllRead(x)
        /\ verdict' = [verdict EXCEPT ![x] = v]
  BY DEF SendEnds
<1>2. /\ sender[x] = "sending" /\ sender' = [sender EXCEPT ![x] = "drain"]
      /\ UNCHANGED <<dialogVars, invalid, updates, cancelled, reader, left>>
  BY DEF SendEnds
<1>3. sender'[x] = "drain" /\ verdict'[x] = v
  BY <1>1, <1>2 DEF SendInv, SendTypeOK
<1>4. SendTypeOK'
  BY <1>1, <1>2 DEF SendInv, SendTypeOK, dialogVars
<1>5. Steps(x)
  BY <1>1, <1>2 DEF SendInv, SendTypeOK, Steps
<1>6. TransferInv(x)'
  BY <1>1, <1>2, <1>3 DEF SendInv, TransferInv, Started, Told, Ends, AllRead, Verdict
<1>7. x = current => info \notin Verdict
  BY <1>2, TransferAssumption DEF SendInv, ShownIsOwn, Verdict
<1>8. x = current => EndIsShown'
  BY <1>2, <1>3 DEF SendInv, EndIsShown, dialogVars
<1> QED
  BY <1>2, <1>3, <1>4, <1>5, <1>6, <1>7, <1>8, SendStepHolds DEF SendInv, ShownIsOwn

LEMMA SenderHolds == ASSUME SendInv, NEW x \in Transfer, Sender(x) PROVE SendInv'
<1>1. /\ UNCHANGED <<dialogVars, cancelled, verdict, reader, left>>
      /\ sender[x] \in {"sending", "drain", "put"}
  BY DEF Sender, SendCancelled, SenderDrain, SenderPut
<1>2. x = current => info \notin Verdict /\ x \notin cancelled
  BY <1>1, TransferAssumption DEF SendInv, DialogInv, ShownIsOwn, Verdict
<1>3. CASE SendCancelled(x)
  <2>1. /\ x \in cancelled /\ sender' = [sender EXCEPT ![x] = "ended"]
        /\ invalid' = TRUE /\ UNCHANGED updates /\ sender[x] = "sending"
    BY <1>3 DEF SendCancelled
  <2>2. sender'[x] = "ended" /\ x # current
    BY <1>2, <2>1 DEF SendInv, SendTypeOK
  <2>3. SendTypeOK'
    BY <1>1, <2>1 DEF SendInv, SendTypeOK, dialogVars
  <2>4. Steps(x)
    BY <1>1, <2>1 DEF SendInv, SendTypeOK, Steps
  <2>5. TransferInv(x)'
    BY <1>1, <2>1, <2>2 DEF SendInv, TransferInv, Started, Told, Ends, Verdict
  <2> QED
    BY <2>1, <2>2, <2>3, <2>4, <2>5, SendStepHolds
<1>4. CASE SenderDrain(x)
  <2>1. /\ sender' = [sender EXCEPT ![x] = "put"] /\ UNCHANGED invalid
        /\ updates' = [updates EXCEPT ![x] = "empty"] /\ sender[x] = "drain"
    BY <1>4 DEF SenderDrain, Channel
  <2>2. sender'[x] = "put" /\ updates'[x] = "empty"
    BY <2>1 DEF SendInv, SendTypeOK
  <2>3. SendTypeOK'
    BY <1>1, <2>1 DEF SendInv, SendTypeOK, dialogVars
  <2>4. Steps(x)
    BY <1>1, <2>1 DEF SendInv, SendTypeOK, Steps
  <2>5. TransferInv(x)'
    BY <1>1, <2>1, <2>2 DEF SendInv, TransferInv, Started, Told, Ends, Verdict
  <2>6. x = current => EndIsShown'
    BY <1>1, <2>2 DEF EndIsShown, dialogVars
  <2> QED
    BY <1>1, <1>2, <2>1, <2>2, <2>3, <2>4, <2>5, <2>6, SendStepHolds DEF SendInv, ShownIsOwn
<1>5. CASE SenderPut(x)
  <2>1. /\ sender' = [sender EXCEPT ![x] = "ended"] /\ invalid' = TRUE
        /\ updates' = [updates EXCEPT ![x] = verdict[x]] /\ sender[x] = "put"
    BY <1>5 DEF SenderPut, AsksForFrame, Channel
  <2>2. sender'[x] = "ended" /\ updates'[x] = verdict[x] /\ verdict[x] \in Verdict
    BY <2>1 DEF SendInv, SendTypeOK, TransferInv, Ends
  <2>3. SendTypeOK'
    BY <1>1, <2>1, <2>2 DEF SendInv, SendTypeOK, Reported, dialogVars
  <2>4. Steps(x)
    BY <1>1, <2>1 DEF SendInv, SendTypeOK, Steps
  <2>5. TransferInv(x)'
    BY <1>1, <2>1, <2>2 DEF SendInv, TransferInv, Started, Told, Ends, Verdict
  <2>6. x = current => EndIsShown'
    BY <1>1, <2>1, <2>2 DEF EndIsShown, Latest, Channel, Verdict, dialogVars
  <2> QED
    BY <1>1, <1>2, <2>1, <2>2, <2>3, <2>4, <2>5, <2>6, SendStepHolds DEF SendInv, ShownIsOwn
<1> QED
  BY <1>3, <1>4, <1>5 DEF Sender

LEMMA SendNextHolds == ASSUME SendInv, [SendNext]_sendVars PROVE SendInv'
<1>1. CASE UNCHANGED sendVars
  BY <1>1 DEF sendVars, dialogVars, SendInv, SendTypeOK, TransferInv, Started, Told, Ends,
    DialogInv, ShownIsOwn, EndIsShown, Latest, Channel
<1>2. CASE SendNext
  BY <1>2, DialogHolds, DrawFrameHolds, ClickCancelHolds, ClickSendHolds, ReadHolds,
    ReaderHolds, SendEndsHolds, SenderHolds DEF SendNext
<1> QED
  BY <1>1, <1>2

-----------------------------------------------------------------------------
\* The variables of the sending side have their types.
THEOREM SendTyped == SendSpec => []SendTypeOK
<1>1. SendInv => SendTypeOK
  BY DEF SendInv
<1> QED
  BY <1>1, SendInitHolds, SendNextHolds, PTL DEF SendSpec

\* What the dialog shows of a target (t.info) is true of the transfer that the
\* user started last.
THEOREM DialogShowsOwn == SendSpec => []ShownIsOwn
<1>1. SendInv => ShownIsOwn
  BY DEF SendInv
<1> QED
  BY <1>1, SendInitHolds, SendNextHolds, PTL DEF SendSpec

\* How a transfer has ended (the last report of sendFiles) reaches the dialog, for
\* any number of transfers and of reads.
THEOREM DialogShowsEnd == SendSpec => []EndIsShown
<1>1. SendInv => EndIsShown
  BY DEF SendInv
<1> QED
  BY <1>1, SendInitHolds, SendNextHolds, PTL DEF SendSpec
=============================================================================
