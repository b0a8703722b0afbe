------------------------------ MODULE MultiTUN ------------------------------
(***************************************************************************)
(* cmd/tailscale/multitun.go: a tun.Device that stands in front of the     *)
(* devices Android hands out, one per VPN configuration.                   *)
(*                                                                         *)
(* Threads: the goroutine of run(); for each device a reader (readFrom), a *)
(* runner (runDevice) and an event pump; the main loop of the backend,     *)
(* which calls Shutdown and add from updateTUN; the engine, which calls    *)
(* Read, Write, MTU, Name and Close.  All the channels but readDone        *)
(* (capacity 1) are unbuffered: a rendezvous is one step of both sides.    *)
(***************************************************************************)
EXTENDS Naturals, Sequences

CONSTANTS
  Dev,          \* the devices the backend may establish, each at most once
  None,         \* the nil channel of the variables readDone and runDone
  Handover,     \* may add be called while a device is up?  (updateTUN: no)
  CanClose,     \* may the engine call Close?
  CanBreak      \* may Android take an interface away under its reader?

ASSUME NoneAssumption == None \notin Dev
ASSUME ModeAssumption == {Handover, CanClose, CanBreak} \subseteq BOOLEAN

VARIABLES
  devices,      \* run: the devices, oldest first
  readDone,     \* run: the device whose readDone channel is selected on
  runDone,      \* run: the device whose closeDone channel is selected on
  runPc,        \* where the goroutine of run() is
  pos,          \* run: the position of a loop over devices
  devClose,     \* the devices whose channel tunDevice.close is closed
  readTok,      \* the number of notifications in tunDevice.readDone
  fd,           \* the file descriptor of the device
  broken,       \* the devices whose interface Android took away
  reader,       \* where the goroutine of readFrom is
  runner,       \* where the goroutine of runDevice is
  pump,         \* where the event pump of runDevice is
  caller,       \* the main loop: idle, or the channel it waits on
  adding,       \* the argument of add
  last,         \* the call the main loop made last, once it returns
  eng           \* the engine's calls of Read, Write, MTU or Name, and Close

mainVars   == <<caller, adding, last>>
runVars    == <<devices, readDone, runDone, runPc, pos>>
devVars    == <<devClose, readTok, fd, broken>>
driverVars == <<reader, runner, pump>>
vars       == <<mainVars, runVars, devVars, driverVars, eng>>

RunPc == {"select", "shutClose", "shutCloseDone", "shutReadDone", "shutAck",
          "closeWait", "closeAck", "done", "panic"}
ReaderPc == {"none", "select", "read", "replyOk", "replyErr", "replyStop",
             "exit", "done"}

TypeOK ==
  /\ devices \in Seq(Dev)
  /\ readDone \in Dev \cup {None} /\ runDone \in Dev \cup {None}
  /\ runPc \in RunPc
  /\ pos \in Nat
  /\ runPc \in {"shutClose", "shutCloseDone", "shutReadDone", "closeWait"}
       => pos \in 1..Len(devices)
  /\ devClose \subseteq Dev
  /\ readTok \in [Dev -> 0..1]
  /\ fd \in [Dev -> {"none", "open", "closed"}]
  /\ broken \subseteq Dev
  /\ reader \in [Dev -> ReaderPc]
  /\ runner \in [Dev -> {"none", "select", "write", "send", "done"}]
  /\ pump \in [Dev -> {"none", "select", "send", "done"}]
  /\ caller \in {"idle", "shutdowns", "shutdownDone", "devices"}
  /\ adding \in Dev \cup {None}
  /\ caller = "devices" => adding \in Dev
  /\ last \in {"none", "Shutdown", "add"}
  /\ eng \in [Read : {"idle", "request", "wait", "failed"},
              Write : {"idle", "request", "wait"},
              Query : {"idle", "request"},
              Close : {"idle", "wait", "done"}]

Init ==
  /\ devices = <<>> /\ readDone = None /\ runDone = None
  /\ runPc = "select" /\ pos = 1
  /\ devClose = {}
  /\ readTok = [d \in Dev |-> 0]
  /\ fd = [d \in Dev |-> "none"]
  /\ broken = {}
  /\ reader = [d \in Dev |-> "none"]
  /\ runner = [d \in Dev |-> "none"]
  /\ pump = [d \in Dev |-> "none"]
  /\ caller = "idle" /\ adding = None /\ last = "none"
  /\ eng = [Read |-> "idle", Write |-> "idle", Query |-> "idle", Close |-> "idle"]

\* Is the channel multiTUN.close closed?
dClose == eng.Close # "idle"

\* Variants with a slip, which the properties must tell from the code.
EmptiedNever == devices
NotifiedAlways(d) == TRUE
ReaderAskedByClose(d) == dClose
RunnerAskedByDevice(d) == d \in devClose
RunnerAskedByClose(d) == dClose
PumpAskedByClose(d) == dClose
MayAddAlways == TRUE
FirstDeviceAlways == TRUE
NotLastTooFar == pos <= Len(devices)

Newest == devices[Len(devices)]

\* The device added is the only one.
FirstDevice == devices = <<>>

\* The device to read when the oldest has reached the end
NextOldest == devices[2]

\* The loop over devices has another one to go.
NotLast == pos < Len(devices)

\* devices = nil, after Shutdown has closed them all
Emptied == <<>>

\* A notification is pending in readDone.
Notified(d) == readTok[d] = 1

\* The checks of dev.close (and d.close) by the goroutines of a device
ReaderAsked(d) == d \in devClose
RunnerAsked(d) == d \in devClose \/ dClose
PumpAsked(d) == d \in devClose

\* updateTUN calls CloseTUNs, and so Shutdown, before it establishes a device.
MayAdd == last = "Shutdown" \/ Handover

-----------------------------------------------------------------------------
(* The main loop: Shutdown from CloseTUNs, add from updateTUN, which has   *)
(* always called CloseTUNs before it establishes the next device.          *)

CallShutdown ==
  /\ caller = "idle"
  /\ caller' = "shutdowns"
  /\ UNCHANGED <<adding, last, runVars, devVars, driverVars, eng>>

CallAdd(d) ==
  /\ caller = "idle"
  /\ fd[d] = "none"
  /\ MayAdd
  /\ fd' = [fd EXCEPT ![d] = "open"]
  /\ caller' = "devices"
  /\ adding' = d
  /\ last' = "add"
  /\ UNCHANGED <<runVars, devClose, readTok, broken, driverVars, eng>>

-----------------------------------------------------------------------------
(* The goroutine of run().                                                 *)

StartReader(d) == [reader EXCEPT ![d] = "select"]

\* case <-readDone: devices[1:] of an empty slice would panic.
RunReadDone ==
  /\ runPc = "select" /\ readDone # None
  /\ readTok[readDone] = 1
  /\ readTok' = [readTok EXCEPT ![readDone] = 0]
  /\ IF devices = <<>>
     THEN runPc' = "panic" /\ UNCHANGED <<devices, readDone, reader>>
     ELSE /\ devices' = Tail(devices)
          /\ IF Len(devices) > 1
             THEN readDone' = NextOldest /\ reader' = StartReader(NextOldest)
             ELSE UNCHANGED <<readDone, reader>>
          /\ UNCHANGED runPc
  /\ UNCHANGED <<mainVars, runDone, pos, devClose, fd, broken, runner, pump,
                 eng>>

\* case <-runDone: the runner of runDone ends, the newest device gets one.
RunRunDone ==
  /\ runPc = "select" /\ runDone # None
  /\ runner[runDone] = "send"
  /\ IF devices = <<>>
     THEN /\ runner' = [runner EXCEPT ![runDone] = "done"]
          /\ UNCHANGED <<runDone, pump>>
     ELSE /\ runDone' = Newest
          /\ runner' = [runner EXCEPT ![runDone] = "done", ![Newest] = "select"]
          /\ pump' = [pump EXCEPT ![Newest] = "select"]
  /\ UNCHANGED <<mainVars, devices, readDone, runPc, pos, devVars, reader,
                 eng>>

\* case <-d.shutdowns
RunShutdown ==
  /\ runPc = "select" /\ caller = "shutdowns"
  /\ caller' = "shutdownDone"
  /\ runPc' = IF devices = <<>> THEN "shutAck" ELSE "shutClose"
  /\ pos' = 1
  /\ UNCHANGED <<adding, last, devices, readDone, runDone, devVars,
                 driverVars, eng>>

\* close(dev.close), which panics if the channel is closed already
ShutClose ==
  /\ runPc = "shutClose"
  /\ IF devices[pos] \in devClose
     THEN runPc' = "panic" /\ UNCHANGED devClose
     ELSE /\ devClose' = devClose \cup {devices[pos]}
          /\ runPc' = "shutCloseDone"
  /\ UNCHANGED <<mainVars, devices, readDone, runDone, pos, readTok, fd,
                 broken, driverVars, eng>>

\* <-dev.closeDone
ShutCloseDone ==
  /\ runPc = "shutCloseDone"
  /\ runner[devices[pos]] = "send"
  /\ runner' = [runner EXCEPT ![devices[pos]] = "done"]
  /\ runPc' = "shutReadDone"
  /\ UNCHANGED <<mainVars, devices, readDone, runDone, pos, devVars, reader,
                 pump, eng>>

\* <-dev.readDone, and after the last device devices = nil
ShutReadDone ==
  /\ runPc = "shutReadDone"
  /\ Notified(devices[pos])
  /\ readTok' = [readTok EXCEPT ![devices[pos]] = 0]
  /\ IF NotLast
     THEN pos' = pos + 1 /\ runPc' = "shutClose" /\ UNCHANGED devices
     ELSE devices' = Emptied /\ runPc' = "shutAck" /\ UNCHANGED pos
  /\ UNCHANGED <<mainVars, readDone, runDone, devClose, fd, broken,
                 driverVars, eng>>

\* d.shutdownDone <- struct{}{}
ShutAck ==
  /\ runPc = "shutAck" /\ caller = "shutdownDone"
  /\ runPc' = "select"
  /\ caller' = "idle"
  /\ last' = "Shutdown"
  /\ UNCHANGED <<adding, devices, readDone, runDone, pos, devVars,
                 driverVars, eng>>

\* case <-d.close
RunClose ==
  /\ runPc = "select" /\ dClose
  /\ runPc' = IF devices = <<>> THEN "closeAck" ELSE "closeWait"
  /\ pos' = 1
  /\ UNCHANGED <<mainVars, devices, readDone, runDone, devVars, driverVars,
                 eng>>

CloseWait ==
  /\ runPc = "closeWait"
  /\ runner[devices[pos]] = "send"
  /\ runner' = [runner EXCEPT ![devices[pos]] = "done"]
  /\ IF NotLast
     THEN pos' = pos + 1 /\ UNCHANGED runPc
     ELSE runPc' = "closeAck" /\ UNCHANGED pos
  /\ UNCHANGED <<mainVars, devices, readDone, runDone, devVars, reader,
                 pump, eng>>

CloseAck ==
  /\ runPc = "closeAck" /\ eng.Close = "wait"
  /\ runPc' = "done"
  /\ eng' = [eng EXCEPT !.Close = "done"]
  /\ UNCHANGED <<mainVars, devices, readDone, runDone, pos, devVars,
                 driverVars>>

\* case dev := <-d.devices
RunAdd ==
  /\ runPc = "select" /\ caller = "devices"
  /\ caller' = "idle"
  /\ adding' = None
  /\ devices' = Append(devices, adding)
  /\ IF FirstDevice
     THEN /\ readDone' = adding /\ reader' = StartReader(adding)
          /\ runDone' = adding
          /\ runner' = [runner EXCEPT ![adding] = "select"]
          /\ pump' = [pump EXCEPT ![adding] = "select"]
          /\ UNCHANGED <<runPc, devClose>>
     ELSE /\ IF Newest \in devClose
             THEN runPc' = "panic" /\ UNCHANGED devClose
             ELSE /\ devClose' = devClose \cup {Newest}
                  /\ UNCHANGED runPc
          /\ UNCHANGED <<readDone, runDone, driverVars>>
  /\ UNCHANGED <<last, pos, readTok, fd, broken, eng>>

\* case m := <-d.mtus, case n := <-d.names
RunQuery ==
  /\ runPc = "select" /\ eng.Query = "request"
  /\ eng' = [eng EXCEPT !.Query = "idle"]
  /\ UNCHANGED <<mainVars, runVars, devVars, driverVars>>

-----------------------------------------------------------------------------
(* readFrom                                                                *)

ReaderTake(d) ==
  /\ reader[d] = "select" /\ eng.Read = "request"
  /\ reader' = [reader EXCEPT ![d] = "read"]
  /\ eng' = [eng EXCEPT !.Read = "wait"]
  /\ UNCHANGED <<mainVars, runVars, devVars, runner, pump>>

\* A packet arrives.
ReaderRead(d) ==
  /\ reader[d] = "read" /\ fd[d] = "open" /\ d \notin broken
  /\ reader' = [reader EXCEPT ![d] = "replyOk"]
  /\ UNCHANGED <<mainVars, runVars, devVars, runner, pump, eng>>

\* dev.Read fails: the error is hidden if the device was asked to stop.
ReaderError(d) ==
  /\ reader[d] = "read" /\ (fd[d] = "closed" \/ d \in broken)
  /\ reader' = [reader EXCEPT
                  ![d] = IF ReaderAsked(d) THEN "replyStop" ELSE "replyErr"]
  /\ UNCHANGED <<mainVars, runVars, devVars, runner, pump, eng>>

ReaderReply(d) ==
  /\ reader[d] \in {"replyOk", "replyErr", "replyStop"}
  /\ eng.Read = "wait"
  /\ eng' = [eng EXCEPT !.Read = IF reader[d] = "replyErr" THEN "failed" ELSE "idle"]
  /\ reader' = [reader EXCEPT
                  ![d] = IF reader[d] = "replyStop" THEN "exit" ELSE "select"]
  /\ UNCHANGED <<mainVars, runVars, devVars, runner, pump>>

ReaderQuit(d) ==
  /\ reader[d] = "select" /\ dClose
  /\ reader' = [reader EXCEPT ![d] = "exit"]
  /\ UNCHANGED <<mainVars, runVars, devVars, runner, pump, eng>>

\* The deferred dev.readDone <- struct{}{}, a channel of capacity 1.
ReaderExit(d) ==
  /\ reader[d] = "exit" /\ readTok[d] = 0
  /\ reader' = [reader EXCEPT ![d] = "done"]
  /\ readTok' = [readTok EXCEPT ![d] = 1]
  /\ UNCHANGED <<mainVars, runVars, devClose, fd, broken, runner, pump, eng>>

-----------------------------------------------------------------------------
(* runDevice and its event pump                                            *)

RunnerTake(d) ==
  /\ runner[d] = "select" /\ eng.Write = "request"
  /\ runner' = [runner EXCEPT ![d] = "write"]
  /\ eng' = [eng EXCEPT !.Write = "wait"]
  /\ UNCHANGED <<mainVars, runVars, devVars, reader, pump>>

RunnerWrite(d) ==
  /\ runner[d] = "write"
  /\ runner' = [runner EXCEPT ![d] = "select"]
  /\ eng' = [eng EXCEPT !.Write = "idle"]
  /\ UNCHANGED <<mainVars, runVars, devVars, reader, pump>>

\* case <-dev.close, case <-d.close, and the deferred dev.Close()
RunnerClose(d) ==
  /\ runner[d] = "select" /\ RunnerAsked(d)
  /\ fd' = [fd EXCEPT ![d] = "closed"]
  /\ runner' = [runner EXCEPT ![d] = "send"]
  /\ UNCHANGED <<mainVars, runVars, devClose, readTok, broken, reader, pump,
                 eng>>

PumpEvent(d) ==
  /\ pump[d] = "select"
  /\ pump' = [pump EXCEPT ![d] = "send"]
  /\ UNCHANGED <<mainVars, runVars, devVars, reader, runner, eng>>

PumpSend(d) ==
  /\ pump[d] = "send"
  /\ pump' = [pump EXCEPT ![d] = "select"]
  /\ UNCHANGED <<mainVars, runVars, devVars, reader, runner, eng>>

PumpExit(d) ==
  /\ pump[d] = "select" /\ PumpAsked(d)
  /\ pump' = [pump EXCEPT ![d] = "done"]
  /\ UNCHANGED <<mainVars, runVars, devVars, reader, runner, eng>>

-----------------------------------------------------------------------------
(* The engine (outside the repository): it reads in a loop until a Read    *)
(* fails, writes and asks when it likes, and closes the device once.       *)

EngineRead ==
  /\ eng.Read = "idle"
  /\ eng' = [eng EXCEPT !.Read = "request"]
  /\ UNCHANGED <<mainVars, runVars, devVars, driverVars>>

EngineWrite ==
  /\ eng.Write = "idle"
  /\ eng' = [eng EXCEPT !.Write = "request"]
  /\ UNCHANGED <<mainVars, runVars, devVars, driverVars>>

EngineQuery ==
  /\ eng.Query = "idle"
  /\ eng' = [eng EXCEPT !.Query = "request"]
  /\ UNCHANGED <<mainVars, runVars, devVars, driverVars>>

EngineClose ==
  /\ CanClose /\ eng.Close = "idle"
  /\ eng' = [eng EXCEPT !.Close = "wait"]
  /\ UNCHANGED <<mainVars, runVars, devVars, driverVars>>

\* Android takes the interface away (the VPN is revoked): Read will fail.
Break(d) ==
  /\ CanBreak /\ fd[d] = "open" /\ d \notin broken
  /\ broken' = broken \cup {d}
  /\ UNCHANGED <<mainVars, runVars, devClose, readTok, fd, driverVars, eng>>

-----------------------------------------------------------------------------
Main == CallShutdown \/ \E d \in Dev : CallAdd(d)

Run ==
  \/ RunReadDone \/ RunRunDone \/ RunAdd \/ RunQuery
  \/ RunShutdown \/ ShutClose \/ ShutCloseDone \/ ShutReadDone \/ ShutAck
  \/ RunClose \/ CloseWait \/ CloseAck

Reader(d) ==
  \/ ReaderTake(d) \/ ReaderRead(d) \/ ReaderError(d) \/ ReaderReply(d)
  \/ ReaderQuit(d) \/ ReaderExit(d)

Runner(d) == RunnerTake(d) \/ RunnerWrite(d) \/ RunnerClose(d)

Pump(d) == PumpEvent(d) \/ PumpSend(d) \/ PumpExit(d)

Engine == EngineRead \/ EngineWrite \/ EngineQuery \/ EngineClose

\* A panic ends the process.
Next ==
  /\ runPc # "panic"
  /\ \/ Main
     \/ Run
     \/ \E d \in Dev : Reader(d)
     \/ \E d \in Dev : Runner(d)
     \/ \E d \in Dev : Pump(d)
     \/ Engine
     \/ \E d \in Dev : Break(d)

Spec == Init /\ [][Next]_vars

(* The scheduler runs every goroutine; a select with several ready cases   *)
(* picks one at random, so a case that is ready again and again is picked. *)
(* The engine goes on reading and draining events.  No packet need arrive, *)
(* and nobody need call Shutdown, add, Write or Close.                     *)
Fairness ==
  /\ WF_vars(ShutClose \/ ShutCloseDone \/ ShutReadDone \/ ShutAck)
  /\ WF_vars(CloseWait \/ CloseAck)
  /\ SF_vars(RunAdd \/ RunShutdown) /\ SF_vars(RunQuery) /\ SF_vars(RunClose)
  /\ SF_vars(RunReadDone) /\ SF_vars(RunRunDone)
  /\ WF_vars(EngineRead)
  /\ \A d \in Dev :
       /\ WF_vars(ReaderTake(d) \/ ReaderError(d) \/ ReaderReply(d) \/ ReaderExit(d))
       /\ SF_vars(ReaderQuit(d))
       /\ WF_vars(RunnerTake(d) \/ RunnerWrite(d)) /\ SF_vars(RunnerClose(d))
       /\ WF_vars(PumpSend(d)) /\ SF_vars(PumpExit(d))

FairSpec == Spec /\ Fairness

-----------------------------------------------------------------------------
(* Properties of the protocol the backend follows (~Handover).             *)

\* Closing a closed channel, or slicing past the end of devices, would
\* panic: Shutdown, add and the deaths of readers never meet that way.
NoPanic == runPc # "panic"

Reading(d) == reader[d] \notin {"none", "done"}
Running(d) == runner[d] \notin {"none", "done"}

\* Packets move through one device at a time: the goroutines of a replaced
\* device have left before those of its successor start, although nothing
\* but the order of Shutdown and add keeps them apart.
OneDriver ==
  \A d, e \in Dev : (Reading(d) \/ Running(d)) /\ (Reading(e) \/ Running(e))
                     => d = e

\* When Shutdown has returned, and until the next add, every descriptor is
\* closed, and no goroutine is left that reads or writes.
ShutdownComplete ==
  last = "Shutdown" => \A d \in Dev : fd[d] # "open" /\ ~Reading(d) /\ ~Running(d)

\* Between two calls, an open descriptor is one the run loop knows, with a
\* runner that will close it: none is leaked.
OpenIsOwned ==
  runPc = "select" =>
    \A d \in Dev : fd[d] = "open" /\ d # adding =>
      runner[d] \in {"select", "write"} /\ \E i \in DOMAIN devices : devices[i] = d

\* No interface leaks and no goroutine outlives its device, whichever of the
\* goroutines is the last to leave: this is what updateTUN relies on before it
\* establishes the next interface.
NeverLeaks == ShutdownComplete /\ OpenIsOwned

\* The engine stops at the first Read error, so replacing the device must be
\* invisible to it: a Read fails only after Android took an interface away.
ReplacementInvisible == eng.Read = "failed" => broken # {} \/ dClose

\* A goroutine that Shutdown waits for has a step to take.
RunnerMoves(d) ==
  runner[d] \in {"write", "send"} \/ (runner[d] = "select" /\ RunnerAsked(d))
ReaderMoves(d) ==
  \/ Notified(d)
  \/ reader[d] = "select" /\ eng.Read \in {"idle", "request"}
  \/ reader[d] = "read" /\ fd[d] = "closed"
  \/ reader[d] \in {"replyOk", "replyErr", "replyStop"} /\ eng.Read = "wait"
  \/ reader[d] = "exit" /\ readTok[d] = 0

\* Main loop, run loop, runner, reader and engine all wait for each other while
\* a device is shut down, and yet never all at once: when the main loop waits the
\* run loop is ready for it or waits for a goroutine that can go on.  (After a
\* failed Read the engine reads no more and closes the device.)
NeverStuck ==
  /\ caller \in {"shutdowns", "devices"} => runPc = "select"
  /\ caller = "shutdownDone" =>
       \/ runPc \in {"shutClose", "shutAck"}
       \/ runPc = "shutCloseDone" /\ RunnerMoves(devices[pos])
       \/ runPc = "shutReadDone" /\ (ReaderMoves(devices[pos]) \/ eng.Read = "failed")

\* Shutdown returns, although the reader may sit in a Read that only the
\* close of the descriptor ends, or in a select that only the next Read ends.
ShutdownReturns == caller = "shutdowns" ~> caller = "idle"

\* The run loop is never stuck: the engine's MTU and Name are answered.
QueryAnswered == eng.Query = "request" ~> eng.Query = "idle"

\* Main loop and engine, which wait for the run loop while it waits for
\* readers and runners that wait for it, get their answers.
LoopServes == ShutdownReturns /\ QueryAnswered

\* The event pump of a device that was shut down ends.
PumpsEnd == \A d \in Dev : d \in devClose ~> pump[d] = "done"

\* Close returns, whatever the goroutines of the device were doing.
CloseReturns == eng.Close = "wait" ~> eng.Close = "done"

-----------------------------------------------------------------------------
(* Properties that hold with seamless handover, too.                       *)

\* One reader and one runner at a time, though not of one device: a packet
\* may still be read from the old device when the new one is written to.
SinglePair ==
  \A d, e \in Dev : (Reading(d) /\ Reading(e)) \/ (Running(d) /\ Running(e))
                     => d = e

\* Devices are read in the order they were added: the reader is the one of
\* the oldest device, so no packet of an older device is read after it.
OldestIsRead == \A d \in Dev : Reading(d) => devices # <<>> /\ d = devices[1]

\* While devices replace each other without a Shutdown, packets are neither
\* reordered nor taken by two goroutines.
ReadInOrder == SinglePair /\ OldestIsRead

\* The devices keep the promise of one open descriptor at a time.
OneTunnel == INSTANCE Tunnel WITH Dev <- Dev, fd <- fd
KeepsPromise == OneTunnel!Spec
=============================================================================
