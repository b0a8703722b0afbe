--------------------------- MODULE MultiTUN_proofs ---------------------------
(***************************************************************************)
(* Proofs about MultiTUN.  First under the protocol of the backend, where  *)
(* every add follows a Shutdown (~Handover), until the engine closes the   *)
(* multiTUN; then with the seamless handover that multitun.go offers.      *)
(***************************************************************************)
EXTENDS MultiTUN, TLAPS

-----------------------------------------------------------------------------
(* The life of one device.                                                 *)

Fresh(d) == /\ fd[d] = "none" /\ d \notin devClose /\ readTok[d] = 0
            /\ reader[d] = "none" /\ runner[d] = "none"

Added(d) == /\ fd[d] = "open" /\ d \notin devClose /\ readTok[d] = 0
            /\ reader[d] = "none" /\ runner[d] = "none"

Up(d) == /\ fd[d] = "open" /\ d \notin devClose /\ readTok[d] = 0
         /\ reader[d] \in {"select", "read", "replyOk", "replyErr"}
         /\ runner[d] \in {"select", "write"}

Leaving(d) == /\ d \in devClose
              /\ reader[d] \in ReaderPc \ {"none"}
              /\ reader[d] = "done" <=> readTok[d] = 1

Closing(d) == /\ Leaving(d)
              /\ \/ runner[d] \in {"select", "write"} /\ fd[d] = "open"
                 \/ runner[d] = "send" /\ fd[d] = "closed"

Closed(d) == Leaving(d) /\ runner[d] = "done" /\ fd[d] = "closed"

Gone(d) == /\ fd[d] = "closed" /\ d \in devClose /\ readTok[d] = 0
           /\ reader[d] = "done" /\ runner[d] = "done"

\* The only device of run() is in the phase that the loop of Shutdown is in;
\* every other device is on its way in, unused, or gone.
DevInv(d) ==
  /\ devices = <<d>> =>
       \/ runPc \in {"select", "shutClose"} /\ Up(d)
       \/ runPc = "shutCloseDone" /\ Closing(d)
       \/ runPc = "shutReadDone" /\ Closed(d)
  /\ devices # <<d>> =>
       IF adding = d THEN Added(d) ELSE Fresh(d) \/ Gone(d)
  /\ reader[d] = "replyErr" => broken # {}

\* Shutdown is under way exactly when its caller waits for it, and add is
\* called only when there is no device.
CallInv ==
  /\ devices = <<>> \/ \E d \in Dev : devices = <<d>>
  /\ pos = 1
  /\ runPc \in {"select", "shutClose", "shutCloseDone", "shutReadDone", "shutAck"}
  /\ runPc = "select" <=> caller # "shutdownDone"
  /\ runPc \in {"shutClose", "shutCloseDone", "shutReadDone"} => devices # <<>>
  /\ runPc = "shutAck" => devices = <<>>
  /\ caller = "devices" <=> adding # None
  /\ caller = "devices" \/ last = "Shutdown" => devices = <<>>
  /\ last = "Shutdown" => caller # "devices"

EngInv ==
  /\ eng.Close = "idle"
  /\ eng.Read = "failed" => broken # {}

IInv == TypeOK /\ CallInv /\ EngInv /\ \A d \in Dev : DevInv(d)

USE DEF RunPc, ReaderPc

-----------------------------------------------------------------------------
\* The initial state satisfies the invariant.
LEMMA InitInv == Init => IInv
BY NoneAssumption DEF Init, IInv, TypeOK, CallInv, EngInv, DevInv, Fresh

\* Every step of the protocol preserves the types.
LEMMA TypeStep ==
  ASSUME TypeOK, [Next]_vars
  PROVE  TypeOK'
<1> USE DEF TypeOK, mainVars, runVars, devVars, driverVars
<1>1. CASE Main
  <2>1. CASE CallShutdown
    BY <2>1 DEF CallShutdown
  <2>2. ASSUME NEW d \in Dev, CallAdd(d) PROVE TypeOK'
    BY <2>2 DEF CallAdd
  <2> QED
    BY <1>1, <2>1, <2>2 DEF Main
<1>2. CASE RunReadDone
  <2>1. CASE devices = <<>>
    BY <1>2, <2>1 DEF RunReadDone
  <2>2. CASE devices # <<>>
    <3>1. Tail(devices) \in Seq(Dev)
      BY <2>2
    <3>2. Len(devices) > 1 => NextOldest \in Dev
      BY DEF NextOldest
    <3>3. readTok' \in [Dev -> 0..1]
      BY <1>2 DEF RunReadDone
    <3>4. CASE Len(devices) > 1
      BY <1>2, <2>2, <3>1, <3>2, <3>3, <3>4 DEF RunReadDone, StartReader
    <3>5. CASE ~(Len(devices) > 1)
      BY <1>2, <2>2, <3>1, <3>3, <3>5 DEF RunReadDone
    <3> QED
      BY <3>4, <3>5
  <2> QED
    BY <2>1, <2>2
<1>3. CASE RunRunDone
  BY <1>3 DEF RunRunDone, Newest
<1>4. CASE RunAdd
  <2>1. adding \in Dev /\ Append(devices, adding) \in Seq(Dev)
    BY <1>4 DEF RunAdd
  <2> QED
    BY <1>4, <2>1 DEF RunAdd, StartReader, Newest, FirstDevice
<1>5. CASE RunQuery
  BY <1>5 DEF RunQuery
<1>6. CASE RunShutdown
  BY <1>6 DEF RunShutdown
<1>7. CASE ShutClose
  BY <1>7 DEF ShutClose
<1>8. CASE ShutCloseDone
  BY <1>8 DEF ShutCloseDone
<1>9. CASE ShutReadDone
  <2>1. readTok' \in [Dev -> 0..1]
    BY <1>9 DEF ShutReadDone
  <2>2. CASE NotLast
    <3>1. pos' = pos + 1 /\ pos + 1 \in 1..Len(devices)
      BY <1>9, <2>2 DEF ShutReadDone, NotLast
    <3> QED
      BY <1>9, <2>1, <2>2, <3>1 DEF ShutReadDone
  <2>3. CASE ~NotLast
    BY <1>9, <2>1, <2>3 DEF ShutReadDone, Emptied
  <2> QED
    BY <2>2, <2>3
<1>10. CASE ShutAck
  BY <1>10 DEF ShutAck
<1>11. CASE RunClose \/ CloseWait \/ CloseAck
  <2>1. CASE RunClose
    BY <2>1 DEF RunClose
  <2>2. CASE CloseWait
    BY <2>2 DEF CloseWait, NotLast
  <2>3. CASE CloseAck
    BY <2>3 DEF CloseAck
  <2> QED
    BY <1>11, <2>1, <2>2, <2>3
<1>12. ASSUME NEW d \in Dev, Reader(d) PROVE TypeOK'
  <2>1. CASE ReaderTake(d) \/ ReaderRead(d) \/ ReaderError(d)
    BY <2>1 DEF ReaderTake, ReaderRead, ReaderError
  <2>2. CASE ReaderReply(d)
    BY <2>2 DEF ReaderReply
  <2>3. CASE ReaderQuit(d)
    BY <2>3 DEF ReaderQuit
  <2>4. CASE ReaderExit(d)
    BY <2>4 DEF ReaderExit
  <2> QED
    BY <1>12, <2>1, <2>2, <2>3, <2>4 DEF Reader
<1>13. ASSUME NEW d \in Dev, Runner(d) PROVE TypeOK'
  <2>1. CASE RunnerTake(d)
    BY <2>1 DEF RunnerTake
  <2>2. CASE RunnerWrite(d)
    BY <2>2 DEF RunnerWrite
  <2>3. CASE RunnerClose(d)
    BY <2>3 DEF RunnerClose
  <2> QED
    BY <1>13, <2>1, <2>2, <2>3 DEF Runner
<1>14. ASSUME NEW d \in Dev, Pump(d) PROVE TypeOK'
  BY <1>14 DEF Pump, PumpEvent, PumpSend, PumpExit
<1>15. CASE Engine
  <2>1. CASE EngineRead
    BY <2>1 DEF EngineRead
  <2>2. CASE EngineWrite
    BY <2>2 DEF EngineWrite
  <2>3. CASE EngineQuery
    BY <2>3 DEF EngineQuery
  <2>4. CASE EngineClose
    BY <2>4 DEF EngineClose
  <2> QED
    BY <1>15, <2>1, <2>2, <2>3, <2>4 DEF Engine
<1>16. ASSUME NEW d \in Dev, Break(d) PROVE TypeOK'
  BY <1>16 DEF Break
<1>17. CASE UNCHANGED vars
  BY <1>17 DEF vars
<1> QED
  BY <1>1, <1>2, <1>3, <1>4, <1>5, <1>6, <1>7, <1>8, <1>9, <1>10, <1>11,
     <1>12, <1>13, <1>14, <1>15, <1>16, <1>17 DEF Next, Run

-----------------------------------------------------------------------------
Protocol == ~Handover /\ ~CanClose

Phases == /\ CallInv /\ EngInv /\ \A d \in Dev : DevInv(d)

\* In the protocol, readDone and closeDone are received by Shutdown only: the
\* cases of the select that would replace a device are never ready.
LEMMA NoReplacement ==
  ASSUME TypeOK, Phases
  PROVE  ~RunReadDone /\ ~RunRunDone /\ ~RunClose /\ ~CloseWait /\ ~CloseAck
<1>1. ASSUME runPc = "select", NEW d \in Dev
      PROVE  readTok[d] = 0 /\ runner[d] # "send"
  <2>1. CASE devices = <<d>>
    BY <1>1, <2>1 DEF Phases, DevInv, Up
  <2>2. CASE devices # <<d>>
    BY <1>1, <2>2 DEF Phases, DevInv, Added, Fresh, Gone
  <2> QED
    BY <2>1, <2>2
<1>2. ~RunReadDone
  BY <1>1 DEF RunReadDone, TypeOK
<1>3. ~RunRunDone
  BY <1>1 DEF RunRunDone, TypeOK
<1>4. ~RunClose /\ ~CloseWait /\ ~CloseAck
  BY DEF Phases, CallInv, EngInv, RunClose, CloseWait, CloseAck, dClose
<1> QED
  BY <1>2, <1>3, <1>4

\* The calls of the main loop preserve the invariant.
LEMMA MainStep ==
  ASSUME TypeOK, Phases, ~Handover, Main
  PROVE  Phases'
<1> USE DEF TypeOK, Phases, mainVars, runVars, devVars, driverVars
<1>1. CASE CallShutdown
  <2>1. CallInv' /\ EngInv'
    BY <1>1, NoneAssumption DEF CallShutdown, CallInv, EngInv
  <2>2. ASSUME NEW e \in Dev PROVE DevInv(e)'
    BY <1>1, <2>2 DEF CallShutdown, DevInv, Fresh, Added, Up, Leaving, Closing,
                     Closed, Gone
  <2> QED
    BY <2>1, <2>2
<1>2. ASSUME NEW d \in Dev, CallAdd(d) PROVE Phases'
  <2>1. devices = <<>> /\ adding = None
    BY <1>2 DEF CallAdd, MayAdd, CallInv
  <2>2. CallInv' /\ EngInv'
    BY <1>2, <2>1, NoneAssumption DEF CallAdd, CallInv, EngInv
  <2>3. ASSUME NEW e \in Dev PROVE DevInv(e)'
    BY <1>2, <2>1, <2>3, NoneAssumption
       DEF CallAdd, DevInv, Fresh, Added, Up, Leaving, Closing, Closed, Gone
  <2> QED
    BY <2>2, <2>3
<1> QED
  BY <1>1, <1>2 DEF Main

\* The steps of the run loop preserve the invariant.
LEMMA RunStep ==
  ASSUME TypeOK, Phases, Run
  PROVE  Phases'
<1> USE DEF TypeOK, Phases, mainVars, runVars, devVars, driverVars
<1>1. CASE RunAdd
  <2>1. devices = <<>> /\ adding \in Dev /\ devices' = <<adding>>
    BY <1>1 DEF RunAdd, CallInv
  <2>2. CallInv' /\ EngInv'
    BY <1>1, <2>1 DEF RunAdd, FirstDevice, CallInv, EngInv
  <2>3. ASSUME NEW e \in Dev PROVE DevInv(e)'
    BY <1>1, <2>1, <2>3, NoneAssumption
       DEF RunAdd, FirstDevice, StartReader, DevInv, Fresh, Added, Up, Leaving,
           Closing, Closed, Gone
  <2> QED
    BY <2>2, <2>3
<1>2. CASE RunQuery
  <2>1. CallInv' /\ EngInv'
    BY <1>2 DEF RunQuery, CallInv, EngInv
  <2>2. ASSUME NEW e \in Dev PROVE DevInv(e)'
    BY <1>2 DEF RunQuery, DevInv, Fresh, Added, Up, Leaving, Closing, Closed, Gone
  <2> QED
    BY <2>1, <2>2
<1>3. CASE RunShutdown
  <2>1. CallInv' /\ EngInv'
    BY <1>3 DEF RunShutdown, CallInv, EngInv
  <2>2. ASSUME NEW e \in Dev PROVE DevInv(e)'
    BY <1>3 DEF RunShutdown, CallInv, DevInv, Fresh, Added, Up, Leaving, Closing,
                Closed, Gone
  <2> QED
    BY <2>1, <2>2
<1>4. CASE ShutClose
  <2>1. PICK d \in Dev : devices = <<d>>
    BY <1>4 DEF ShutClose, CallInv
  <2>2. devices[pos] = d /\ Up(d) /\ adding = None
    BY <1>4, <2>1 DEF ShutClose, CallInv, DevInv
  <2>3. /\ devClose' = devClose \cup {d} /\ runPc' = "shutCloseDone"
        /\ UNCHANGED <<mainVars, devices, readDone, runDone, pos, readTok, fd,
                       broken, driverVars, eng>>
    BY <1>4, <2>2 DEF ShutClose, Up
  <2>4. CallInv' /\ EngInv'
    BY <1>4, <2>3 DEF ShutClose, CallInv, EngInv
  <2>5. ASSUME NEW e \in Dev PROVE DevInv(e)'
    BY <1>4, <2>1, <2>2, <2>3 DEF ShutClose, DevInv, Fresh, Added, Up, Leaving,
                                  Closing, Closed, Gone
  <2> QED
    BY <2>4, <2>5
<1>5. CASE ShutCloseDone
  <2>1. PICK d \in Dev : devices = <<d>>
    BY <1>5 DEF ShutCloseDone, CallInv
  <2>2. devices[pos] = d /\ Closing(d) /\ adding = None
    BY <1>5, <2>1 DEF ShutCloseDone, CallInv, DevInv
  <2>3. CallInv' /\ EngInv'
    BY <1>5 DEF ShutCloseDone, CallInv, EngInv
  <2>4. ASSUME NEW e \in Dev PROVE DevInv(e)'
    BY <1>5, <2>1, <2>2 DEF ShutCloseDone, DevInv, Fresh, Added, Up, Leaving,
                            Closing, Closed, Gone
  <2> QED
    BY <2>3, <2>4
<1>6. CASE ShutReadDone
  <2>1. PICK d \in Dev : devices = <<d>>
    BY <1>6 DEF ShutReadDone, CallInv
  <2>2. devices[pos] = d /\ Closed(d) /\ adding = None /\ reader[d] = "done"
    BY <1>6, <2>1 DEF ShutReadDone, CallInv, DevInv, Closed, Leaving, Notified
  <2>3. /\ devices' = <<>> /\ runPc' = "shutAck" /\ pos' = pos
        /\ readTok' = [readTok EXCEPT ![d] = 0]
    BY <1>6, <2>1, <2>2 DEF ShutReadDone, NotLast, Emptied, CallInv
  <2>4. CallInv' /\ EngInv'
    BY <1>6, <2>3 DEF ShutReadDone, CallInv, EngInv
  <2>5. Gone(d)'
    BY <1>6, <2>2, <2>3 DEF ShutReadDone, Closed, Leaving, Gone
  <2>6. DevInv(d)'
    BY <1>6, <2>2, <2>3, <2>5, NoneAssumption DEF ShutReadDone, DevInv
  <2>7. ASSUME NEW e \in Dev, e # d PROVE DevInv(e)'
    <3>1. readTok'[e] = readTok[e]
      BY <2>3, <2>7
    <3> QED
      BY <1>6, <2>1, <2>2, <2>3, <2>7, <3>1
         DEF ShutReadDone, DevInv, Fresh, Added, Gone
  <2> QED
    BY <2>4, <2>6, <2>7
<1>7. CASE ShutAck
  <2>1. CallInv' /\ EngInv'
    BY <1>7, NoneAssumption DEF ShutAck, CallInv, EngInv
  <2>2. ASSUME NEW e \in Dev PROVE DevInv(e)'
    BY <1>7 DEF ShutAck, CallInv, DevInv, Fresh, Added, Up, Leaving, Closing,
                Closed, Gone
  <2> QED
    BY <2>1, <2>2
<1> QED
  BY <1>1, <1>2, <1>3, <1>4, <1>5, <1>6, <1>7, NoReplacement DEF Run

\* The goroutines of a device preserve the invariant.
LEMMA DriverStep ==
  ASSUME TypeOK, Phases, NEW d \in Dev, Reader(d) \/ Runner(d) \/ Pump(d)
  PROVE  Phases'
<1> USE DEF TypeOK, Phases, mainVars, runVars, devVars, driverVars
<1>1. ~dClose
  BY DEF EngInv, dClose
<1>2. CASE Reader(d)
  <2>1. CallInv'
    BY <1>2 DEF Reader, ReaderTake, ReaderRead, ReaderError, ReaderReply,
                ReaderQuit, ReaderExit, CallInv
  <2>2. reader[d] \notin {"none", "done"}
    BY <1>2 DEF Reader, ReaderTake, ReaderRead, ReaderError, ReaderReply,
                ReaderQuit, ReaderExit
  <2>3. devices = <<d>>
    BY <2>2 DEF DevInv, Added, Fresh, Gone
  <2>4. EngInv'
    BY <1>2 DEF Reader, ReaderTake, ReaderRead, ReaderError, ReaderReply,
                ReaderQuit, ReaderExit, EngInv, DevInv
  <2>5. CASE ReaderError(d)
    <3>1. d \notin devClose => d \in broken
      BY <2>3, <2>5 DEF ReaderError, DevInv, Up, Closing, Closed, Leaving
    <3>2. ASSUME NEW e \in Dev PROVE DevInv(e)'
      BY <2>3, <2>5, <3>1 DEF ReaderError, ReaderAsked, DevInv, Fresh, Added, Up,
                              Leaving, Closing, Closed, Gone
    <3> QED
      BY <2>1, <2>4, <3>2
  <2>6. CASE ReaderExit(d)
    <3>1. d \in devClose
      BY <2>3, <2>6 DEF ReaderExit, DevInv, Up, Closing, Closed, Leaving
    <3>2. ASSUME NEW e \in Dev PROVE DevInv(e)'
      BY <2>3, <2>6, <3>1 DEF ReaderExit, DevInv, Fresh, Added, Up, Leaving,
                              Closing, Closed, Gone
    <3> QED
      BY <2>1, <2>4, <3>2
  <2>7. CASE ReaderTake(d) \/ ReaderRead(d) \/ ReaderReply(d)
    <3>1. ASSUME NEW e \in Dev PROVE DevInv(e)'
      BY <2>3, <2>7 DEF ReaderTake, ReaderRead, ReaderReply, DevInv, Fresh, Added,
                        Up, Leaving, Closing, Closed, Gone
    <3> QED
      BY <2>1, <2>4, <3>1
  <2> QED
    BY <1>1, <1>2, <2>5, <2>6, <2>7 DEF Reader, ReaderQuit
<1>3. CASE Runner(d)
  <2>1. CallInv' /\ EngInv'
    BY <1>3 DEF Runner, RunnerTake, RunnerWrite, RunnerClose, CallInv, EngInv
  <2>2. devices = <<d>>
    BY <1>3 DEF Runner, RunnerTake, RunnerWrite, RunnerClose, DevInv, Added, Fresh,
                Gone
  <2>3. ASSUME NEW e \in Dev PROVE DevInv(e)'
    BY <1>1, <1>3, <2>2 DEF Runner, RunnerTake, RunnerWrite, RunnerClose,
       RunnerAsked, DevInv, Fresh, Added, Up, Leaving, Closing, Closed, Gone
  <2> QED
    BY <2>1, <2>3
<1>4. CASE Pump(d)
  <2>1. CallInv' /\ EngInv'
    BY <1>4 DEF Pump, PumpEvent, PumpSend, PumpExit, CallInv, EngInv
  <2>2. ASSUME NEW e \in Dev PROVE DevInv(e)'
    BY <1>4 DEF Pump, PumpEvent, PumpSend, PumpExit, DevInv, Fresh, Added, Up,
                Leaving, Closing, Closed, Gone
  <2> QED
    BY <2>1, <2>2
<1> QED
  BY <1>2, <1>3, <1>4

\* The engine and Android preserve the invariant, until the engine closes the
\* multiTUN.
LEMMA EnvironmentStep ==
  ASSUME TypeOK, Phases, Engine \/ \E d \in Dev : Break(d)
  PROVE  Phases' \/ dClose'
<1> USE DEF TypeOK, Phases, mainVars, runVars, devVars, driverVars
<1>1. CASE EngineRead \/ EngineWrite \/ EngineQuery
  <2>1. CallInv' /\ EngInv'
    BY <1>1 DEF EngineRead, EngineWrite, EngineQuery, CallInv, EngInv
  <2>2. ASSUME NEW e \in Dev PROVE DevInv(e)'
    BY <1>1 DEF EngineRead, EngineWrite, EngineQuery, DevInv, Fresh, Added, Up,
                Leaving, Closing, Closed, Gone
  <2> QED
    BY <2>1, <2>2
<1>2. CASE EngineClose
  BY <1>2 DEF EngineClose, dClose
<1>3. ASSUME NEW d \in Dev, Break(d) PROVE Phases'
  <2>1. CallInv' /\ EngInv'
    BY <1>3 DEF Break, CallInv, EngInv
  <2>2. ASSUME NEW e \in Dev PROVE DevInv(e)'
    BY <1>3 DEF Break, DevInv, Fresh, Added, Up, Leaving, Closing, Closed, Gone
  <2> QED
    BY <2>1, <2>2
<1> QED
  BY <1>1, <1>2, <1>3 DEF Engine

\* The invariant is inductive.
LEMMA InvStep ==
  ASSUME ~Handover, IInv, [Next]_vars
  PROVE  IInv' \/ dClose'
<1>1. TypeOK /\ Phases
  BY DEF IInv, Phases
<1>2. TypeOK'
  BY <1>1, TypeStep
<1> SUFFICES Phases' \/ dClose'
  BY <1>2 DEF IInv, Phases
<1>3. CASE UNCHANGED vars
  <2> USE <1>1, <1>3 DEF vars, mainVars, runVars, devVars, driverVars, Phases
  <2>1. CallInv' /\ EngInv'
    BY DEF CallInv, EngInv
  <2>2. ASSUME NEW e \in Dev PROVE DevInv(e)'
    BY DEF DevInv, Fresh, Added, Up, Leaving, Closing, Closed, Gone
  <2> QED
    BY <2>1, <2>2
<1>4. CASE Next
  BY <1>1, <1>4, MainStep, RunStep, DriverStep, EnvironmentStep DEF Next
<1> QED
  BY <1>3, <1>4

\* The call of Close is never taken back, and not made without CanClose.
LEMMA CloseStays ==
  ASSUME TypeOK, [Next]_vars
  PROVE  /\ dClose => dClose'
         /\ ~CanClose /\ ~dClose => ~dClose'
<1> USE DEF TypeOK, dClose, mainVars, runVars, devVars, driverVars
<1>1. CASE Main
  BY <1>1 DEF Main, CallShutdown, CallAdd
<1>2. CASE Run
  BY <1>2 DEF Run, RunReadDone, RunRunDone, RunAdd, RunQuery, RunShutdown, ShutClose,
              ShutCloseDone, ShutReadDone, ShutAck, RunClose, CloseWait, CloseAck
<1>3. ASSUME NEW d \in Dev, Reader(d) \/ Runner(d) \/ Pump(d) \/ Break(d)
      PROVE  dClose' <=> dClose
  BY <1>3 DEF Reader, ReaderTake, ReaderRead, ReaderError, ReaderReply, ReaderQuit,
              ReaderExit, Runner, RunnerTake, RunnerWrite, RunnerClose, Pump,
              PumpEvent, PumpSend, PumpExit, Break
<1>4. CASE Engine
  BY <1>4 DEF Engine, EngineRead, EngineWrite, EngineQuery, EngineClose
<1>5. CASE UNCHANGED vars
  BY <1>5 DEF vars
<1> QED
  BY <1>1, <1>2, <1>3, <1>4, <1>5 DEF Next

-----------------------------------------------------------------------------
\* Every state is type correct.
THEOREM TypeCorrect == Spec => []TypeOK
<1>1. Init => TypeOK
  BY InitInv DEF IInv
<1>2. TypeOK /\ [Next]_vars => TypeOK'
  BY TypeStep
<1> QED
  BY <1>1, <1>2, PTL DEF Spec

\* The invariant holds until the engine closes the multiTUN, for any set of
\* devices.
LEMMA InvUntilClosed == ASSUME ~Handover PROVE Spec => [](IInv \/ dClose)
<1>1. Init => IInv
  BY InitInv
<1>2. TypeOK /\ (IInv \/ dClose) /\ [Next]_vars => (IInv \/ dClose)'
  BY InvStep, CloseStays
<1> QED
  BY <1>1, <1>2, TypeCorrect, PTL DEF Spec

\* It holds throughout when nobody does.
THEOREM Invariance == ASSUME Protocol PROVE Spec => []IInv
<1>1. Init => ~dClose
  BY DEF Init, dClose
<1>2. TypeOK /\ ~dClose /\ [Next]_vars => ~dClose'
  BY CloseStays DEF Protocol
<1>3. Spec => []~dClose
  BY <1>1, <1>2, TypeCorrect, PTL DEF Spec
<1>4. Spec => [](IInv \/ dClose)
  BY InvUntilClosed DEF Protocol
<1> QED
  BY <1>3, <1>4, PTL

-----------------------------------------------------------------------------
(* What the invariant says.                                                *)

LEMMA InvNoPanic == IInv => NoPanic
BY DEF IInv, CallInv, NoPanic

LEMMA InvOneDriver == IInv => OneDriver
<1> SUFFICES ASSUME IInv, NEW d \in Dev, Reading(d) \/ Running(d)
             PROVE  devices = <<d>>
  BY DEF OneDriver
<1> QED
  BY DEF IInv, DevInv, Reading, Running, Fresh, Added, Gone

LEMMA InvShutdownComplete == IInv => ShutdownComplete
<1> SUFFICES ASSUME IInv, last = "Shutdown", NEW d \in Dev
             PROVE  fd[d] # "open" /\ ~Reading(d) /\ ~Running(d)
  BY DEF ShutdownComplete
<1>1. devices = <<>> /\ adding = None
  BY DEF IInv, CallInv
<1> QED
  BY <1>1, NoneAssumption DEF IInv, DevInv, Reading, Running, Fresh, Gone

LEMMA InvOpenIsOwned == IInv => OpenIsOwned
<1> SUFFICES ASSUME IInv, runPc = "select", NEW d \in Dev, fd[d] = "open", d # adding
             PROVE  /\ runner[d] \in {"select", "write"}
                    /\ \E i \in DOMAIN devices : devices[i] = d
  BY DEF OpenIsOwned
<1>1. devices = <<d>>
  BY DEF IInv, DevInv, Fresh, Gone
<1>2. Up(d)
  BY <1>1 DEF IInv, DevInv
<1>3. 1 \in DOMAIN devices /\ devices[1] = d
  BY <1>1
<1> QED
  BY <1>2, <1>3 DEF Up

LEMMA InvInvisible == IInv => ReplacementInvisible
BY DEF IInv, EngInv, ReplacementInvisible

\* No channel is closed twice and no empty slice is cut.
THEOREM NeverPanics == ASSUME Protocol PROVE Spec => []NoPanic
BY InvNoPanic, Invariance, PTL

\* At most one device has goroutines that read or write.
THEOREM OneAtATime == ASSUME Protocol PROVE Spec => []OneDriver
BY InvOneDriver, Invariance, PTL

\* After Shutdown nothing of the old devices is left.
THEOREM ShutdownLeavesNothing == ASSUME Protocol PROVE Spec => []ShutdownComplete
BY InvShutdownComplete, Invariance, PTL

\* No open descriptor is forgotten.
THEOREM NoLeak == ASSUME Protocol PROVE Spec => []OpenIsOwned
BY InvOpenIsOwned, Invariance, PTL

\* Both together: updateTUN may establish the next interface.
THEOREM NothingLeaks == ASSUME Protocol PROVE Spec => []NeverLeaks
BY ShutdownLeavesNothing, NoLeak, PTL DEF NeverLeaks

\* Replacing the device never shows the engine an error.
THEOREM Invisible == ASSUME Protocol PROVE Spec => []ReplacementInvisible
BY InvInvisible, Invariance, PTL

\* All of it also holds when the engine may close the multiTUN, up to the moment
\* when it does.
THEOREM SafeUntilClosed ==
  ASSUME ~Handover
  PROVE  Spec => [](~dClose => NoPanic /\ OneDriver /\ NeverLeaks /\ ReplacementInvisible)
<1>1. IInv \/ dClose =>
        (~dClose => NoPanic /\ OneDriver /\ NeverLeaks /\ ReplacementInvisible)
  BY InvNoPanic, InvOneDriver, InvShutdownComplete, InvOpenIsOwned, InvInvisible
     DEF NeverLeaks
<1> QED
  BY <1>1, InvUntilClosed, PTL

-----------------------------------------------------------------------------
(* Nobody waits for what does not come.                                    *)

\* The readers that the engine's Read waits for
Serves(d) == reader[d] \in {"read", "replyOk", "replyErr", "replyStop"}

ServedInv == eng.Read = "wait" <=> \E d \in Dev : Serves(d)

\* Only the engine and the readers change what they wait for.
LEMMA ServedStep == ASSUME IInv, ServedInv, [Next]_vars, ~dClose' PROVE ServedInv'
<1> USE DEF IInv, TypeOK, ServedInv, Serves, mainVars, runVars, devVars, driverVars
<1>1. ASSUME NEW d \in Dev, Serves(d) \/ Reading(d) PROVE devices = <<d>>
  BY <1>1 DEF DevInv, Added, Fresh, Gone, Reading
<1>2. CASE Main
  BY <1>2 DEF Main, CallShutdown, CallAdd
<1>3. CASE Run
  <2>1. ~RunReadDone /\ ~RunRunDone /\ ~RunClose /\ ~CloseWait /\ ~CloseAck
    BY NoReplacement DEF Phases
  <2>2. CASE RunAdd
    <3>1. devices = <<>> /\ adding \in Dev
      BY <2>2 DEF RunAdd, CallInv
    <3>2. reader' = [reader EXCEPT ![adding] = "select"] /\ eng' = eng
      BY <2>2, <3>1 DEF RunAdd, FirstDevice, StartReader
    <3> QED
      BY <1>1, <3>1, <3>2
  <2>3. CASE ~RunAdd
    BY <1>3, <2>1, <2>3 DEF Run, RunQuery, RunShutdown, ShutClose, ShutCloseDone,
                            ShutReadDone, ShutAck
  <2> QED
    BY <2>2, <2>3
<1>4. ASSUME NEW d \in Dev, Reader(d) PROVE ServedInv'
  <2>1. \A e \in Dev : Serves(e) => e = d
    BY <1>1, <1>4 DEF Reader, ReaderTake, ReaderRead, ReaderError, ReaderReply,
                      ReaderQuit, ReaderExit, Reading
  <2>2. \A e \in Dev \ {d} : reader'[e] = reader[e]
    BY <1>4 DEF Reader, ReaderTake, ReaderRead, ReaderError, ReaderReply,
                ReaderQuit, ReaderExit
  <2>3. eng'.Read = "wait" <=> Serves(d)'
    BY <1>4, <2>1 DEF Reader, ReaderTake, ReaderRead, ReaderError, ReaderReply,
                      ReaderQuit, ReaderExit
  <2> QED
    BY <2>1, <2>2, <2>3
<1>5. ASSUME NEW d \in Dev, Runner(d) \/ Pump(d) \/ Break(d) PROVE ServedInv'
  BY <1>5 DEF Runner, RunnerTake, RunnerWrite, RunnerClose, Pump, PumpEvent,
              PumpSend, PumpExit, Break
<1>6. CASE Engine
  BY <1>6 DEF Engine, EngineRead, EngineWrite, EngineQuery, EngineClose
<1>7. CASE UNCHANGED vars
  BY <1>7 DEF vars
<1> QED
  BY <1>2, <1>3, <1>4, <1>5, <1>6, <1>7 DEF Next

\* While the main loop waits for the run loop, and the run loop for a device,
\* some goroutine that they wait for can take a step.
THEOREM SomeoneMoves == ASSUME Protocol PROVE Spec => []NeverStuck
<1>1. Init => ServedInv
  BY DEF Init, ServedInv, Serves
<1>2. IInv /\ IInv' /\ ServedInv /\ [Next]_vars => ServedInv'
  BY ServedStep DEF IInv, EngInv, dClose
<1>3. Spec => []ServedInv
  BY <1>1, <1>2, Invariance, PTL DEF Spec
<1>4. IInv /\ ServedInv => NeverStuck
  <2> SUFFICES ASSUME IInv, ServedInv PROVE NeverStuck
    OBVIOUS
  <2>1. caller \in {"shutdowns", "devices"} => runPc = "select"
    BY DEF IInv, CallInv
  <2>2. ASSUME caller = "shutdownDone", NEW d \in Dev, devices = <<d>>
        PROVE  \/ runPc \in {"shutClose", "shutAck"}
               \/ runPc = "shutCloseDone" /\ RunnerMoves(d)
               \/ runPc = "shutReadDone" /\ (ReaderMoves(d) \/ eng.Read = "failed")
    <3>1. CASE runPc = "shutCloseDone"
      BY <2>2, <3>1 DEF IInv, DevInv, Closing, Leaving, RunnerMoves, RunnerAsked
    <3>2. CASE runPc = "shutReadDone"
      <4>1. Closed(d)
        BY <2>2, <3>2 DEF IInv, DevInv
      <4>2. \A e \in Dev : Serves(e) => e = d
        BY <2>2 DEF IInv, DevInv, Added, Fresh, Gone, Serves
      <4> QED
        BY <3>2, <4>1, <4>2 DEF IInv, TypeOK, Closed, Leaving, ServedInv, Serves,
                                ReaderMoves, Notified
    <3> QED
      BY <2>2, <3>1, <3>2 DEF IInv, CallInv
  <2>3. caller = "shutdownDone" => runPc = "shutAck" \/ devices # <<>>
    BY DEF IInv, CallInv
  <2>4. ASSUME NEW d \in Dev, devices = <<d>> PROVE devices[pos] = d
    BY <2>4 DEF IInv, CallInv
  <2> QED
    BY <2>1, <2>2, <2>3, <2>4 DEF IInv, CallInv, NeverStuck
<1> QED
  BY <1>3, <1>4, Invariance, PTL

-----------------------------------------------------------------------------
\* The devices implement the abstract tunnel: a descriptor is established only
\* when no other is open, and closed exactly once.
THEOREM Implements == ASSUME Protocol PROVE Spec => KeepsPromise
<1>1. Init => OneTunnel!Init
  BY DEF Init, OneTunnel!Init
<1>2. ASSUME IInv, [Next]_vars PROVE [OneTunnel!Next]_fd
  <2>1. ASSUME NEW d \in Dev, CallAdd(d) PROVE OneTunnel!Establish(d)
    <3>1. last = "Shutdown"
      BY <2>1 DEF CallAdd, MayAdd, Protocol
    <3>2. devices = <<>> /\ adding = None
      BY <1>2, <3>1 DEF IInv, CallInv
    <3>3. \A e \in Dev : fd[e] # "open"
      BY <1>2, <3>2, NoneAssumption DEF IInv, DevInv, Fresh, Gone
    <3> QED
      BY <2>1, <3>3 DEF CallAdd, OneTunnel!Establish
  <2>2. ASSUME NEW d \in Dev, RunnerClose(d) PROVE OneTunnel!Close(d)
    <3>1. fd[d] = "open"
      BY <1>2, <2>2 DEF RunnerClose, IInv, DevInv, Fresh, Added, Up, Closing, Closed,
                        Gone
    <3> QED
      BY <2>2, <3>1 DEF RunnerClose, OneTunnel!Close
  <2>3. CASE UNCHANGED fd
    BY <2>3
  <2>4. \/ \E d \in Dev : CallAdd(d) \/ RunnerClose(d)
        \/ UNCHANGED fd
    <3> USE DEF mainVars, runVars, devVars, driverVars
    <3>1. CASE Main
      BY <3>1 DEF Main, CallShutdown
    <3>2. CASE Run
      BY <3>2 DEF Run, RunReadDone, RunRunDone, RunAdd, RunQuery, RunShutdown,
                  ShutClose, ShutCloseDone, ShutReadDone, ShutAck, RunClose,
                  CloseWait, CloseAck
    <3>3. ASSUME NEW d \in Dev, Reader(d) PROVE UNCHANGED fd
      BY <3>3 DEF Reader, ReaderTake, ReaderRead, ReaderError, ReaderReply,
                  ReaderQuit, ReaderExit
    <3>4. ASSUME NEW d \in Dev, Runner(d) PROVE RunnerClose(d) \/ UNCHANGED fd
      BY <3>4 DEF Runner, RunnerTake, RunnerWrite
    <3>5. ASSUME NEW d \in Dev, Pump(d) PROVE UNCHANGED fd
      BY <3>5 DEF Pump, PumpEvent, PumpSend, PumpExit
    <3>6. CASE Engine
      BY <3>6 DEF Engine, EngineRead, EngineWrite, EngineQuery, EngineClose
    <3>7. ASSUME NEW d \in Dev, Break(d) PROVE UNCHANGED fd
      BY <3>7 DEF Break
    <3>8. CASE UNCHANGED vars
      BY <3>8 DEF vars
    <3> QED
      BY <1>2, <3>1, <3>2, <3>3, <3>4, <3>5, <3>6, <3>7, <3>8 DEF Next
  <2> QED
    BY <2>1, <2>2, <2>3, <2>4 DEF OneTunnel!Next
<1> QED
  BY <1>1, <1>2, Invariance, PTL DEF Spec, KeepsPromise, OneTunnel!Spec

-----------------------------------------------------------------------------
(* Seamless handover: add is called while a device is up, and the run loop *)
(* passes reading and writing on.  Nobody closes the multiTUN.             *)

Listed(d) == \E i \in DOMAIN devices : devices[i] = d

\* Each device: the oldest is read, the run loop knows the one that is written
\* to, and a reader leaves only when its device was asked to.
PlaceInv(d) ==
  /\ ~Listed(d) => reader[d] \in {"none", "done"} /\ readTok[d] = 0
  /\ Listed(d) /\ d # devices[1] => reader[d] = "none" /\ readTok[d] = 0
  /\ readTok[d] = 1 => reader[d] = "done"
  /\ reader[d] \in {"replyStop", "exit", "done"} => d \in devClose
  /\ Running(d) => runDone = d /\ devices # <<>> /\ runPc # "shutReadDone"
  /\ fd[d] = "none" \/ adding = d =>
       reader[d] = "none" /\ d \notin devClose /\ ~Listed(d)
  /\ fd[d] = "none" => adding # d /\ runner[d] = "none"

\* The list: every device but the newest was asked to leave.
ListInv ==
  /\ \A i, j \in DOMAIN devices : devices[i] = devices[j] => i = j
  /\ \A i \in DOMAIN devices : i < Len(devices) => devices[i] \in devClose
  /\ devices # <<>> => readDone = devices[1]
  /\ devices # <<>> /\ runPc \in {"select", "shutClose"} => Newest \notin devClose

\* Shutdown: it waits for a device only when there is a single one.
ShutInv ==
  /\ eng.Close = "idle" /\ pos = 1
  /\ runPc \notin {"closeWait", "closeAck", "done"}
  /\ runPc \notin {"select", "panic"} => caller = "shutdownDone"
  /\ runPc \in {"shutCloseDone", "shutReadDone"} => Len(devices) = 1
  /\ runPc = "shutAck" => devices = <<>>
  /\ runPc = "panic" => Len(devices) > 1 /\ caller = "shutdownDone"
  /\ caller = "devices" <=> adding # None

OrderInv == ShutInv /\ ListInv /\ \A d \in Dev : PlaceInv(d)

LEMMA OrderInit == Init => OrderInv
BY NoneAssumption
   DEF Init, OrderInv, ShutInv, ListInv, PlaceInv, Listed, Running

\* A step that leaves the run loop and the list alone.
LEMMA OrderKept ==
  ASSUME TypeOK, OrderInv,
         UNCHANGED <<runVars, devClose, caller, adding>>, eng.Close' = "idle",
         \A d \in Dev : fd'[d] = fd[d] \/ (fd[d] # "none" /\ fd'[d] # "none"),
         NEW d \in Dev,
         \A e \in Dev \ {d} :
           reader'[e] = reader[e] /\ readTok'[e] = readTok[e] /\ runner'[e] = runner[e],
         PlaceInv(d)'
  PROVE  OrderInv'
<1> USE DEF OrderInv, runVars
<1>1. ShutInv' /\ ListInv'
  BY DEF ShutInv, ListInv, Newest
<1>2. ASSUME NEW e \in Dev PROVE PlaceInv(e)'
  BY <1>2 DEF PlaceInv, Listed, Running
<1> QED
  BY <1>1, <1>2

\* The goroutines of the devices.
LEMMA OrderDriver ==
  ASSUME TypeOK, OrderInv, NEW d \in Dev, Reader(d) \/ Runner(d) \/ Pump(d)
  PROVE  OrderInv'
<1> USE DEF TypeOK, mainVars, runVars, devVars, driverVars
<1>1. ~dClose /\ PlaceInv(d)
  BY DEF OrderInv, ShutInv, dClose
<1>2. CASE Reader(d)
  <2> USE DEF Reader, ReaderTake, ReaderRead, ReaderError, ReaderReply, ReaderQuit,
              ReaderExit
  <2>1. /\ UNCHANGED <<runVars, devClose, caller, adding, fd, runner>>
        /\ eng.Close' = "idle"
        /\ \A e \in Dev \ {d} : reader'[e] = reader[e] /\ readTok'[e] = readTok[e]
    BY <1>2 DEF OrderInv, ShutInv
  <2>2. PlaceInv(d)'
    BY <1>1, <1>2, <2>1 DEF PlaceInv, Listed, Running, ReaderAsked
  <2> QED
    BY <2>1, <2>2, OrderKept
<1>3. CASE Runner(d)
  <2> USE DEF Runner, RunnerTake, RunnerWrite, RunnerClose
  <2>1. /\ UNCHANGED <<runVars, devClose, caller, adding, reader, readTok>>
        /\ eng.Close' = "idle"
        /\ \A e \in Dev \ {d} : runner'[e] = runner[e] /\ fd'[e] = fd[e]
    BY <1>3 DEF OrderInv, ShutInv
  <2>2. fd[d] # "none" /\ (fd'[d] = fd[d] \/ fd'[d] = "closed")
    BY <1>1, <1>3 DEF PlaceInv
  <2>3. PlaceInv(d)'
    BY <1>1, <1>3, <2>1, <2>2 DEF PlaceInv, Listed, Running
  <2> QED
    BY <2>1, <2>2, <2>3, OrderKept
<1>4. CASE Pump(d)
  <2>1. UNCHANGED <<mainVars, runVars, devVars, reader, runner, eng>>
    BY <1>4 DEF Pump, PumpEvent, PumpSend, PumpExit
  <2>2. PlaceInv(d)'
    BY <1>1, <2>1 DEF PlaceInv, Listed, Running
  <2> QED
    BY <2>1, <2>2, OrderKept DEF OrderInv, ShutInv
<1> QED
  BY <1>2, <1>3, <1>4

LEMMA OneIs ==
  ASSUME NEW n \in Nat
  PROVE  /\ n # 0 /\ ~(1 < n) => n = 1
         /\ n > 1 => n - 1 # 0
OBVIOUS

LEMMA TailIs ==
  ASSUME NEW S, NEW s \in Seq(S), Len(s) > 1
  PROVE  /\ Len(Tail(s)) = Len(s) - 1 /\ Tail(s) # <<>> /\ Tail(s) \in Seq(S)
         /\ \A i \in 1..Len(s) - 1 : Tail(s)[i] = s[i + 1]
<1>1. Tail(s) \in Seq(S) /\ Len(Tail(s)) = Len(s) - 1
  OBVIOUS
<1>2. \A i \in 1..Len(s) - 1 : Tail(s)[i] = s[i + 1]
  OBVIOUS
<1>3. Tail(s) # <<>>
  <2>1. Len(s) \in Nat /\ Len(<<>>) = 0
    OBVIOUS
  <2>2. Len(s) - 1 # 0
    BY <2>1, OneIs
  <2> QED
    BY <1>1, <2>1, <2>2
<1> QED
  BY <1>1, <1>2, <1>3

LEMMA AppendIs ==
  ASSUME NEW S, NEW s \in Seq(S), NEW e \in S
  PROVE  /\ Len(Append(s, e)) = Len(s) + 1 /\ Append(s, e) # <<>>
         /\ Append(s, e)[Len(s) + 1] = e
         /\ \A i \in 1..Len(s) : Append(s, e)[i] = s[i]
OBVIOUS

\* The calls of the main loop.
LEMMA OrderMain == ASSUME TypeOK, OrderInv, Main PROVE OrderInv'
<1> USE DEF TypeOK, OrderInv, mainVars, runVars, devVars, driverVars
<1>1. CASE CallShutdown
  <2>1. ShutInv' /\ ListInv'
    BY <1>1 DEF CallShutdown, ShutInv, ListInv, Newest
  <2>2. ASSUME NEW e \in Dev PROVE PlaceInv(e)'
    BY <1>1 DEF CallShutdown, PlaceInv, Listed, Running
  <2> QED
    BY <2>1, <2>2
<1>2. ASSUME NEW d \in Dev, CallAdd(d) PROVE OrderInv'
  <2>1. ShutInv' /\ ListInv'
    BY <1>2, NoneAssumption DEF CallAdd, ShutInv, ListInv, Newest
  <2>2. ASSUME NEW e \in Dev PROVE PlaceInv(e)'
    BY <1>2 DEF CallAdd, PlaceInv, Listed, Running
  <2> QED
    BY <2>1, <2>2
<1> QED
  BY <1>1, <1>2 DEF Main

\* The oldest device has been read to its end: the next one is read.
LEMMA OrderReadDone == ASSUME TypeOK, OrderInv, RunReadDone PROVE OrderInv'
<1> USE DEF TypeOK, OrderInv, mainVars, runVars, devVars, driverVars
<1> DEFINE d == readDone
<1>1. d \in Dev /\ runPc = "select" /\ readTok[d] = 1
  BY DEF RunReadDone
<1>2. devices # <<>> /\ d = devices[1]
  BY <1>1 DEF PlaceInv, Listed, ListInv
<1>3. d \in devClose /\ Len(devices) > 1
  BY <1>1, <1>2 DEF PlaceInv, ListInv, Newest
<1> DEFINE n == devices[2]
<1>4. /\ n \in Dev /\ n # d /\ reader[n] = "none"
      /\ devices' = Tail(devices) /\ readDone' = n
      /\ reader' = [reader EXCEPT ![n] = "select"]
      /\ readTok' = [readTok EXCEPT ![d] = 0]
      /\ UNCHANGED <<mainVars, runDone, pos, runPc, devClose, fd, broken, runner, eng>>
  <2>1. n \in Dev /\ n # d /\ Listed(n)
    BY <1>2, <1>3 DEF ListInv, Listed
  <2> QED
    BY <1>2, <1>3, <2>1 DEF RunReadDone, NextOldest, StartReader, PlaceInv
<1>5. /\ Len(devices') = Len(devices) - 1 /\ devices' # <<>> /\ devices'[1] = n
      /\ \A i \in DOMAIN devices' : i + 1 \in DOMAIN devices /\ devices'[i] = devices[i + 1]
      /\ Newest' = Newest
  <2>1. /\ Len(devices') = Len(devices) - 1 /\ devices' # <<>> /\ devices' \in Seq(Dev)
        /\ \A i \in 1..Len(devices) - 1 : devices'[i] = devices[i + 1]
    BY <1>3, <1>4, TailIs
  <2> QED
    BY <1>3, <2>1 DEF Newest
<1>6. ShutInv'
  BY <1>1, <1>4, <1>5 DEF ShutInv
<1>7. ListInv'
  BY <1>1, <1>2, <1>4, <1>5 DEF ListInv
<1>8. \A e \in Dev : Listed(e)' <=> Listed(e) /\ e # d
  <2>1. ASSUME NEW i \in DOMAIN devices, devices[i] # d
        PROVE  i - 1 \in DOMAIN devices' /\ devices'[i - 1] = devices[i]
    BY <1>2, <1>3, <1>4, <1>5, <2>1
  <2>2. ASSUME NEW i \in DOMAIN devices' PROVE devices'[i] # d
    <3>1. i + 1 # 1 /\ 1 \in DOMAIN devices /\ i + 1 \in DOMAIN devices
      BY <1>2, <1>3, <1>4, <1>5
    <3> QED
      BY <1>2, <1>5, <3>1 DEF ListInv
  <2> QED
    BY <1>5, <2>1, <2>2 DEF Listed
<1>9. ASSUME NEW e \in Dev PROVE PlaceInv(e)'
  <2>1. CASE e = n
    BY <1>1, <1>4, <1>5, <1>8, <2>1 DEF PlaceInv, Running, Listed
  <2>2. CASE e = d
    BY <1>1, <1>2, <1>4, <1>5, <1>8, <2>2 DEF PlaceInv, Running
  <2>3. CASE e # n /\ e # d
    BY <1>1, <1>2, <1>4, <1>5, <1>8, <2>3 DEF PlaceInv, Running
  <2> QED
    BY <2>1, <2>2, <2>3
<1> QED
  BY <1>6, <1>7, <1>9

\* The device that was written to has left: the newest is written to.
LEMMA OrderRunDone == ASSUME TypeOK, OrderInv, RunRunDone PROVE OrderInv'
<1> USE DEF TypeOK, OrderInv, mainVars, runVars, devVars, driverVars
<1>1. devices # <<>> /\ runDone \in Dev /\ Running(runDone)
  BY DEF RunRunDone, PlaceInv, Running
<1>2. Newest \in Dev /\ Listed(Newest)
  BY <1>1 DEF Newest, Listed
<1>3. fd[Newest] # "none"
  BY <1>2 DEF PlaceInv
<1>4. /\ runDone' = Newest
      /\ runner' = [runner EXCEPT ![runDone] = "done", ![Newest] = "select"]
      /\ UNCHANGED <<mainVars, devices, readDone, runPc, pos, devVars, reader, eng>>
  BY <1>1 DEF RunRunDone
<1>5. ShutInv' /\ ListInv'
  BY <1>4 DEF ShutInv, ListInv, Newest
<1>6. ASSUME NEW e \in Dev PROVE PlaceInv(e)'
  BY <1>1, <1>2, <1>3, <1>4 DEF RunRunDone, PlaceInv, Listed, Running
<1> QED
  BY <1>5, <1>6

\* The first device gets a reader and a runner; another one asks its
\* predecessor to leave.
LEMMA OrderAdd == ASSUME TypeOK, OrderInv, RunAdd PROVE OrderInv'
<1> USE DEF TypeOK, OrderInv, mainVars, runVars, devVars, driverVars
<1> DEFINE a == adding
<1>1. /\ a \in Dev /\ runPc = "select" /\ fd[a] # "none" /\ reader[a] = "none"
      /\ a \notin devClose /\ ~Listed(a)
  BY DEF RunAdd, PlaceInv
<1>2. devices' = Append(devices, a) /\ caller' = "idle" /\ adding' = None
      /\ UNCHANGED <<last, pos, readTok, fd, broken, eng>>
  BY DEF RunAdd
<1>3. /\ Len(devices') = Len(devices) + 1 /\ devices'[Len(devices')] = a
      /\ \A i \in DOMAIN devices : i \in DOMAIN devices' /\ devices'[i] = devices[i]
      /\ \A i \in DOMAIN devices' : i \in DOMAIN devices \/ i = Len(devices')
      /\ devices' # <<>> /\ Newest' = a
  BY <1>1, <1>2, AppendIs DEF Newest
<1>4. \A e \in Dev : Listed(e)' <=> Listed(e) \/ e = a
  <2>1. Len(devices') \in DOMAIN devices'
    BY <1>2, <1>3
  <2> QED
    BY <1>3, <2>1 DEF Listed
<1>5. CASE devices = <<>>
  <2>1. /\ readDone' = a /\ runDone' = a
        /\ reader' = [reader EXCEPT ![a] = "select"]
        /\ runner' = [runner EXCEPT ![a] = "select"]
        /\ UNCHANGED <<runPc, devClose>>
    BY <1>5 DEF RunAdd, FirstDevice, StartReader
  <2>2. devices' = <<a>>
    BY <1>2, <1>5
  <2>3. ShutInv' /\ ListInv'
    BY <1>1, <1>2, <2>1, <2>2, NoneAssumption DEF ShutInv, ListInv, Newest
  <2>4. ASSUME NEW e \in Dev PROVE PlaceInv(e)'
    BY <1>1, <1>2, <1>4, <1>5, <2>1, <2>2, NoneAssumption DEF PlaceInv, Running, Listed
  <2> QED
    BY <2>3, <2>4
<1>6. CASE devices # <<>>
  <2>1. Newest \in Dev /\ Listed(Newest) /\ Newest \notin devClose /\ Newest # a
    BY <1>1, <1>6 DEF Newest, Listed, ListInv
  <2>2. /\ devClose' = devClose \cup {Newest}
        /\ UNCHANGED <<runPc, readDone, runDone, driverVars>>
    BY <1>6, <2>1 DEF RunAdd, FirstDevice
  <2>3. devices'[1] = devices[1]
    BY <1>3, <1>6
  <2>4. ShutInv'
    BY <1>1, <1>2, <2>2, NoneAssumption DEF ShutInv
  <2>5. ListInv'
    <3>1. \A i, j \in DOMAIN devices' : devices'[i] = devices'[j] => i = j
      BY <1>1, <1>3 DEF ListInv, Listed
    <3>2. \A i \in DOMAIN devices' : i < Len(devices') => devices'[i] \in devClose'
      BY <1>2, <1>3, <2>2 DEF ListInv, Newest
    <3> QED
      BY <1>1, <1>3, <1>6, <2>1, <2>2, <2>3, <3>1, <3>2 DEF ListInv
  <2>6. ASSUME NEW e \in Dev PROVE PlaceInv(e)'
    BY <1>1, <1>2, <1>3, <1>4, <1>6, <2>1, <2>2, <2>3, NoneAssumption
       DEF PlaceInv, Running
  <2> QED
    BY <2>4, <2>5, <2>6
<1> QED
  BY <1>5, <1>6

\* Shutdown.  It panics on several devices, and what it empties is read no more.
LEMMA OrderShutdown ==
  ASSUME TypeOK, OrderInv,
         RunShutdown \/ ShutClose \/ ShutCloseDone \/ ShutReadDone \/ ShutAck
  PROVE  OrderInv'
<1> USE DEF TypeOK, OrderInv, mainVars, runVars, devVars, driverVars
<1>1. CASE RunShutdown \/ ShutAck
  <2>1. ShutInv' /\ ListInv'
    BY <1>1, NoneAssumption DEF RunShutdown, ShutAck, ShutInv, ListInv, Newest
  <2>2. ASSUME NEW e \in Dev PROVE PlaceInv(e)'
    BY <1>1 DEF RunShutdown, ShutAck, PlaceInv, Listed, Running
  <2> QED
    BY <2>1, <2>2
<1>2. CASE ShutClose
  <2>1. devices # <<>> /\ pos = 1 /\ devices[1] \in Dev /\ Listed(devices[1])
    BY <1>2 DEF ShutClose, ShutInv, Listed
  <2>2. CASE devices[1] \in devClose
    <3>1. Len(devices) > 1
      BY <1>2, <2>1, <2>2 DEF ShutClose, ListInv, Newest
    <3>2. ShutInv' /\ ListInv'
      BY <1>2, <2>1, <2>2, <3>1 DEF ShutClose, ShutInv, ListInv, Newest
    <3>3. ASSUME NEW e \in Dev PROVE PlaceInv(e)'
      BY <1>2, <2>1, <2>2 DEF ShutClose, PlaceInv, Listed, Running
    <3> QED
      BY <3>2, <3>3
  <2>3. CASE devices[1] \notin devClose
    <3>1. Len(devices) \in Nat /\ Len(devices) # 0 /\ ~(1 < Len(devices))
      BY <2>1, <2>3 DEF ListInv
    <3>4. Len(devices) = 1
      BY <3>1, OneIs
    <3>2. ShutInv' /\ ListInv'
      BY <1>2, <2>1, <2>3, <3>4 DEF ShutClose, ShutInv, ListInv, Newest
    <3>3. ASSUME NEW e \in Dev PROVE PlaceInv(e)'
      BY <1>2, <2>1, <2>3 DEF ShutClose, PlaceInv, Listed, Running
    <3> QED
      BY <3>2, <3>3
  <2> QED
    BY <2>2, <2>3
<1>3. CASE ShutCloseDone
  <2>1. devices # <<>> /\ devices[pos] \in Dev /\ Running(devices[pos])
    BY <1>3 DEF ShutCloseDone, ShutInv, Running
  <2>2. ShutInv' /\ ListInv'
    BY <1>3 DEF ShutCloseDone, ShutInv, ListInv, Newest
  <2>3. ASSUME NEW e \in Dev PROVE PlaceInv(e)'
    BY <1>3, <2>1 DEF ShutCloseDone, PlaceInv, Listed, Running
  <2> QED
    BY <2>2, <2>3
<1>4. CASE ShutReadDone
  <2> DEFINE d == devices[1]
  <2>1. devices = <<d>> /\ d \in Dev /\ pos = 1 /\ readTok[d] = 1 /\ reader[d] = "done"
    BY <1>4 DEF ShutReadDone, ShutInv, Notified, PlaceInv
  <2>2. /\ devices' = <<>> /\ runPc' = "shutAck"
        /\ readTok' = [readTok EXCEPT ![d] = 0]
        /\ UNCHANGED <<mainVars, readDone, runDone, pos, devClose, fd, broken,
                       driverVars, eng>>
    <3>1. ~NotLast /\ devices[pos] = d
      <4> HIDE DEF TypeOK, OrderInv
      <4>1. Len(devices) = 1
        BY <2>1
      <4> QED
        BY <2>1, <4>1 DEF NotLast
    <3> QED
      BY <1>4, <3>1 DEF ShutReadDone, Emptied
  <2>3. ShutInv' /\ ListInv'
    BY <1>4, <2>2 DEF ShutReadDone, ShutInv, ListInv
  <2>4. ASSUME NEW e \in Dev PROVE PlaceInv(e)'
    <3>1. Listed(e) <=> e = d
      BY <2>1 DEF Listed
    <3>2. ~Listed(e)'
      BY <2>2 DEF Listed
    <3> QED
      BY <1>4, <2>1, <2>2, <3>1, <3>2 DEF ShutReadDone, PlaceInv, Running
  <2> QED
    BY <2>3, <2>4
<1> QED
  BY <1>1, <1>2, <1>3, <1>4

LEMMA OrderStep ==
  ASSUME ~CanClose, TypeOK, OrderInv, [Next]_vars
  PROVE  OrderInv'
<1> USE DEF mainVars, runVars, devVars, driverVars
<1>1. CASE Run
  <2>1. ~RunClose /\ ~CloseWait /\ ~CloseAck
    BY DEF OrderInv, ShutInv, RunClose, CloseWait, CloseAck, dClose
  <2>2. CASE RunQuery
    <3>1. ShutInv' /\ ListInv'
      BY <2>2 DEF RunQuery, TypeOK, OrderInv, ShutInv, ListInv, Newest
    <3>2. ASSUME NEW e \in Dev PROVE PlaceInv(e)'
      BY <2>2 DEF RunQuery, OrderInv, PlaceInv, Listed, Running
    <3> QED
      BY <3>1, <3>2 DEF OrderInv
  <2> QED
    BY <1>1, <2>1, <2>2, OrderReadDone, OrderRunDone, OrderAdd, OrderShutdown DEF Run
<1>2. CASE Engine \/ (\E d \in Dev : Break(d)) \/ UNCHANGED vars
  <2>1. /\ UNCHANGED <<mainVars, runVars, devClose, readTok, fd, driverVars>>
        /\ eng'.Close = "idle"
    BY <1>2 DEF Engine, EngineRead, EngineWrite, EngineQuery, EngineClose, Break, vars,
                TypeOK, OrderInv, ShutInv
  <2>2. ShutInv' /\ ListInv'
    BY <2>1 DEF OrderInv, ShutInv, ListInv, Newest
  <2>3. ASSUME NEW e \in Dev PROVE PlaceInv(e)'
    BY <2>1 DEF OrderInv, PlaceInv, Listed, Running
  <2> QED
    BY <2>2, <2>3 DEF OrderInv
<1> QED
  BY <1>1, <1>2, OrderMain, OrderDriver DEF Next

LEMMA OrderInvariance == ASSUME ~CanClose PROVE Spec => [](TypeOK /\ OrderInv)
<1>1. Init => TypeOK /\ OrderInv
  BY InitInv, OrderInit DEF IInv
<1>2. TypeOK /\ OrderInv /\ [Next]_vars => (TypeOK /\ OrderInv)'
  BY TypeStep, OrderStep
<1> QED
  BY <1>1, <1>2, PTL DEF Spec

\* With seamless handover, too, the oldest device is the one that is read, and
\* there is one reader and one runner.
THEOREM HandoverInOrder == ASSUME ~CanClose PROVE Spec => []ReadInOrder
<1>1. OrderInv => ReadInOrder
  <2>1. ASSUME OrderInv, NEW d \in Dev, Reading(d) PROVE devices # <<>> /\ d = devices[1]
    BY <2>1 DEF OrderInv, PlaceInv, Listed, Reading
  <2>2. ASSUME OrderInv, NEW d \in Dev, Running(d) PROVE d = runDone
    BY <2>2 DEF OrderInv, PlaceInv
  <2> QED
    BY <2>1, <2>2 DEF ReadInOrder, SinglePair, OldestIsRead
<1> QED
  BY <1>1, OrderInvariance, PTL

\* The only way to a panic is a Shutdown that finds a device with its successor:
\* the add before it has closed the older one's channel already.
THEOREM OnlyShutdownPanics ==
  ASSUME ~CanClose
  PROVE  Spec => [](runPc = "panic" => /\ caller = "shutdownDone"
                                       /\ Len(devices) > 1 /\ devices[1] \in devClose)
<1>1. OrderInv => (runPc = "panic" => /\ caller = "shutdownDone"
                                      /\ Len(devices) > 1 /\ devices[1] \in devClose)
  BY DEF OrderInv, ShutInv, ListInv
<1> QED
  BY <1>1, OrderInvariance, PTL
=============================================================================
