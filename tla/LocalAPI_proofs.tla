--------------------------- MODULE LocalAPI_proofs ---------------------------
(***************************************************************************)
(* Proofs about LocalAPI for every set of calls and every bound: types,    *)
(* the wholeness of the bodies that are read, and that caller and handler  *)
(* do not hold each other up.                                              *)
(***************************************************************************)
EXTENDS LocalAPI, TLAPS

\* Why a handler could not write its body
Reason(c) == c \in closed \/ c \in expired

\* A writer gives up, or is done with a part of the body missing, only for a reason
\* that the reader shares (the deadline) or has made itself (the close); and who
\* reads has not closed.
CallOK(c) ==
  /\ handler[c] = "write" => left[c] > 0
  /\ handler[c] = "failed" => Reason(c)
  /\ handler[c] = "done" => left[c] = 0 \/ Reason(c)
  /\ c \in closed => pc[c] = "done"
  /\ result[c] = "body" =>
       handler[c] = "done" /\ pc[c] = "done" /\ (left[c] = 0 \/ c \in expired)

\* A handler that has written or returned has let its caller go on; one that is still
\* at work has a caller at the call, or one whose leaving the next write will notice.
HandOK(c) ==
  /\ handler[c] \in {"write", "failed", "done"} => c \in flushed
  /\ handler[c] \in {"serve", "write"} =>
       pc[c] \in {"select", "read"} \/ Reason(c) \/ (c \in Direct /\ Unread(c))
  /\ pc[c] \in {"select", "read"} => handler[c] # "none"

IInv ==
  /\ TypeOK
  /\ ready => service
  /\ \A c \in Call : CallOK(c) /\ HandOK(c)

\* What the state says of one call, and that it stays as it is
Same(c) ==
  /\ pc'[c] = pc[c] /\ result'[c] = result[c] /\ handler'[c] = handler[c]
  /\ left'[c] = left[c] /\ status'[c] = status[c]
  /\ (c \in closed' <=> c \in closed) /\ (c \in expired' <=> c \in expired)
  /\ (c \in flushed' <=> c \in flushed)

USE DEF Reason

LEMMA InitHolds == Init => IInv
<1> SUFFICES ASSUME Init PROVE IInv
  OBVIOUS
<1>1. TypeOK
  <2>1. 0 \in 0..MaxChunks
    BY BoundAssumption
  <2> QED
    BY <2>1 DEF Init, TypeOK, Result
<1>2. \A c \in Call : /\ result[c] = "none" /\ handler[c] = "none" /\ c \notin closed
                      /\ pc[c] = "idle"
  BY DEF Init
<1>3. ~ready
  BY DEF Init
<1> QED
  BY <1>1, <1>2, <1>3 DEF IInv, CallOK, HandOK

\* A call that does not change stays as good as it was.
LEMMA SameOK ==
  ASSUME NEW c \in Call, CallOK(c), HandOK(c), Same(c)
  PROVE  CallOK(c)' /\ HandOK(c)'
BY DEF CallOK, HandOK, Same, Unread

\* A step of one call preserves IInv if it does at that call.
LEMMA OneCall ==
  ASSUME IInv, NEW c \in Call, TypeOK', UNCHANGED shim,
         \A d \in Call \ {c} : Same(d), CallOK(c)', HandOK(c)'
  PROVE  IInv'
BY SameOK DEF IInv, shim

LEMMA ShimStep == IInv /\ Shim => IInv'
<1> SUFFICES ASSUME IInv, Shim PROVE IInv'
  OBVIOUS
<1>1. UNCHANGED <<callVars, handlerVars, expired, alive>>
  BY DEF Shim, ConfigureService, OnReady
<1>2. TypeOK'
  BY <1>1 DEF IInv, TypeOK, Shim, ConfigureService, OnReady, callVars, handlerVars
<1>3. \A c \in Call : Same(c)
  BY <1>1 DEF Same, callVars, handlerVars
<1>4. ready' => service'
  BY DEF IInv, Shim, ConfigureService, OnReady, Configured
<1> QED
  BY <1>2, <1>3, <1>4, SameOK DEF IInv

-----------------------------------------------------------------------------
(* The callers                                                             *)

LEMMA WaitStep ==
  ASSUME NEW c \in Call, IInv, ExecuteRequest(c) \/ Cancel(c)
  PROVE  IInv'
<1>1. TypeOK'
  BY DEF IInv, TypeOK, ExecuteRequest, Cancel, May, handlerVars, shim
<1>2. \A d \in Call \ {c} : Same(d)
  BY DEF IInv, TypeOK, ExecuteRequest, Cancel, Same, handlerVars
<1>3. /\ pc[c] \notin {"select", "read", "done"} /\ pc'[c] \notin {"select", "read"}
      /\ UNCHANGED <<shim, result, closed, handlerVars, expired>>
  BY DEF IInv, TypeOK, ExecuteRequest, Cancel, May
<1>4. CallOK(c)'
  BY <1>3 DEF IInv, CallOK, handlerVars
<1>5. HandOK(c)'
  BY <1>3 DEF IInv, HandOK, handlerVars, Unread
<1> QED
  BY <1>1, <1>2, <1>3, <1>4, <1>5, OneCall

LEMMA StartStep ==
  ASSUME NEW c \in Call, IInv, DoRequest(c) \/ GoCall(c)
  PROVE  IInv'
<1>1. Start(c) /\ UNCHANGED <<shim, expired, alive>> /\ pc[c] # "done"
  BY DEF IInv, DoRequest, GoCall, May
<1>2. TypeOK'
  BY <1>1 DEF IInv, TypeOK, Start, shim
<1>3. \A d \in Call \ {c} : Same(d)
  BY <1>1 DEF IInv, TypeOK, Start, Same
<1>4. handler'[c] = "serve" /\ pc'[c] = "select" /\ UNCHANGED <<result, closed>>
  BY <1>1 DEF IInv, TypeOK, Start
<1>5. CallOK(c)' /\ HandOK(c)'
  BY <1>1, <1>4 DEF IInv, CallOK, HandOK
<1> QED
  BY <1>1, <1>2, <1>3, <1>5, OneCall

LEMMA ResponseStep ==
  ASSUME NEW c \in Call, IInv, Response(c)
  PROVE  IInv'
<1>1. TypeOK'
  BY DEF IInv, TypeOK, Response, Return, CloseBody, Result, handlerVars, shim
<1>2. \A d \in Call \ {c} : Same(d)
  BY DEF IInv, TypeOK, Response, Return, CloseBody, Same, handlerVars
<1>3. /\ result'[c] \in {result[c], "status", "closed"}
      /\ pc[c] = "select"
      /\ pc'[c] = "read" \/ (Unread(c) /\ (c \in Direct \/ c \in closed'))
      /\ c \in closed' => c \in closed \/ pc'[c] = "done"
      /\ closed \subseteq closed'
      /\ UNCHANGED <<shim, handlerVars, expired>>
  BY DEF IInv, TypeOK, Response, Return, CloseBody
<1>4. CallOK(c)'
  BY <1>3 DEF IInv, CallOK, handlerVars
<1>5. HandOK(c)'
  BY <1>3 DEF IInv, HandOK, handlerVars, Unread
<1> QED
  BY <1>1, <1>2, <1>3, <1>4, <1>5, OneCall

LEMMA TimeoutStep ==
  ASSUME NEW c \in Call, IInv, Timeout(c)
  PROVE  IInv'
<1>1. TypeOK'
  BY DEF IInv, TypeOK, Timeout, Return, Result, handlerVars, shim
<1>2. \A d \in Call \ {c} : Same(d)
  BY DEF IInv, TypeOK, Timeout, Return, Same, handlerVars
<1>3. /\ result'[c] \in {result[c], "timeout"}
      /\ pc[c] = "select" /\ c \in expired
      /\ UNCHANGED <<shim, closed, handlerVars, expired>>
  BY DEF IInv, TypeOK, Timeout, Return
<1>4. CallOK(c)'
  BY <1>3 DEF IInv, CallOK, handlerVars
<1>5. HandOK(c)'
  BY <1>3 DEF IInv, HandOK, handlerVars, Unread
<1> QED
  BY <1>1, <1>2, <1>3, <1>4, <1>5, OneCall

LEMMA ReadStep ==
  ASSUME NEW c \in Call, IInv, ReadEnd(c) \/ ReadDeadline(c)
  PROVE  IInv'
<1>1. TypeOK'
  BY DEF IInv, TypeOK, ReadEnd, ReadDeadline, Return, CloseBody, Result, handlerVars, shim
<1>2. \A d \in Call \ {c} : Same(d)
  BY DEF IInv, TypeOK, ReadEnd, ReadDeadline, Return, CloseBody, Same, handlerVars
<1>3. /\ \/ result'[c] = "readError" /\ c \in expired
         \/ result'[c] = "body" /\ handler[c] = "done"
      /\ pc[c] = "read" /\ pc'[c] = "done"
      /\ closed \subseteq closed'
      /\ UNCHANGED <<shim, handlerVars, expired>>
  BY DEF IInv, TypeOK, ReadEnd, ReadDeadline, Return, CloseBody
\* The body is not closed before it is read: only the deadline is a reason left.
<1>4. handler[c] = "done" => left[c] = 0 \/ c \in expired
  BY <1>3 DEF IInv, CallOK
<1>5. CallOK(c)' /\ HandOK(c)'
  BY <1>3, <1>4 DEF IInv, CallOK, HandOK, handlerVars
<1> QED
  BY <1>1, <1>2, <1>3, <1>5, OneCall

-----------------------------------------------------------------------------
(* The handlers                                                            *)

LEMMA WriteStep ==
  ASSUME NEW c \in Call, IInv, HandlerWrite(c) \/ HandlerWriteFails(c)
  PROVE  IInv'
<1>1. TypeOK'
  BY DEF IInv, TypeOK, HandlerWrite, HandlerWriteFails, Flush, callVars, shim
<1>2. \A d \in Call \ {c} : Same(d)
  BY DEF IInv, TypeOK, HandlerWrite, HandlerWriteFails, Flush, Same, callVars
<1>3. /\ handler[c] \in {"serve", "write"}
      /\ (handler'[c] = "write" /\ left[c] > 0) \/ (handler'[c] = "failed" /\ Reason(c))
      /\ c \in flushed'
      /\ UNCHANGED <<shim, callVars, status, left, expired>>
  BY DEF IInv, TypeOK, HandOK, HandlerWrite, HandlerWriteFails, Flush, Broken
<1>4. CallOK(c)'
  BY <1>3 DEF IInv, CallOK, callVars
<1>5. HandOK(c)'
  BY <1>3 DEF IInv, HandOK, callVars, Unread
<1> QED
  BY <1>1, <1>2, <1>3, <1>4, <1>5, OneCall

LEMMA TransferStep ==
  ASSUME NEW c \in Call, IInv, Transfer(c)
  PROVE  IInv'
<1>1. left[c] \in 0..MaxChunks /\ left[c] > 0
  BY DEF IInv, TypeOK, CallOK, Transfer
<1>2. left[c] - 1 \in 0..MaxChunks
  BY <1>1, BoundAssumption
<1>3. TypeOK'
  BY <1>2 DEF IInv, TypeOK, Transfer, callVars, shim
<1>4. \A d \in Call \ {c} : Same(d)
  BY DEF IInv, TypeOK, Transfer, Same, callVars
<1>5. /\ pc[c] = "read" /\ handler'[c] = "serve"
      /\ UNCHANGED <<shim, callVars, expired>>
  BY DEF IInv, TypeOK, Transfer
<1>6. CallOK(c)' /\ HandOK(c)'
  BY <1>5 DEF IInv, CallOK, HandOK, callVars
<1> QED
  BY <1>3, <1>4, <1>5, <1>6, OneCall

LEMMA HandlerReturnStep ==
  ASSUME NEW c \in Call, IInv, HandlerReturn(c)
  PROVE  IInv'
<1>1. TypeOK'
  BY DEF IInv, TypeOK, HandlerReturn, Flush, callVars, shim
<1>2. \A d \in Call \ {c} : Same(d)
  BY DEF IInv, TypeOK, HandlerReturn, Flush, Same, callVars
<1>3. /\ handler[c] = "failed" \/ (handler[c] = "serve" /\ left[c] = 0)
      /\ handler'[c] = "done" /\ c \in flushed'
      /\ UNCHANGED <<shim, callVars, left, expired>>
  BY DEF IInv, TypeOK, HandlerReturn, Flush, Served
<1>4. CallOK(c)'
  BY <1>3 DEF IInv, CallOK, callVars
<1>5. HandOK(c)'
  BY <1>3 DEF IInv, HandOK, callVars, Unread
<1> QED
  BY <1>1, <1>2, <1>3, <1>4, <1>5, OneCall

LEMMA ExpireStep ==
  ASSUME NEW c \in Call, IInv, Expire(c)
  PROVE  IInv'
<1>1. TypeOK'
  BY DEF IInv, TypeOK, Expire, callVars, handlerVars, shim
<1>2. \A d \in Call \ {c} : Same(d)
  BY DEF Expire, Same, callVars, handlerVars
<1>3. expired \subseteq expired' /\ UNCHANGED <<shim, callVars, handlerVars>>
  BY DEF Expire
<1>4. CallOK(c)'
  BY <1>3 DEF IInv, CallOK, callVars, handlerVars
<1>5. HandOK(c)'
  BY <1>3 DEF IInv, HandOK, callVars, handlerVars, Unread
<1> QED
  BY <1>1, <1>2, <1>3, <1>4, <1>5, OneCall

-----------------------------------------------------------------------------
LEMMA StepHolds == IInv /\ [Next]_vars => IInv'
<1> SUFFICES ASSUME IInv, [Next]_vars PROVE IInv'
  OBVIOUS
<1>1. CASE Shim
  BY <1>1, ShimStep
<1>2. ASSUME NEW c \in Call,
             ExecuteRequest(c) \/ GoCall(c) \/ Cancel(c) \/ DoRequest(c)
      PROVE  IInv'
  BY <1>2, WaitStep, StartStep
<1>3. ASSUME NEW c \in Call, Answer(c)
      PROVE  IInv'
  BY <1>3, ResponseStep, TimeoutStep, ReadStep DEF Answer
<1>4. ASSUME NEW c \in Call, Handler(c)
      PROVE  IInv'
  BY <1>4, WriteStep, TransferStep, HandlerReturnStep DEF Handler
<1>5. ASSUME NEW c \in Call, Expire(c)
      PROVE  IInv'
  BY <1>5, ExpireStep
<1>6. CASE UNCHANGED vars
  <2>1. TypeOK'
    BY <1>6 DEF IInv, TypeOK, vars, shim, callVars, handlerVars
  <2>2. \A c \in Call : Same(c)
    BY <1>6 DEF Same, vars, callVars, handlerVars
  <2> QED
    BY <1>6, <2>1, <2>2, SameOK DEF IInv, vars, shim
<1> QED
  BY <1>1, <1>2, <1>3, <1>4, <1>5, <1>6 DEF Next

THEOREM Invariance == Spec => []IInv
BY InitHolds, StepHolds, PTL DEF Spec

-----------------------------------------------------------------------------
(* The theorems                                                            *)

\* Type correctness, for every set of calls and every bound.
THEOREM TypeCorrect == Spec => []TypeOK
<1>1. IInv => TypeOK
  BY DEF IInv
<1> QED
  BY Invariance, <1>1, PTL

\* A caller that reads a body to its end before the deadline has the whole body.
THEOREM BodiesAreWhole == Spec => []WholeBody
<1>1. IInv => WholeBody
  BY DEF IInv, CallOK, WholeBody
<1> QED
  BY Invariance, <1>1, PTL

\* Caller and handler never wait for the deadline because of each other: the one that
\* waits, for the flush or at the pipe, has a partner that has still something to do.
THEOREM NobodyHeldUp == Spec => []NotHeldUp
<1>1. ASSUME IInv PROVE NotHeldUp
  <2>1. SUFFICES ASSUME NEW c \in Call PROVE FlushIsDue(c) /\ DataIsDue(c) /\ ReaderIsDue(c)
    BY DEF NotHeldUp
  <2>2. CallOK(c) /\ HandOK(c) /\ handler[c] \in {"none", "serve", "write", "failed", "done"}
    BY <1>1 DEF IInv, TypeOK
  <2>3. FlushIsDue(c)
    BY <2>2 DEF HandOK, FlushIsDue
  \* A handler that failed while somebody reads did so at the deadline.
  <2>4. DataIsDue(c)
    BY <2>2 DEF CallOK, HandOK, DataIsDue
  <2>5. ReaderIsDue(c)
    BY <2>2 DEF HandOK, ReaderIsDue, Broken
  <2> QED
    BY <2>3, <2>4, <2>5
<1> QED
  BY Invariance, <1>1, PTL
=============================================================================
