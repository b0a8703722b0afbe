------------------------------ MODULE LocalAPI ------------------------------
(***************************************************************************)
(* Calls of the local API inside the process: LocalAPIService.Call and its *)
(* Response (cmd/localapiservice), the JNI shim, and the Kotlin client     *)
(* (ui/localapi/LocalAPIClient.kt).                                        *)
(*                                                                         *)
(* Call runs the HTTP handler in a goroutine of its own and returns when   *)
(* the handler starts to write the body, or when the deadline has passed.  *)
(* The body goes through a net.Pipe, whose ends meet chunk by chunk and    *)
(* share the deadline.  Kotlin's requests wait until ConfigureShim has     *)
(* said that it is ready and then run on Android's main thread, one at a   *)
(* time; the Go callers are GetBugReportID and Logout.  A reference        *)
(* through a nil *Response ends the process.                               *)
(***************************************************************************)
EXTENDS Naturals, FiniteSets

CONSTANTS
  Request,    \* the requests of LocalApiClient
  BugReport,  \* the calls of GetBugReportID
  Logout,     \* the calls of Logout
  Direct,     \* calls of Call alone, as in localapi_test.go
  MaxCalls,   \* bound on the number of calls that are made
  MaxChunks   \* bound on the number of writes of a handler

Call == Request \cup BugReport \cup Logout \cup Direct

ASSUME KindAssumption ==
  /\ Request \cap (BugReport \cup Logout \cup Direct) = {}
  /\ BugReport \cap (Logout \cup Direct) = {} /\ Logout \cap Direct = {}
ASSUME BoundAssumption == MaxCalls \in Nat /\ MaxChunks \in Nat

VARIABLES
  service,  \* shim.service is set
  ready,    \* LocalApiClient.isReady is complete
  pc,       \* what the caller of each call does
  result,   \* what it got from the call
  handler,  \* what the handler goroutine of each call does
  status,   \* Response.status, by its class
  flushed,  \* the calls whose startWritingBody is closed
  left,     \* the number of chunks of the body that are not written
  closed,   \* the calls whose bodyReader is closed
  expired,  \* the calls whose deadline has passed
  alive     \* TRUE until the process panics

callVars    == <<pc, result, closed>>
handlerVars == <<handler, status, flushed, left>>
shim        == <<service, ready>>
vars        == <<shim, callVars, handlerVars, expired, alive>>

Result == {"none", "notReady", "timeout", "status", "body", "readError", "closed"}

TypeOK ==
  /\ service \in BOOLEAN /\ ready \in BOOLEAN
  /\ pc \in [Call -> {"idle", "await", "select", "read", "done"}]
  /\ result \in [Call -> Result]
  /\ handler \in [Call -> {"none", "serve", "write", "failed", "done"}]
  /\ status \in [Call -> {"ok", "error"}]
  /\ flushed \subseteq Call /\ closed \subseteq Call /\ expired \subseteq Call
  /\ left \in [Call -> 0..MaxChunks]
  /\ alive \in BOOLEAN

Init ==
  /\ service = FALSE /\ ready = FALSE /\ alive = TRUE
  /\ pc = [c \in Call |-> "idle"] /\ result = [c \in Call |-> "none"]
  /\ handler = [c \in Call |-> "none"] /\ status = [c \in Call |-> "ok"]
  /\ left = [c \in Call |-> 0]
  /\ flushed = {} /\ closed = {} /\ expired = {}

-----------------------------------------------------------------------------
(* The shim                                                                *)

\* ConfigureShim assigns the service...
ConfigureService ==
  /\ ~service
  /\ service' = TRUE
  /\ UNCHANGED <<ready, callVars, handlerVars, expired, alive>>

\* ... and then tells LocalApiClient, and with it all that await isReady.
Configured == service
OnReady ==
  /\ Configured /\ ~ready
  /\ ready' = TRUE
  /\ UNCHANGED <<service, callVars, handlerVars, expired, alive>>

-----------------------------------------------------------------------------
(* The callers                                                             *)

Return(c, r) ==
  /\ pc' = [pc EXCEPT ![c] = "done"]
  /\ result' = [result EXCEPT ![c] = r]

May(c) == pc[c] = "idle" /\ Cardinality({d \in Call : pc[d] # "idle"}) < MaxCalls

\* executeRequest: the coroutine awaits isReady.
ExecuteRequest(c) ==
  /\ c \in Request /\ May(c)
  /\ pc' = [pc EXCEPT ![c] = "await"]
  /\ UNCHANGED <<shim, result, closed, handlerVars, expired, alive>>

\* Call: starts the handler, whose answer is left open, and waits.
Start(c) ==
  /\ handler' = [handler EXCEPT ![c] = "serve"]
  /\ \E n \in 0..MaxChunks, s \in {"ok", "error"} :
       /\ left' = [left EXCEPT ![c] = n]
       /\ status' = [status EXCEPT ![c] = s]
  /\ pc' = [pc EXCEPT ![c] = "select"]
  /\ UNCHANGED <<result, closed, flushed>>

\* The main thread is inside a doRequest.
BusyForever == \E c \in Request : pc[c] \notin {"idle", "await"}
Busy == \E c \in Request : pc[c] \in {"select", "read"}

\* doRequest, doLocalAPIRequest
DoRequest(c) ==
  /\ pc[c] = "await" /\ ready /\ ~Busy
  /\ IF service THEN Start(c)
     ELSE Return(c, "notReady") /\ UNCHANGED <<closed, handlerVars>>
  /\ UNCHANGED <<shim, expired, alive>>

\* The activity is destroyed: the scope of its coroutines is cancelled.
Cancel(c) ==
  /\ pc[c] = "await"
  /\ pc' = [pc EXCEPT ![c] = "done"]
  /\ UNCHANGED <<shim, result, closed, handlerVars, expired, alive>>

\* GetBugReportID on the main loop, Logout in a goroutine, or a test
GoCall(c) ==
  /\ c \in Call \ Request /\ May(c)
  /\ c \in Direct \/ ready
  /\ c \in BugReport => \A b \in BugReport : pc[b] \in {"idle", "done"}
  /\ Start(c)
  /\ UNCHANGED <<shim, expired, alive>>

\* case <-resp.startWritingBody.  On an error status, and in Logout, the body is
\* closed unread.
Unread(c) == status[c] = "error" \/ c \in Logout
CloseBody(c) == closed' = IF c \in Direct THEN closed ELSE closed \cup {c}
Response(c) ==
  /\ pc[c] = "select" /\ c \in flushed
  /\ IF Unread(c)
     THEN /\ Return(c, IF status[c] = "error" THEN "status" ELSE "closed")
          /\ CloseBody(c)
     ELSE /\ pc' = [pc EXCEPT ![c] = "read"]
          /\ UNCHANGED <<result, closed>>
  /\ UNCHANGED <<shim, handlerVars, expired, alive>>

\* case <-ctx.Done(): the *Response is nil.  All callers but the tests defer
\* r.Body().Close() before they look at the error.
Timeout(c) ==
  /\ pc[c] = "select" /\ c \in expired
  /\ IF c \in Direct
     THEN Return(c, "timeout") /\ UNCHANGED alive
     ELSE alive' = FALSE /\ UNCHANGED <<pc, result>>
  /\ UNCHANGED <<shim, closed, handlerVars, expired>>

\* io.ReadAll meets the end of the body: the writer has been closed.
ReadEnd(c) ==
  /\ pc[c] = "read" /\ handler[c] = "done"
  /\ Return(c, "body")
  /\ CloseBody(c)
  /\ UNCHANGED <<shim, handlerVars, expired, alive>>

ReadDeadline(c) ==
  /\ pc[c] = "read" /\ c \in expired
  /\ Return(c, "readError")
  /\ CloseBody(c)
  /\ UNCHANGED <<shim, handlerVars, expired, alive>>

-----------------------------------------------------------------------------
(* The handlers                                                            *)

\* Response.Flush lets the caller go on, who waits for it before it reads.
FlushNot(c) == UNCHANGED flushed
Flush(c) == flushed' = flushed \cup {c}

\* Response.Write: Flush, then a write to the pipe
HandlerWrite(c) ==
  /\ handler[c] = "serve" /\ left[c] > 0
  /\ handler' = [handler EXCEPT ![c] = "write"]
  /\ Flush(c)
  /\ UNCHANGED <<shim, callVars, status, left, expired, alive>>

\* A write and a read of the pipe meet, before the deadline.
Transfer(c) ==
  /\ handler[c] = "write" /\ pc[c] = "read" /\ c \notin expired
  /\ handler' = [handler EXCEPT ![c] = "serve"]
  /\ left' = [left EXCEPT ![c] = @ - 1]
  /\ UNCHANGED <<shim, callVars, status, flushed, expired, alive>>

\* The write fails, and so would the later ones.
BrokenByClose(c) == c \in closed
Broken(c) == c \in closed \/ c \in expired
HandlerWriteFails(c) ==
  /\ handler[c] = "write" /\ Broken(c)
  /\ handler' = [handler EXCEPT ![c] = "failed"]
  /\ UNCHANGED <<shim, callVars, status, flushed, left, expired, alive>>

\* ServeHTTP returns: Flush, and the writer is closed.
ServedEarly(c) == handler[c] \in {"serve", "failed"}
Served(c) == handler[c] = "failed" \/ (handler[c] = "serve" /\ left[c] = 0)
HandlerReturn(c) ==
  /\ Served(c)
  /\ handler' = [handler EXCEPT ![c] = "done"]
  /\ Flush(c)
  /\ UNCHANGED <<shim, callVars, status, left, expired, alive>>

\* Time passes: two seconds for a request and a bug report, sixty for Logout.
Expire(c) ==
  /\ handler[c] # "none" /\ c \notin expired
  /\ handler[c] # "done" \/ pc[c] # "done"
  /\ expired' = expired \cup {c}
  /\ UNCHANGED <<shim, callVars, handlerVars, alive>>

-----------------------------------------------------------------------------
Shim == ConfigureService \/ OnReady

Answer(c) == Response(c) \/ Timeout(c) \/ ReadEnd(c) \/ ReadDeadline(c)

Handler(c) ==
  HandlerWrite(c) \/ Transfer(c) \/ HandlerWriteFails(c) \/ HandlerReturn(c)

Next ==
  /\ alive
  /\ \/ Shim
     \/ \E c \in Call :
          \/ ExecuteRequest(c) \/ GoCall(c) \/ Cancel(c)
          \/ DoRequest(c) \/ Answer(c) \/ Handler(c) \/ Expire(c)

Spec == Init /\ [][Next]_vars

\* The backend starts, every thread goes on while it can, and time passes.
\* A handler need not write or return before the deadline.
Fairness ==
  /\ WF_vars(alive /\ Shim)
  /\ \A c \in Call :
       /\ SF_vars(alive /\ DoRequest(c))
       /\ WF_vars(alive /\ Answer(c))
       /\ WF_vars(alive /\ Handler(c)) /\ WF_vars(alive /\ Expire(c))

FairSpec == Spec /\ Fairness

-----------------------------------------------------------------------------
(* Properties                                                              *)

\* A body that ReadAll returns without an error is the whole body, unless the
\* deadline has passed: then the end of a failed write looks like the end.
WholeBody ==
  \A c \in Call : result[c] = "body" => left[c] = 0 \/ c \in expired

\* Who waits for the flush has a handler that has still to write or to return.
FlushIsDue(c) == pc[c] = "select" => c \in flushed \/ handler[c] = "serve"

\* Who reads has a handler that writes, has still to write or to return, or has closed
\* the pipe.
DataIsDue(c) == pc[c] = "read" => handler[c] \in {"serve", "write", "done"} \/ c \in expired

\* Who writes has a caller that reads, or that has been let go on and will read or close
\* the body.  Only the tests' callers leave it open, on an error status.
ReaderIsDue(c) ==
  handler[c] = "write" =>
    \/ pc[c] = "read" \/ (pc[c] = "select" /\ c \in flushed)
    \/ Broken(c)
    \/ c \in Direct /\ Unread(c)

\* Caller and handler wait for each other twice, for the flush and at the pipe, and the
\* caller may leave without reading; yet neither has to wait for the deadline to be
\* released, so a call returns as soon as its handler does.
NotHeldUp == \A c \in Call : FlushIsDue(c) /\ DataIsDue(c) /\ ReaderIsDue(c)

\* Every handler goroutine ends, although its caller may have gone without
\* reading the body or closing it.
HandlerEnds == \A c \in Call : handler[c] # "none" ~> handler[c] = "done" \/ ~alive

\* Every call returns, to the UI's and to the main loop's relief, unless the panic of
\* another one ends the process; and a request that is made before the backend is
\* ready is executed then, and not turned away.
CallReturns ==
  \A c \in Call :
    pc[c] \in {"await", "select"} ~>
      (pc[c] = "done" /\ result[c] # "notReady") \/ ~alive

\* doRequest calls back into onResponse, whatever the handler does.
GuaranteedResponse == \A c \in Request : pc[c] = "select" ~> result[c] # "none"
=============================================================================
