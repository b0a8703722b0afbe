--------------------------------- MODULE JNI ---------------------------------
(***************************************************************************)
(* The package jni: how goroutines call Java.  A JNI environment belongs   *)
(* to a thread that is attached to the JVM, and goroutines move between    *)
(* threads; Do therefore holds the thread while its function runs, and     *)
(* attaches it if it was not attached.  Do may be nested, and runs on      *)
(* threads of Go as well as on those on which Java has called Go.          *)
(*                                                                         *)
(* Java may throw at any call.  The exception is then pending on the       *)
(* thread, which allows no other call until it is cleared.                 *)
(***************************************************************************)
EXTENDS Naturals, Sequences

CONSTANTS
  Goroutine, Thread,
  JavaThread,       \* the threads on which Java has called Go
  MaxDepth          \* bound on how deep Do is nested

Threads == JavaThread \subseteq Thread
ASSUME ThreadsAssumption == Threads

VARIABLES
  on,         \* the thread on which each goroutine runs, or ran last
  locks,      \* how often each has locked its thread
  at,         \* where it is
  frames,     \* its calls of Do: whose env they hold, do they detach it?
  attached,   \* the threads with an environment
  pending,    \* those with an exception pending
  outOfMemory,
  dead        \* has the process panicked?

jniVars == <<on, locks, at, frames, attached, pending, outOfMemory, dead>>

Frame == [env : Thread, detach : BOOLEAN]

JNITypeOK ==
  /\ on \in [Goroutine -> Thread] /\ locks \in [Goroutine -> Nat]
  /\ at \in [Goroutine -> {"go", "enter", "called", "looked up", "clear", "unlock"}]
  /\ frames \in [Goroutine -> Seq(Frame)]
  /\ attached \subseteq Thread /\ pending \subseteq Thread
  /\ outOfMemory \in BOOLEAN /\ dead \in BOOLEAN

\* While Java calls Go the runtime has locked the thread for the goroutine.
JNIInit ==
  /\ on \in [Goroutine -> Thread]
  /\ \A g, h \in Goroutine : g # h /\ on[g] = on[h] => on[g] \notin JavaThread
  /\ locks = [g \in Goroutine |-> IF on[g] \in JavaThread THEN 1 ELSE 0]
  /\ at = [g \in Goroutine |-> "go"] /\ frames = [g \in Goroutine |-> <<>>]
  /\ attached = JavaThread /\ pending = {} /\ outOfMemory = FALSE /\ dead = FALSE

-----------------------------------------------------------------------------
\* The threads that are locked for another goroutine
Taken(g) == {on[h] : h \in {k \in Goroutine \ {g} : locks[k] > 0}}
Runs(g, place) == ~dead /\ on[g] \notin Taken(g) /\ at[g] = place

\* Go's scheduler moves a goroutine that has not locked its thread.
Move(g, t) ==
  /\ ~dead /\ locks[g] = 0 /\ t \notin Taken(g) \cup JavaThread
  /\ on' = [on EXCEPT ![g] = t]
  /\ UNCHANGED <<locks, at, frames, attached, pending, outOfMemory, dead>>

\* Do: runtime.LockOSThread
EnterDo(g) ==
  /\ Runs(g, "go") /\ Len(frames[g]) < MaxDepth
  /\ locks' = [locks EXCEPT ![g] = @ + 1]
  /\ at' = [at EXCEPT ![g] = "enter"]
  /\ UNCHANGED <<on, frames, attached, pending, outOfMemory, dead>>

\* GetEnv, and AttachCurrentThread when it says that the thread is detached.
DetachesAlways(t) == TRUE
Detaches(t) == t \notin attached
Attach(g) ==
  /\ Runs(g, "enter")
  /\ frames' = [frames EXCEPT ![g] = Append(@, [env |-> on[g], detach |-> Detaches(on[g])])]
  /\ attached' = attached \cup {on[g]}
  /\ at' = [at EXCEPT ![g] = "go"]
  /\ UNCHANGED <<on, locks, pending, outOfMemory, dead>>

\* The deferred calls: DetachCurrentThread, and then UnlockOSThread.
Detach(g) ==
  LET n == Len(frames[g]) IN
  /\ Runs(g, "go") /\ n > 0
  /\ IF frames[g][n].detach
     THEN attached' = attached \ {on[g]} /\ pending' = pending \ {on[g]}
     ELSE UNCHANGED <<attached, pending>>
  /\ frames' = [frames EXCEPT ![g] = SubSeq(@, 1, n - 1)]
  /\ at' = [at EXCEPT ![g] = "unlock"]
  /\ UNCHANGED <<on, locks, outOfMemory, dead>>

Unlock(g) ==
  /\ Runs(g, "unlock")
  /\ locks' = [locks EXCEPT ![g] = @ - 1]
  /\ at' = [at EXCEPT ![g] = "go"]
  /\ UNCHANGED <<on, frames, attached, pending, outOfMemory, dead>>

-----------------------------------------------------------------------------
InDo(g, place) == Runs(g, place) /\ frames[g] # <<>>

\* The thread has an exception pending afterwards, or not.
MayThrow(g) == pending' \in {pending, pending \cup {on[g]}}

\* Call...Method
Call(g) ==
  /\ InDo(g, "go") /\ MayThrow(g)
  /\ at' = [at EXCEPT ![g] = "called"]
  /\ UNCHANGED <<on, locks, frames, attached, outOfMemory, dead>>

\* GetObjectClass, GetMethodID and GetStaticMethodID
LookUp(g) ==
  /\ InDo(g, "go") /\ MayThrow(g)
  /\ at' = [at EXCEPT ![g] = "looked up"]
  /\ UNCHANGED <<on, locks, frames, attached, outOfMemory, dead>>

\* exception, of which those make an error
Clear(t) == pending \ {t}
Exception(g) ==
  /\ InDo(g, "called")
  /\ pending' = Clear(on[g])
  /\ at' = [at EXCEPT ![g] = IF on[g] \in pending THEN "clear" ELSE "go"]
  /\ UNCHANGED <<on, locks, frames, attached, outOfMemory, dead>>

\* It asks the exception for its text, by CallObjectMethod, which may throw again.
ToString(g) ==
  /\ InDo(g, "clear") /\ MayThrow(g)
  /\ at' = [at EXCEPT ![g] = "called"]
  /\ UNCHANGED <<on, locks, frames, attached, outOfMemory, dead>>

\* exception, of which these panic
Panic(g) ==
  /\ InDo(g, "looked up")
  /\ dead' \in BOOLEAN /\ (dead' <=> on[g] \in pending)
  /\ pending' = Clear(on[g])
  /\ at' = [at EXCEPT ![g] = "go"]
  /\ UNCHANGED <<on, locks, frames, attached, outOfMemory>>

\* Without memory JavaString returns null and leaves the exception pending.
JavaString(g) ==
  /\ InDo(g, "go")
  /\ pending' = pending \cup {on[g]} /\ outOfMemory' = TRUE
  /\ UNCHANGED <<on, locks, at, frames, attached, dead>>

\* Without memory GoString, NewByteArray and the Get...ArrayElements, which
\* otherwise change nothing, panic; nobody looks whether they have thrown.
Elements(g) ==
  /\ InDo(g, "go")
  /\ dead' = TRUE /\ outOfMemory' = TRUE
  /\ UNCHANGED <<on, locks, at, frames, attached, pending>>

-----------------------------------------------------------------------------
JNINext == \E g \in Goroutine :
  \/ \E t \in Thread : Move(g, t)
  \/ EnterDo(g) \/ Attach(g) \/ Detach(g) \/ Unlock(g)
  \/ Call(g) \/ LookUp(g) \/ Exception(g) \/ ToString(g) \/ Panic(g)
  \/ JavaString(g) \/ Elements(g)

JNISpec == JNIInit /\ [][JNINext]_jniVars

-----------------------------------------------------------------------------
(* Properties                                                              *)

\* Every environment that a goroutine holds is that of the thread on which it
\* runs, and is valid, however calls of Do are nested and goroutines move.
EnvValid ==
  \A g \in Goroutine : \A i \in DOMAIN frames[g] :
    frames[g][i].env = on[g] /\ on[g] \in attached

\* Do leaves a thread as it has found it: Java's own stay attached, and Go's,
\* which may end at any time, are attached only while a call of Do uses them.
LeftAsFound ==
  /\ JavaThread \subseteq attached
  /\ attached \ JavaThread \subseteq {on[g] : g \in {h \in Goroutine : frames[h] # <<>>}}

\* A goroutine calls Java only when no exception is pending on its thread,
\* unless memory has run out.
CallsClean ==
  \A g \in Goroutine :
    on[g] \in pending /\ at[g] \in {"go", "clear"} /\ frames[g] # <<>> => outOfMemory \/ dead

EnvSafe == EnvValid /\ LeftAsFound /\ CallsClean
=============================================================================
