------------------------------ MODULE JNI_proofs ------------------------------
(***************************************************************************)
(* Proofs about JNI: the environments that goroutines hold are valid and   *)
(* their threads clean, for all goroutines, threads and depths of Do.      *)
(***************************************************************************)
EXTENDS JNI, SequenceTheorems, TLAPS

\* A goroutine has locked its thread once for each call of Do, from the time
\* before it has a frame to that after, and once for Java.
Between == {"enter", "unlock"}
Count(fs, place, t) ==
  (IF t \in JavaThread THEN 1 ELSE 0) + Len(fs) + (IF place \in Between THEN 1 ELSE 0)
Locked(g) == locks[g] = Count(frames[g], at[g], on[g])

\* A locked thread has one goroutine.
Alone ==
  \A g, h \in Goroutine : locks[g] > 0 /\ locks[h] > 0 /\ on[g] = on[h] => g = h

\* The outermost call of Do detaches a thread of Go's, and nothing else does.
FramesOn(t, fs) ==
  \A i \in 1..Len(fs) :
    /\ fs[i].env = t
    /\ fs[i].detach => i = 1 /\ t \notin JavaThread
    /\ i = 1 /\ t \notin JavaThread => fs[i].detach
Framed(g) == FramesOn(on[g], frames[g])

Held(g) ==
  /\ frames[g] # <<>> => on[g] \in attached
  /\ at[g] \in {"called", "looked up", "clear"} => frames[g] # <<>>

Owned ==
  /\ JavaThread \subseteq attached /\ pending \subseteq attached
  /\ \A t \in attached \ JavaThread :
       \E g \in Goroutine : frames[g] # <<>> /\ on[g] = t

\* Except right after a call no exception is pending on a locked thread.
Clean(g) ==
  locks[g] > 0 /\ on[g] \in pending /\ at[g] \notin {"called", "looked up"}
    => outOfMemory \/ dead

IInv ==
  /\ JNITypeOK /\ Alone /\ Owned
  /\ \A g \in Goroutine : Locked(g) /\ Framed(g) /\ Held(g) /\ Clean(g)

-----------------------------------------------------------------------------
LEMMA Lengths ==
  ASSUME NEW fs \in Seq(Frame)
  PROVE  /\ Len(fs) \in Nat
         /\ fs # <<>> <=> Len(fs) > 0
         /\ \A i \in 1..Len(fs) : fs[i] \in Frame
<1>1. Len(fs) \in Nat /\ fs \in [1..Len(fs) -> Frame]
  BY LenProperties
<1>2. fs # <<>> => Len(fs) \in Nat \ {0}
  BY EmptySeq
<1>3. fs = <<>> => Len(fs) = 0
  BY EmptySeq
<1> QED
  BY <1>1, <1>2, <1>3

\* A frame more, or a place between, is one lock.
LEMMA CountSteps ==
  ASSUME NEW fs, NEW gs, Len(fs) \in Nat, Len(gs) = Len(fs) + 1, NEW t,
         NEW p \in Between, NEW q, q \notin Between
  PROVE  /\ Count(gs, q, t) = Count(fs, p, t)
         /\ Count(fs, p, t) = Count(fs, q, t) + 1
<1> DEFINE java == IF t \in JavaThread THEN 1 ELSE 0
<1>1. java \in Nat
  OBVIOUS
<1>2. /\ Count(gs, q, t) = java + Len(gs) + 0
      /\ Count(fs, p, t) = java + Len(fs) + 1
      /\ Count(fs, q, t) = java + Len(fs) + 0
  BY DEF Count
<1> HIDE DEF java
<1> QED
  BY <1>1, <1>2

LEMMA Counted ==
  ASSUME NEW fs \in Seq(Frame), NEW place, NEW t
  PROVE  /\ Count(fs, place, t) \in Nat
         /\ fs # <<>> => Count(fs, place, t) > 0
         /\ t \in JavaThread => Count(fs, place, t) > 0
         /\ place \in Between => Count(fs, place, t) > 0
<1> DEFINE java == IF t \in JavaThread THEN 1 ELSE 0
           between == IF place \in Between THEN 1 ELSE 0
<1>1. Len(fs) \in Nat /\ (fs # <<>> => Len(fs) > 0)
  BY LenProperties, EmptySeq
<1>2. java \in Nat /\ (t \in JavaThread => java > 0)
  OBVIOUS
<1>3. between \in Nat /\ (place \in Between => between > 0)
  OBVIOUS
<1>4. Count(fs, place, t) = java + Len(fs) + between
  BY DEF Count
<1> HIDE DEF java, between
<1> QED
  BY <1>1, <1>2, <1>3, <1>4

\* Who has a frame, or runs on a thread of Java's, has locked its thread.
LEMMA FrameLocks ==
  ASSUME JNITypeOK, NEW g \in Goroutine, Locked(g)
  PROVE  /\ frames[g] # <<>> => locks[g] > 0
         /\ on[g] \in JavaThread => locks[g] > 0
         /\ at[g] \in Between => locks[g] > 0
         /\ locks[g] = 0 => frames[g] = <<>> /\ at[g] \notin Between
<1>1. frames[g] \in Seq(Frame) /\ locks[g] \in Nat
  BY DEF JNITypeOK
<1> QED
  BY <1>1, Counted DEF Locked

\* A step within Do, from one place in it to another, leaves the threads alone.
LEMMA InsideDo ==
  ASSUME Threads, IInv, NEW g \in Goroutine, NEW p, NEW q,
         InDo(g, p), at' = [at EXCEPT ![g] = q],
         p \notin {"enter", "unlock"}, q \in {"go", "called", "looked up", "clear"},
         UNCHANGED <<on, locks, frames, attached>>,
         pending' \subseteq pending \cup {on[g]}, outOfMemory' \in BOOLEAN, dead' \in BOOLEAN
  PROVE  /\ JNITypeOK' /\ Alone' /\ Owned'
         /\ \A h \in Goroutine : Locked(h)' /\ Framed(h)' /\ Held(h)'
<1>1. at \in [Goroutine -> {"go", "enter", "called", "looked up", "clear", "unlock"}]
      /\ at[g] = p /\ frames[g] # <<>> /\ on[g] \in attached
  BY DEF IInv, JNITypeOK, InDo, Runs, Held
<1>2. /\ at'[g] = q
      /\ \A h \in Goroutine \ {g} : at'[h] = at[h]
  BY <1>1
<1>3. JNITypeOK'
  BY <1>1 DEF IInv, JNITypeOK
<1>4. Alone'
  BY DEF IInv, Alone
<1>5. Owned'
  BY <1>1 DEF IInv, Owned
<1>6. \A h \in Goroutine :
        Count(frames'[h], at'[h], on'[h]) = Count(frames[h], at[h], on[h])
  BY <1>1, <1>2 DEF Count, Between
<1>7. ASSUME NEW h \in Goroutine PROVE Locked(h)' /\ Framed(h)' /\ Held(h)'
  <2>1. Locked(h)'
    BY <1>6 DEF IInv, Locked
  <2>2. Framed(h)'
    BY DEF IInv, Framed
  <2>3. Held(h)'
    BY <1>1, <1>2 DEF IInv, Held
  <2> QED
    BY <2>1, <2>2, <2>3
<1> QED
  BY <1>3, <1>4, <1>5, <1>7

\* The other goroutines do not notice what happens on a locked thread.
LEMMA OthersClean ==
  ASSUME IInv, NEW g \in Goroutine, NEW q, at' = [at EXCEPT ![g] = q],
         UNCHANGED <<on, locks>>, locks[g] > 0, pending' \subseteq pending \cup {on[g]},
         outOfMemory => outOfMemory', dead => dead'
  PROVE  \A h \in Goroutine \ {g} : Clean(h)'
<1> SUFFICES ASSUME NEW h \in Goroutine \ {g}, locks[h] > 0, on[h] \in pending',
                    at[h] \notin {"called", "looked up"}
             PROVE  outOfMemory \/ dead
  BY DEF Clean, IInv, JNITypeOK
<1>1. on[h] # on[g]
  BY DEF IInv, Alone
<1> QED
  BY <1>1 DEF IInv, Clean

-----------------------------------------------------------------------------
LEMMA InitHolds == ASSUME Threads PROVE JNIInit => IInv
<1> SUFFICES ASSUME JNIInit PROVE IInv
  OBVIOUS
<1>1. \A g \in Goroutine : frames[g] = <<>> /\ Len(frames[g]) = 0 /\ at[g] = "go"
  BY DEF JNIInit
<1>2. JNITypeOK
  <2>1. <<>> \in Seq(Frame)
    OBVIOUS
  <2> QED
    BY <2>1 DEF JNIInit, JNITypeOK, Threads
<1>3. Alone
  BY DEF JNIInit, Alone
<1>4. Owned
  BY DEF JNIInit, Owned
<1>5. ASSUME NEW g \in Goroutine PROVE Locked(g)
  <2>1. locks[g] = IF on[g] \in JavaThread THEN 1 ELSE 0
    BY DEF JNIInit
  <2> QED
    <3>1. (IF at[g] \in Between THEN 1 ELSE 0) = 0
      BY <1>1 DEF Between
    <3>2. Count(frames[g], at[g], on[g]) = locks[g] + 0 + 0
      BY <1>1, <2>1, <3>1 DEF Count
    <3>3. locks[g] \in Nat
      BY <1>2 DEF JNITypeOK
    <3> QED
      BY <3>2, <3>3 DEF Locked
<1>6. \A g \in Goroutine : Framed(g)
  BY <1>1 DEF Framed, FramesOn
<1>7. \A g \in Goroutine : Held(g) /\ Clean(g)
  BY <1>1 DEF JNIInit, Held, Clean
<1> QED
  BY <1>2, <1>3, <1>4, <1>5, <1>6, <1>7 DEF IInv

\* Move: a goroutine that has locked nothing changes its thread.
LEMMA MoveHolds ==
  ASSUME Threads, IInv, NEW g \in Goroutine, NEW t \in Thread, Move(g, t)
  PROVE  IInv'
<1>1. /\ locks[g] = 0 /\ t \notin JavaThread /\ on' = [on EXCEPT ![g] = t]
      /\ UNCHANGED <<locks, at, frames, attached, pending, outOfMemory, dead>>
  BY DEF Move
<1>2. frames[g] = <<>> /\ at[g] \notin Between /\ on[g] \notin JavaThread
  BY <1>1, FrameLocks DEF IInv
<1>3. on'[g] = t /\ \A h \in Goroutine \ {g} : on'[h] = on[h]
  BY <1>1 DEF IInv, JNITypeOK
<1>4. JNITypeOK'
  BY <1>1 DEF IInv, JNITypeOK
<1>5. Alone'
  BY <1>1, <1>3 DEF IInv, Alone
<1>6. Owned'
  BY <1>1, <1>2, <1>3 DEF IInv, Owned
<1>7. ASSUME NEW h \in Goroutine PROVE Locked(h)' /\ Framed(h)' /\ Held(h)' /\ Clean(h)'
  <2>1. CASE h # g
    <3>1. on'[h] = on[h] /\ UNCHANGED <<locks, at, frames, attached, pending, outOfMemory, dead>>
      BY <1>1, <1>3, <2>1
    <3> QED
      BY <3>1 DEF IInv, Locked, Framed, Held, Clean
  <2>2. CASE h = g
    <3>1. Count(frames[g], at[g], t) = Count(frames[g], at[g], on[g])
      BY <1>1, <1>2 DEF Count
    <3>2. Locked(g)'
      BY <1>1, <1>3, <3>1 DEF IInv, Locked
    <3>3. Framed(g)'
      <4>1. Len(frames'[g]) = 0
        BY <1>1, <1>2, EmptySeq
      <4> QED
        BY <4>1 DEF Framed, FramesOn
    <3>4. Held(g)'
      BY <1>1, <1>2 DEF IInv, Held
    <3>5. Clean(g)'
      <4>1. locks'[g] = 0
        BY <1>1
      <4>2. ~(locks'[g] > 0)
        BY <4>1
      <4> QED
        BY <4>2, Zenon DEF Clean
    <3> QED
      BY <2>2, <3>2, <3>3, <3>4, <3>5
  <2> QED
    BY <2>1, <2>2
<1> QED
  BY <1>4, <1>5, <1>6, <1>7 DEF IInv

\* EnterDo: the thread was nobody's, or the goroutine's own.
LEMMA EnterHolds ==
  ASSUME Threads, IInv, NEW g \in Goroutine, EnterDo(g)
  PROVE  IInv'
<1>1. /\ at[g] = "go" /\ on[g] \notin Taken(g) /\ ~dead
      /\ locks' = [locks EXCEPT ![g] = @ + 1] /\ at' = [at EXCEPT ![g] = "enter"]
      /\ UNCHANGED <<on, frames, attached, pending, outOfMemory, dead>>
  BY DEF EnterDo, Runs
<1>2. \A h \in Goroutine \ {g} : locks[h] > 0 => on[h] # on[g]
  BY <1>1 DEF Taken
<1>3. /\ locks'[g] = locks[g] + 1 /\ at'[g] = "enter" /\ locks[g] \in Nat
      /\ \A h \in Goroutine \ {g} : locks'[h] = locks[h] /\ at'[h] = at[h]
  BY <1>1 DEF IInv, JNITypeOK
<1>4. JNITypeOK'
  <2>1. locks' \in [Goroutine -> Nat]
    <3>1. locks \in [Goroutine -> Nat]
      BY DEF IInv, JNITypeOK
    <3>2. locks[g] + 1 \in Nat
      BY <1>3
    <3> QED
      BY <1>1, <3>1, <3>2
  <2>2. at' \in [Goroutine -> {"go", "enter", "called", "looked up", "clear", "unlock"}]
    BY <1>1 DEF IInv, JNITypeOK
  <2> QED
    BY <1>1, <2>1, <2>2 DEF IInv, JNITypeOK
<1>5. Alone'
  BY <1>1, <1>2, <1>3 DEF IInv, Alone
<1>6. Owned'
  BY <1>1 DEF IInv, Owned
<1>7. Locked(g)'
  <2>1. Len(frames[g]) \in Nat
    BY LenProperties DEF IInv, JNITypeOK
  <2>2. Count(frames[g], "enter", on[g]) = Count(frames[g], at[g], on[g]) + 1
    BY <1>1, <2>1 DEF Count, Between
  <2> QED
    BY <1>1, <1>3, <2>2 DEF IInv, Locked
<1>8. Clean(g)'
  <2> SUFFICES ASSUME on[g] \in pending PROVE outOfMemory \/ dead
    BY <1>1 DEF Clean
  <2>1. locks[g] > 0
    <3>1. CASE on[g] \in JavaThread
      BY <3>1, FrameLocks DEF IInv
    <3>2. CASE on[g] \notin JavaThread
      <4>1. PICK h \in Goroutine : frames[h] # <<>> /\ on[h] = on[g]
        BY <3>2 DEF IInv, Owned
      <4>2. locks[h] > 0
        BY <4>1, FrameLocks DEF IInv
      <4> QED
        BY <1>2, <4>1, <4>2
    <3> QED
      BY <3>1, <3>2
  <2> QED
    BY <1>1, <2>1 DEF IInv, Clean
<1>9. Framed(g)' /\ Held(g)'
  BY <1>1, <1>3 DEF IInv, Framed, Held
<1>10. ASSUME NEW h \in Goroutine \ {g}
       PROVE  Locked(h)' /\ Framed(h)' /\ Held(h)' /\ Clean(h)'
  <2>1. locks'[h] = locks[h] /\ at'[h] = at[h]
    BY <1>3
  <2> QED
    BY <1>1, <2>1 DEF IInv, Locked, Framed, Held, Clean
<1> QED
  BY <1>4, <1>5, <1>6, <1>7, <1>8, <1>9, <1>10 DEF IInv

\* Attach: the outermost call of Do has attached every thread but Java's.
LEMMA AttachHolds ==
  ASSUME Threads, IInv, NEW g \in Goroutine, Attach(g)
  PROVE  IInv'
<1> DEFINE frame == [env |-> on[g], detach |-> Detaches(on[g])]
<1>1. /\ at[g] = "enter"
      /\ frames' = [frames EXCEPT ![g] = Append(@, frame)]
      /\ attached' = attached \cup {on[g]} /\ at' = [at EXCEPT ![g] = "go"]
      /\ UNCHANGED <<on, locks, pending, outOfMemory, dead>>
  BY DEF Attach, Runs
<1>2. /\ on[g] \in Thread /\ frames[g] \in Seq(Frame) /\ Len(frames[g]) \in Nat
      /\ frame \in Frame
      /\ frames[g] # <<>> <=> Len(frames[g]) > 0
  <2>1. on[g] \in Thread /\ frames[g] \in Seq(Frame)
    BY DEF IInv, JNITypeOK
  <2>2. frame \in Frame
    BY <2>1 DEF Frame, Detaches
  <2> QED
    BY <2>1, <2>2, Lengths
<1>3. /\ Append(frames[g], frame) \in Seq(Frame) /\ Append(frames[g], frame) # <<>>
      /\ Len(Append(frames[g], frame)) = Len(frames[g]) + 1
      /\ \A i \in 1..Len(frames[g]) : Append(frames[g], frame)[i] = frames[g][i]
      /\ Append(frames[g], frame)[Len(frames[g]) + 1] = frame
  BY <1>2, AppendProperties
<1>4. /\ frames'[g] = Append(frames[g], frame) /\ at'[g] = "go"
      /\ \A h \in Goroutine \ {g} : frames'[h] = frames[h] /\ at'[h] = at[h]
  BY <1>1 DEF IInv, JNITypeOK
<1>5. locks[g] > 0
  BY <1>1, FrameLocks DEF IInv, Between
<1>6. Detaches(on[g]) <=> (frames[g] = <<>> /\ on[g] \notin JavaThread)
  <2>1. ASSUME on[g] \in attached, on[g] \notin JavaThread PROVE frames[g] # <<>>
    <3>1. PICK h \in Goroutine : frames[h] # <<>> /\ on[h] = on[g]
      BY <2>1 DEF IInv, Owned
    <3>2. locks[h] > 0
      BY <3>1, FrameLocks DEF IInv
    <3>3. h = g
      BY <1>5, <3>1, <3>2 DEF IInv, Alone
    <3> QED
      BY <3>1, <3>3
  <2>2. ASSUME on[g] \notin attached PROVE frames[g] = <<>> /\ on[g] \notin JavaThread
    BY <2>2 DEF IInv, Held, Owned
  <2> QED
    BY <2>1, <2>2 DEF Detaches
<1>7. JNITypeOK'
  <2>1. frames' \in [Goroutine -> Seq(Frame)]
    BY <1>1, <1>3 DEF IInv, JNITypeOK
  <2>2. at' \in [Goroutine -> {"go", "enter", "called", "looked up", "clear", "unlock"}]
    BY <1>1 DEF IInv, JNITypeOK
  <2>3. attached' \subseteq Thread
    BY <1>1, <1>2 DEF IInv, JNITypeOK
  <2> QED
    BY <1>1, <2>1, <2>2, <2>3 DEF IInv, JNITypeOK
<1>8. Alone'
  BY <1>1 DEF IInv, Alone
<1>9. Owned'
  <2>1. \A t \in attached \ JavaThread :
          \E h \in Goroutine : frames'[h] # <<>> /\ on[h] = t
    BY <1>3, <1>4 DEF IInv, Owned
  <2>2. frames'[g] # <<>>
    BY <1>3, <1>4
  <2> QED
    BY <1>1, <2>1, <2>2 DEF IInv, Owned
<1>10. Locked(g)'
  <2>1. Count(frames'[g], "go", on[g]) = Count(frames[g], "enter", on[g])
    <3>1. Len(frames'[g]) = Len(frames[g]) + 1 /\ Len(frames[g]) \in Nat
      BY <1>2, <1>3, <1>4
    <3>2. "enter" \in Between /\ "go" \notin Between
      BY DEF Between
    <3> QED
      BY <3>1, <3>2, CountSteps
  <2> QED
    BY <1>1, <1>4, <2>1 DEF IInv, Locked
<1>11. Framed(g)'
  <2> DEFINE fs == Append(frames[g], frame)
  <2> SUFFICES ASSUME NEW i \in 1..(Len(frames[g]) + 1)
               PROVE  /\ fs[i].env = on[g]
                      /\ fs[i].detach => i = 1 /\ on[g] \notin JavaThread
                      /\ i = 1 /\ on[g] \notin JavaThread => fs[i].detach
    BY <1>1, <1>3, <1>4 DEF Framed, FramesOn
  <2>1. CASE i \in 1..Len(frames[g])
    <3>1. fs[i] = frames[g][i]
      BY <1>3, <2>1
    <3> QED
      BY <2>1, <3>1 DEF IInv, Framed, FramesOn
  <2>2. CASE i = Len(frames[g]) + 1
    <3>1. fs[i] = frame
      BY <1>3, <2>2
    <3>2. i = 1 <=> frames[g] = <<>>
      BY <1>2, <2>2
    <3>3. frame.env = on[g] /\ frame.detach = Detaches(on[g])
      OBVIOUS
    <3> HIDE DEF fs, frame
    <3> QED
      BY <1>6, <3>1, <3>2, <3>3
  <2> QED
    BY <1>2, <2>1, <2>2
<1>12. Held(g)' /\ Clean(g)'
  BY <1>1, <1>3, <1>4, <1>5 DEF IInv, Held, Clean
<1>13. ASSUME NEW h \in Goroutine \ {g}
       PROVE  Locked(h)' /\ Framed(h)' /\ Held(h)' /\ Clean(h)'
  <2>1. frames'[h] = frames[h] /\ at'[h] = at[h]
    BY <1>4
  <2> QED
    BY <1>1, <2>1 DEF IInv, Locked, Framed, Held, Clean
<1> QED
  BY <1>7, <1>8, <1>9, <1>10, <1>11, <1>12, <1>13 DEF IInv

\* Detach: only the outermost call detaches, when no other uses the thread.
LEMMA DetachHolds ==
  ASSUME Threads, IInv, NEW g \in Goroutine, Detach(g)
  PROVE  IInv'
<1> DEFINE n == Len(frames[g])
           rest == SubSeq(frames[g], 1, n - 1)
<1>1. /\ at[g] = "go" /\ n > 0
      /\ frames' = [frames EXCEPT ![g] = SubSeq(@, 1, n - 1)]
      /\ at' = [at EXCEPT ![g] = "unlock"]
      /\ UNCHANGED <<on, locks, outOfMemory, dead>>
  BY DEF Detach, Runs
<1>2. /\ frames[g] \in Seq(Frame) /\ n \in Nat /\ frames[g] # <<>>
      /\ \A i \in 1..n : frames[g][i] \in Frame
  <2>1. frames[g] \in Seq(Frame)
    BY DEF IInv, JNITypeOK
  <2> QED
    BY <1>1, <2>1, Lengths
<1> HIDE DEF n
<1>3. /\ rest \in Seq(Frame) /\ Len(rest) = n - 1
      /\ \A i \in 1..(n - 1) : rest[i] = frames[g][i]
      /\ rest # <<>> <=> n > 1
  <2>1. /\ rest \in Seq(Frame)
        /\ Len(rest) = IF 1 <= n - 1 THEN (n - 1) - 1 + 1 ELSE 0
        /\ \A i \in 1..((n - 1) - 1 + 1) : rest[i] = frames[g][1 + i - 1]
    BY <1>2, SubSeqProperties
  <2>2. rest # <<>> <=> Len(rest) > 0
    BY <2>1, Lengths
  <2> HIDE DEF rest
  <2> QED
    BY <1>1, <1>2, <2>1, <2>2
<1>4. /\ frames'[g] = rest /\ at'[g] = "unlock"
      /\ \A h \in Goroutine \ {g} : frames'[h] = frames[h] /\ at'[h] = at[h]
  BY <1>1 DEF IInv, JNITypeOK
<1> HIDE DEF rest
<1>5. locks[g] > 0
  BY <1>2, FrameLocks DEF IInv
<1>6. frames[g][n].detach <=> n = 1 /\ on[g] \notin JavaThread
  <2>1. n \in 1..n
    BY <1>1, <1>2
  <2> QED
    BY <2>1 DEF IInv, Framed, FramesOn, n
<1>7. \A h \in Goroutine \ {g} : frames[h] # <<>> => on[h] # on[g]
  <2>1. \A h \in Goroutine : frames[h] # <<>> => locks[h] > 0
    BY FrameLocks DEF IInv
  <2> QED
    BY <1>5, <2>1 DEF IInv, Alone
<1>8. \/ /\ n = 1 /\ on[g] \notin JavaThread
         /\ attached' = attached \ {on[g]} /\ pending' = pending \ {on[g]}
      \/ /\ n > 1 \/ on[g] \in JavaThread
         /\ UNCHANGED <<attached, pending>>
  <2>1. IF frames[g][n].detach
        THEN attached' = attached \ {on[g]} /\ pending' = pending \ {on[g]}
        ELSE UNCHANGED <<attached, pending>>
    BY DEF Detach, n
  <2>2. n > 1 \/ n = 1
    BY <1>1, <1>2
  <2>3. CASE frames[g][n].detach
    BY <1>6, <2>1, <2>3
  <2>4. CASE ~frames[g][n].detach
    BY <1>6, <2>1, <2>2, <2>4
  <2> QED
    BY <2>3, <2>4
<1>9. JNITypeOK'
  <2>1. frames' \in [Goroutine -> Seq(Frame)]
    BY <1>1, <1>3 DEF IInv, JNITypeOK, rest, n
  <2>2. at' \in [Goroutine -> {"go", "enter", "called", "looked up", "clear", "unlock"}]
    BY <1>1 DEF IInv, JNITypeOK
  <2>3. attached' \subseteq Thread /\ pending' \subseteq Thread
    BY <1>8 DEF IInv, JNITypeOK
  <2> QED
    BY <1>1, <2>1, <2>2, <2>3 DEF IInv, JNITypeOK
<1>10. Alone'
  BY <1>1 DEF IInv, Alone
<1>11. Owned'
  <2>1. JavaThread \subseteq attached' /\ pending' \subseteq attached'
    BY <1>8 DEF IInv, Owned
  <2>2. ASSUME NEW t \in attached', t \notin JavaThread
        PROVE  \E h \in Goroutine : frames'[h] # <<>> /\ on[h] = t
    <3>1. PICK h \in Goroutine : frames[h] # <<>> /\ on[h] = t
      BY <1>8, <2>2 DEF IInv, Owned
    <3>2. CASE h # g
      BY <1>4, <3>1, <3>2
    <3>3. CASE h = g
      BY <1>3, <1>4, <1>8, <2>2, <3>1, <3>3
    <3> QED
      BY <3>2, <3>3
  <2> QED
    BY <1>1, <2>1, <2>2 DEF Owned
<1>12. Locked(g)'
  <2>1. Len(rest) \in Nat /\ n = Len(rest) + 1
    BY <1>1, <1>2, <1>3
  <2>2. Count(rest, "unlock", on[g]) = Count(frames[g], "go", on[g])
    <3>1. "unlock" \in Between /\ "go" \notin Between
      BY DEF Between
    <3>2. Len(frames[g]) = Len(rest) + 1
      BY <2>1 DEF n
    <3> QED
      BY <2>1, <3>1, <3>2, CountSteps, SMTT(30)
  <2> QED
    BY <1>1, <1>4, <2>2 DEF IInv, Locked
<1>13. Framed(g)'
  <2>1. Len(rest) = n - 1 /\ n = Len(frames[g])
    BY <1>3 DEF n
  <2>2. FramesOn(on[g], frames[g])
    BY DEF IInv, Framed
  <2>3. ASSUME NEW i \in 1..Len(rest)
        PROVE  /\ rest[i].env = on[g]
               /\ rest[i].detach => i = 1 /\ on[g] \notin JavaThread
               /\ i = 1 /\ on[g] \notin JavaThread => rest[i].detach
    <3>1. i \in 1..(n - 1) /\ i \in 1..Len(frames[g])
      BY <1>2, <2>1
    <3>2. rest[i] = frames[g][i]
      BY <1>3, <3>1
    <3> QED
      BY <2>2, <3>1, <3>2 DEF FramesOn
  <2>4. FramesOn(on[g], rest)
    BY <2>3 DEF FramesOn
  <2> QED
    BY <1>1, <1>4, <2>4 DEF Framed
<1>14. Held(g)' /\ Clean(g)'
  <2>1. Held(g)'
    <3>1. ASSUME rest # <<>> PROVE on[g] \in attached'
      <4>1. n # 1
        BY <1>3, <3>1
      <4> QED
        BY <1>2, <1>8, <4>1 DEF IInv, Held, Owned
    <3> QED
      BY <1>1, <1>4, <3>1 DEF Held
  <2>2. Clean(g)'
    BY <1>1, <1>5, <1>8 DEF IInv, Clean
  <2> QED
    BY <2>1, <2>2
<1>15. ASSUME NEW h \in Goroutine \ {g}
       PROVE  Locked(h)' /\ Framed(h)' /\ Held(h)' /\ Clean(h)'
  <2>1. frames'[h] = frames[h] /\ at'[h] = at[h]
    BY <1>4
  <2>2. Locked(h)' /\ Framed(h)'
    BY <1>1, <2>1 DEF IInv, Locked, Framed
  <2>3. Held(h)'
    BY <1>1, <1>7, <1>8, <2>1 DEF IInv, Held
  <2>4. Clean(h)'
    BY <1>1, <1>8, <2>1 DEF IInv, Clean
  <2> QED
    BY <2>2, <2>3, <2>4
<1> QED
  BY <1>9, <1>10, <1>11, <1>12, <1>13, <1>14, <1>15 DEF IInv

\* Unlock
LEMMA UnlockHolds ==
  ASSUME Threads, IInv, NEW g \in Goroutine, Unlock(g)
  PROVE  IInv'
<1>1. /\ at[g] = "unlock"
      /\ locks' = [locks EXCEPT ![g] = @ - 1] /\ at' = [at EXCEPT ![g] = "go"]
      /\ UNCHANGED <<on, frames, attached, pending, outOfMemory, dead>>
  BY DEF Unlock, Runs
<1>2. locks[g] \in Nat /\ locks[g] > 0 /\ frames[g] \in Seq(Frame)
  <2>1. at[g] \in Between
    BY <1>1 DEF Between
  <2> QED
    BY <2>1, FrameLocks DEF IInv, JNITypeOK
<1>3. /\ locks'[g] = locks[g] - 1 /\ at'[g] = "go" /\ locks[g] - 1 \in Nat
      /\ \A h \in Goroutine \ {g} : locks'[h] = locks[h] /\ at'[h] = at[h]
  <2>1. /\ locks \in [Goroutine -> Nat]
        /\ at \in [Goroutine -> {"go", "enter", "called", "looked up", "clear", "unlock"}]
    BY DEF IInv, JNITypeOK
  <2>2. locks[g] - 1 \in Nat
    BY <1>2
  <2> QED
    BY <1>1, <2>1, <2>2
<1>4. JNITypeOK'
  <2>1. locks \in [Goroutine -> Nat]
    BY DEF IInv, JNITypeOK
  <2>2. locks' \in [Goroutine -> Nat]
    BY <1>1, <1>3, <2>1
  <2>3. at' \in [Goroutine -> {"go", "enter", "called", "looked up", "clear", "unlock"}]
    BY <1>1 DEF IInv, JNITypeOK
  <2> QED
    BY <1>1, <2>2, <2>3 DEF IInv, JNITypeOK
<1>5. Alone'
  <2>1. \A h \in Goroutine : locks'[h] > 0 => locks[h] > 0
    BY <1>2, <1>3
  <2> QED
    BY <1>1, <2>1 DEF IInv, Alone
<1>6. Owned'
  BY <1>1 DEF IInv, Owned
<1>7. Locked(g)'
  <2>1. "unlock" \in Between /\ "go" \notin Between
    BY DEF Between
  <2>2. Len(frames[g]) \in Nat /\ Count(frames[g], "go", on[g]) \in Nat
    BY <1>2, Lengths, Counted
  <2>3. Count(frames[g], "unlock", on[g]) = Count(frames[g], "go", on[g]) + 1
    <3> DEFINE fs == frames[g]
               gs == Append(fs, [env |-> on[g], detach |-> TRUE])
    <3>1. Len(gs) = Len(fs) + 1
      <4>1. [env |-> on[g], detach |-> TRUE] \in Frame
        BY DEF IInv, JNITypeOK, Frame
      <4> QED
        BY <1>2, <4>1, AppendProperties
    <3> HIDE DEF gs
    <3> QED
      BY <2>1, <2>2, <3>1, CountSteps
  <2> QED
    BY <1>1, <1>3, <2>2, <2>3 DEF IInv, Locked
<1>8. Framed(g)' /\ Held(g)' /\ Clean(g)'
  <2>1. Framed(g)' /\ Held(g)'
    BY <1>1, <1>3 DEF IInv, Framed, Held
  <2>2. Clean(g)'
    BY <1>1, <1>2, <1>3 DEF IInv, Clean
  <2> QED
    BY <2>1, <2>2
<1>9. ASSUME NEW h \in Goroutine \ {g}
       PROVE  Locked(h)' /\ Framed(h)' /\ Held(h)' /\ Clean(h)'
  <2>1. locks'[h] = locks[h] /\ at'[h] = at[h]
    BY <1>3
  <2> QED
    BY <1>1, <2>1 DEF IInv, Locked, Framed, Held, Clean
<1> QED
  BY <1>4, <1>5, <1>6, <1>7, <1>8, <1>9 DEF IInv

\* What happens within Do: calls, and what is done about their exceptions.
LEMMA InsideHolds ==
  ASSUME Threads, IInv, NEW g \in Goroutine,
         \/ Call(g) \/ LookUp(g) \/ Exception(g) \/ ToString(g) \/ Panic(g)
         \/ JavaString(g) \/ Elements(g)
  PROVE  IInv'
<1> DEFINE Threaded == JNITypeOK' /\ Alone' /\ Owned'
                       /\ \A h \in Goroutine : Locked(h)' /\ Framed(h)' /\ Held(h)'
           Cleaned == \A h \in Goroutine : Clean(h)'
<1>1. SUFFICES Threaded /\ Cleaned
  BY DEF IInv
<1>2. at \in [Goroutine -> {"go", "enter", "called", "looked up", "clear", "unlock"}]
      /\ outOfMemory \in BOOLEAN /\ dead \in BOOLEAN
  BY DEF IInv, JNITypeOK
<1>3. frames[g] # <<>> => locks[g] > 0
  BY FrameLocks DEF IInv
<1>4. ASSUME Call(g) \/ LookUp(g) \/ ToString(g) PROVE Threaded /\ Cleaned
  <2>1. PICK p \in {"go", "clear"}, q \in {"called", "looked up"} :
          /\ InDo(g, p) /\ at' = [at EXCEPT ![g] = q]
          /\ pending' \subseteq pending \cup {on[g]}
          /\ UNCHANGED <<on, locks, frames, attached, outOfMemory, dead>>
    BY <1>4 DEF Call, LookUp, ToString, MayThrow
  <2>2. Threaded
    BY <1>2, <2>1, InsideDo
  <2>3. \A h \in Goroutine \ {g} : Clean(h)'
    BY <1>3, <2>1, OthersClean DEF InDo
  <2>4. Clean(g)'
    BY <1>2, <2>1 DEF Clean
  <2> QED
    BY <2>2, <2>3, <2>4
<1>5. ASSUME Exception(g) \/ Panic(g) PROVE Threaded /\ Cleaned
  <2>1. PICK p \in {"called", "looked up"}, q \in {"go", "clear"} :
          /\ InDo(g, p) /\ at' = [at EXCEPT ![g] = q]
          /\ pending' = pending \ {on[g]}
          /\ UNCHANGED <<on, locks, frames, attached, outOfMemory>>
    BY <1>5 DEF Exception, Panic, Clear
  <2>2. dead' \in BOOLEAN /\ ~dead
    <3>1. ~dead
      BY <2>1 DEF InDo, Runs
    <3>2. dead' \in BOOLEAN
      BY <1>2, <1>5 DEF Exception, Panic
    <3> QED
      BY <3>1, <3>2
  <2>3. Threaded
    BY <1>2, <2>1, <2>2, InsideDo
  <2>4. \A h \in Goroutine \ {g} : Clean(h)'
    BY <1>3, <2>1, <2>2, OthersClean DEF InDo
  <2>5. Clean(g)'
    BY <2>1 DEF Clean
  <2> QED
    BY <2>3, <2>4, <2>5
<1>6. ASSUME JavaString(g) \/ Elements(g) PROVE Threaded /\ Cleaned
  <2>1. /\ InDo(g, "go") /\ at' = [at EXCEPT ![g] = "go"]
        /\ pending' \subseteq pending \cup {on[g]}
        /\ outOfMemory' = TRUE /\ dead' \in BOOLEAN /\ (dead => dead')
        /\ UNCHANGED <<on, locks, frames, attached>>
    BY <1>2, <1>6 DEF JavaString, Elements, InDo, Runs
  <2>2. Threaded
    BY <1>2, <2>1, InsideDo
  <2>3. Cleaned
    BY <2>1 DEF Clean
  <2> QED
    BY <2>2, <2>3
<1> QED
  BY <1>4, <1>5, <1>6

-----------------------------------------------------------------------------
LEMMA NextHolds == ASSUME Threads, IInv, [JNINext]_jniVars PROVE IInv'
<1>1. CASE UNCHANGED jniVars
  BY <1>1 DEF jniVars, IInv, JNITypeOK, Alone, Owned, Locked, Framed, Held, Clean
<1>2. CASE JNINext
  BY <1>2, MoveHolds, EnterHolds, AttachHolds, DetachHolds, UnlockHolds, InsideHolds DEF JNINext
<1> QED
  BY <1>1, <1>2

LEMMA SafeWhenIInv == ASSUME IInv PROVE EnvSafe
<1>1. EnvValid
  <2> SUFFICES ASSUME NEW g \in Goroutine, NEW i \in DOMAIN frames[g]
               PROVE  frames[g][i].env = on[g] /\ on[g] \in attached
    BY DEF EnvValid
  <2>1. frames[g] \in Seq(Frame) /\ DOMAIN frames[g] = 1..Len(frames[g])
    BY LenProperties DEF IInv, JNITypeOK
  <2>2. frames[g] # <<>>
    BY <2>1, Lengths
  <2> QED
    BY <2>1, <2>2 DEF IInv, Framed, FramesOn, Held
<1>2. LeftAsFound
  BY DEF IInv, Owned, LeftAsFound
<1>3. CallsClean
  BY FrameLocks DEF IInv, Clean, CallsClean
<1> QED
  BY <1>1, <1>2, <1>3 DEF EnvSafe

\* The variables of the bindings have their types.
THEOREM JNITyped == JNISpec => []JNITypeOK
<1>1. IInv => JNITypeOK
  BY DEF IInv
<1>2. JNIInit => IInv
  BY ThreadsAssumption, InitHolds
<1>3. IInv /\ [JNINext]_jniVars => IInv'
  BY ThreadsAssumption, NextHolds
<1> QED
  BY <1>1, <1>2, <1>3, PTL DEF JNISpec

\* Whatever is nested and wherever goroutines run, Do's environments are those of
\* their threads, threads are left as found, and no call is made with an exception
\* pending, but for want of memory.
THEOREM EnvironmentsSafe == JNISpec => []EnvSafe
<1>1. JNIInit => IInv
  BY ThreadsAssumption, InitHolds
<1>2. IInv /\ [JNINext]_jniVars => IInv'
  BY ThreadsAssumption, NextHolds
<1>3. IInv => EnvSafe
  BY SafeWhenIInv
<1> QED
  BY <1>1, <1>2, <1>3, PTL DEF JNISpec
=============================================================================
