--------------------------- MODULE MainLoop_proofs ---------------------------
(***************************************************************************)
(* Proofs about what the main loop of cmd/tailscale/main.go does with the  *)
(* UI, the clock and the VPN service: Mailboxes, for any events and any    *)
(* bounds; KeyExpiry, for all thresholds and dates; VPNStart, for any      *)
(* number of activities and of changes.                                    *)
(***************************************************************************)
EXTENDS Mailboxes, KeyExpiry, VPNStart, TLAPS

-----------------------------------------------------------------------------
(* Mailboxes                                                               *)

\* The values that the main loop has sent, and is about to send, are the numbers of
\* events that it has taken.
Numbered ==
  /\ \A b \in LoopOnly : sent[b] <= handled
  /\ \A i \in 1..Len(todo) : todo[i] \in LoopOnly => value = handled

\* TypeOK says that a mailbox has been drained only if it is next in line and
\* overwritten, so the only writer it can meet is the UI, in browseURLs.
BoxInv == TypeOK /\ NeverBlocks /\ LatestKept /\ Numbered

USE DEF loopVars, uiVars

-----------------------------------------------------------------------------
\* The channels that the actions name.
LEMMA BoxNames ==
  /\ {"notifications", "prefs", "netStates", "browseURLs", "targetsLoaded", "bugReport"} = Box
  /\ Overwritten = {"prefs", "netStates", "browseURLs"}
  /\ LoopOnly = {"prefs", "netStates", "targetsLoaded"}
BY DEF Box, Overwritten, Shown, LoopOnly

\* A list of channels is a sequence of them.
LEMMA IfType == ASSUME NEW part \in BOOLEAN, NEW b \in Box PROVE If(part, b) \in Seq(Box)
<1>1. CASE part
  BY <1>1 DEF If
<1>2. CASE ~part
  BY <1>2 DEF If
<1> QED
  BY <1>1, <1>2

\* What the main loop is about to send, and where to, when it has taken an event.
LEMMA HandleType ==
  ASSUME TypeOK, NEW list \in Seq(Box), NEW v \in Nat, Handle(list, v)
  PROVE  /\ todo' \in Seq(Box) /\ drained' = 0
         /\ value' \in Nat /\ handled' \in 0..MaxEvents
BY BoundAssumption DEF Handle, TypeOK

\* The initial state satisfies the invariant.
LEMMA BoxInit == Init => BoxInv
BY BoundAssumption, BoxNames DEF Init, BoxInv, TypeOK, NeverBlocks, LatestKept, Numbered

\* The invariant holds after the main loop has taken an event.
LEMMA HandledInv ==
  ASSUME BoxInv, NEW list \in Seq(Box), NEW v \in Nat, Handle(list, v),
         \A i \in 1..Len(list) : list[i] \in LoopOnly => v = handled + 1,
         box' \in [Box -> Nat], \A b \in LoopOnly : box'[b] = box[b],
         requests' \subseteq requests, UNCHANGED <<sent, uiVars>>
  PROVE  BoxInv'
<1>1. /\ todo' \in Seq(Box) /\ drained' = 0
      /\ value' \in Nat /\ handled' \in 0..MaxEvents
  BY HandleType DEF BoxInv
<1>2. drained = 0
  BY DEF Handle, BoxInv, TypeOK
<1>3. LatestKept'
  <2>1. \A b \in LoopOnly : box[b] \in {0, sent[b]} /\ sent[b] \in {seen[b], box[b]}
    BY <1>2 DEF BoxInv, LatestKept
  <2> QED
    BY <2>1 DEF LatestKept
<1>4. Numbered'
  <2>1. todo' = list /\ value' = v /\ handled' = handled + 1
    BY DEF Handle
  <2>2. /\ handled \in Nat /\ sent \in [Box -> Nat] /\ sent' = sent
        /\ \A b \in LoopOnly : b \in Box /\ sent[b] <= handled
    BY BoundAssumption, BoxNames DEF BoxInv, Numbered, TypeOK
  <2>3. \A b \in LoopOnly : sent'[b] <= handled'
    BY <2>1, <2>2
  <2> QED
    BY <2>1, <2>3 DEF Numbered
<1>5. TypeOK'
  <2>1. /\ requests' \subseteq Request /\ sent' \in [Box -> Nat] /\ seen' \in [Box -> Nat]
        /\ ui' \in {"select", "url", "report"} /\ asked' \in 0..MaxReports
    BY DEF BoxInv, TypeOK, uiVars
  <2>2. drained' \in 0..1 /\ ~(drained' = 1)
    BY <1>1
  <2> QED
    BY <1>1, <2>1, <2>2 DEF TypeOK
<1>6. NeverBlocks'
  BY <1>1 DEF NeverBlocks
<1> QED
  BY <1>3, <1>4, <1>5, <1>6 DEF BoxInv

\* The main loop takes a notification, an event of the UI, or a network change.
LEMMA EventStep ==
  ASSUME BoxInv, LoopNotification \/ LoopNetworkChanged \/ \E r \in Request : LoopRequest(r)
  PROVE  BoxInv'
<1>1. CASE LoopNotification
  <2>1. PICK prefs, state, url, netMap \in BOOLEAN :
          Handle(If(prefs, "prefs") \o If(state, "netStates") \o If(url, "browseURLs")
                 \o If(netMap, "netStates") \o <<"targetsLoaded">>, handled + 1)
    BY <1>1 DEF LoopNotification
  <2>2. /\ If(prefs, "prefs") \in Seq(Box) /\ If(state, "netStates") \in Seq(Box)
        /\ If(url, "browseURLs") \in Seq(Box) /\ If(netMap, "netStates") \in Seq(Box)
        /\ <<"targetsLoaded">> \in Seq(Box)
    BY IfType, BoxNames
  <2>3. If(prefs, "prefs") \o If(state, "netStates") \o If(url, "browseURLs")
          \o If(netMap, "netStates") \o <<"targetsLoaded">> \in Seq(Box)
    BY <2>2
  <2>4. /\ handled + 1 \in Nat /\ box' \in [Box -> Nat]
        /\ \A b \in LoopOnly : box'[b] = box[b]
    BY <1>1, BoxNames DEF BoxInv, TypeOK, LoopNotification
  <2> QED
    BY <1>1, <2>1, <2>3, <2>4, HandledInv DEF LoopNotification
<1>2. CASE LoopNetworkChanged
  <2>1. /\ handled + 1 \in Nat /\ box' \in [Box -> Nat] /\ box' = box
        /\ <<"netStates">> \in Seq(Box)
    BY <1>2, BoxNames DEF BoxInv, TypeOK, LoopNetworkChanged
  <2> QED
    BY <1>2, <2>1, HandledInv DEF LoopNetworkChanged
<1>3. ASSUME NEW r \in Request, LoopRequest(r) PROVE BoxInv'
  <2>1. r[1] \in {"report", "exitNode", "login"} /\ r[2] \in Nat
    <3>1. CASE r \in (Events \ {"licenses"}) \X {0}
      <4>1. PICK e \in Events \ {"licenses"} : r = <<e, 0>>
        BY <3>1
      <4> QED
        BY <4>1, EventsAssumption DEF Kind
    <3>2. CASE r \in {"report"} \X (1..MaxReports)
      <4>1. PICK n \in 1..MaxReports : r = <<"report", n>>
        BY <3>2
      <4> QED
        BY <4>1, BoundAssumption
    <3> QED
      BY <3>1, <3>2 DEF Request
  <2>2. PICK b \in Box, v \in Nat :
          Handle(<<b>>, v) /\ (b \in LoopOnly => v = handled + 1)
    <3>1. handled + 1 \in Nat /\ {"bugReport", "netStates", "notifications"} \subseteq Box
      BY BoxNames DEF BoxInv, TypeOK
    <3> QED
      BY <1>3, <2>1, <3>1, BoxNames DEF LoopRequest, Answer
  <2>3. /\ <<b>> \in Seq(Box) /\ box' \in [Box -> Nat] /\ box' = box
        /\ \A i \in 1..Len(<<b>>) : <<b>>[i] \in LoopOnly => v = handled + 1
    BY <1>3, <2>2 DEF LoopRequest, BoxInv, TypeOK
  <2> QED
    BY <1>3, <2>2, <2>3, HandledInv DEF LoopRequest
<1> QED
  BY <1>1, <1>2, <1>3

\* The main loop empties a channel or sends to it.
LEMMA LoopStep == ASSUME BoxInv, Loop PROVE BoxInv'
<1>1. CASE LoopDrain
  <2>1. Head(todo) \in Box /\ box' = [box EXCEPT ![Head(todo)] = 0]
    BY <1>1, BoxNames DEF LoopDrain, Drain
  <2>2. LatestKept'
    BY <1>1, <2>1, BoxNames DEF BoxInv, TypeOK, LatestKept, LoopDrain
  <2> QED
    BY <1>1, <2>1, <2>2 DEF BoxInv, TypeOK, NeverBlocks, Numbered, LoopDrain
<1>2. CASE LoopPut
  <2>1. todo' \in Seq(Box) /\ drained' = 0
    BY <1>2 DEF LoopPut, NextBox, BoxInv, TypeOK
  <2>2. Head(todo) \in Box
    BY <1>2 DEF LoopPut, BoxInv, TypeOK
  <2>3. /\ box' = [box EXCEPT ![Head(todo)] = value] /\ box[Head(todo)] = 0
        /\ sent' = [sent EXCEPT ![Head(todo)] = value]
        /\ box' \in [Box -> Nat] /\ sent' \in [Box -> Nat]
    BY <1>2, <2>2 DEF LoopPut, Put, BoxInv, TypeOK
  <2>4. LatestKept'
    <3>1. SUFFICES ASSUME NEW b \in LoopOnly
                   PROVE  /\ box'[b] \in {0, sent'[b]}
                          /\ sent'[b] \in {seen'[b], box'[b]}
      BY DEF LatestKept
    <3>2. b \in Box /\ seen' = seen
      BY <1>2, BoxNames DEF LoopPut
    <3>3. CASE b = Head(todo)
      BY <2>3, <3>2, <3>3 DEF BoxInv, TypeOK
    <3>4. CASE b # Head(todo)
      BY <2>2, <2>3, <3>2, <3>4 DEF BoxInv, TypeOK, LatestKept
    <3> QED
      BY <3>3, <3>4
  <2>5. Numbered'
    <3>1. todo # <<>> /\ todo' = Tail(todo) /\ UNCHANGED <<value, handled>>
      BY <1>2 DEF LoopPut, NextBox
    <3>2. \A i \in 1..Len(todo') : i + 1 \in 1..Len(todo) /\ todo'[i] = todo[i + 1]
      BY <3>1 DEF BoxInv, TypeOK
    <3>3. Head(todo) \in LoopOnly => value = handled
      BY <3>1 DEF BoxInv, TypeOK, Numbered
    <3>4. \A b \in LoopOnly : sent'[b] <= handled'
      <4>1. SUFFICES ASSUME NEW b \in LoopOnly PROVE sent'[b] <= handled'
        OBVIOUS
      <4>2. b \in Box /\ sent[b] <= handled
        BY BoxNames DEF BoxInv, Numbered
      <4>3. handled \in Nat /\ sent \in [Box -> Nat]
        BY BoundAssumption DEF BoxInv, TypeOK
      <4>4. CASE b = Head(todo)
        BY <2>3, <3>1, <3>3, <4>2, <4>3, <4>4
      <4>5. CASE b # Head(todo)
        BY <2>2, <2>3, <3>1, <4>2, <4>3, <4>5
      <4> QED
        BY <4>4, <4>5
    <3> QED
      BY <3>1, <3>2, <3>4 DEF BoxInv, Numbered
  <2>6. TypeOK'
    <3>1. /\ todo' = Tail(todo) /\ todo # <<>> /\ drained' = 0
          /\ UNCHANGED <<value, handled, requests, uiVars>>
      BY <1>2 DEF LoopPut, NextBox
    <3> QED
      BY <2>1, <2>3, <3>1 DEF BoxInv, TypeOK, uiVars
  <2>7. NeverBlocks'
    BY <2>1 DEF NeverBlocks
  <2> QED
    BY <2>4, <2>5, <2>6, <2>7 DEF BoxInv
<1> QED
  BY <1>1, <1>2 DEF Loop

\* LocalBackend or the UI takes a step: it writes to no channel that the main loop
\* has emptied, but for browseURLs.
LEMMA OtherTypes ==
  ASSUME BoxInv,
         \/ Notify \/ UILicenses \/ UIPutURL \/ UIReport \/ UIReceive \/ UITimeout
         \/ \E b \in Box : UITake(b)
         \/ \E e \in Kind : UIRequest(e)
  PROVE  TypeOK' /\ NeverBlocks'
<1> USE BoundAssumption, BoxNames DEF BoxInv, TypeOK, NeverBlocks
<1>1. CASE Notify
  BY <1>1 DEF Notify
<1>2. CASE UILicenses \/ UIPutURL
  <2>1. PICK n \in Nat : box' = [box EXCEPT !["browseURLs"] = n]
    BY <1>2 DEF UILicenses, UIPutURL
  <2>2. /\ UNCHANGED <<requests, loopVars, seen, asked>>
        /\ ui' \in {"select", "url", "report"}
    BY <1>2 DEF UILicenses, UIPutURL
  <2> QED
    BY <2>1, <2>2
<1>3. CASE UIReport
  <2>1. asked' \in 0..MaxReports
    BY <1>3 DEF UIReport
  <2>2. requests' \subseteq Request
    BY <1>3, <2>1 DEF UIReport, Request
  <2> QED
    <3>1. /\ box' = [box EXCEPT !["bugReport"] = 0] /\ ui' = "report"
          /\ UNCHANGED <<loopVars, seen>>
      BY <1>3 DEF UIReport
    <3>2. TypeOK'
      BY <2>1, <2>2, <3>1
    <3>3. NeverBlocks'
      BY <3>1
    <3> QED
      BY <3>2, <3>3
<1>4. CASE UIReceive \/ UITimeout
  <2>1. /\ box' = box \/ box' = [box EXCEPT !["bugReport"] = 0]
        /\ ui' = "select" /\ UNCHANGED <<requests, loopVars, asked>>
    BY <1>4 DEF UIReceive, UITimeout
  <2>2. seen' \in [Box -> Nat]
    BY <1>4 DEF UIReceive, UITimeout
  <2>3. TypeOK'
    <3>1. [box EXCEPT !["bugReport"] = 0] \in [Box -> Nat]
      OBVIOUS
    <3>2. box' \in [Box -> Nat]
      BY <2>1, <3>1
    <3> QED
      BY <2>1, <2>2, <3>2
  <2>4. NeverBlocks'
    BY <2>1
  <2> QED
    BY <2>3, <2>4
<1>5. ASSUME NEW b \in Box, UITake(b) PROVE TypeOK' /\ NeverBlocks'
  BY <1>5 DEF UITake
<1>6. ASSUME NEW e \in Kind, UIRequest(e) PROVE TypeOK' /\ NeverBlocks'
  <2>1. requests' \subseteq Request
    BY <1>6 DEF UIRequest, Request
  <2> QED
    BY <1>6, <2>1 DEF UIRequest
<1> QED
  BY <1>1, <1>2, <1>3, <1>4, <1>5, <1>6

\* What they do to the mailboxes that only the main loop sends to: the UI takes from
\* one of them.
LEMMA OtherStep ==
  ASSUME BoxInv,
         \/ Notify \/ UILicenses \/ UIPutURL \/ UIReport \/ UIReceive \/ UITimeout
         \/ \E b \in Box : UITake(b)
         \/ \E e \in Kind : UIRequest(e)
  PROVE  BoxInv'
<1>1. UNCHANGED loopVars
  BY DEF Notify, UILicenses, UIPutURL, UIReport, UIReceive, UITimeout, UITake, UIRequest
<1>2. \A b \in LoopOnly :
        \/ box'[b] = box[b] /\ seen'[b] = seen[b]
        \/ box'[b] = 0 /\ seen'[b] = box[b] /\ box[b] # 0
  <2> SUFFICES ASSUME NEW b \in LoopOnly
               PROVE  \/ box'[b] = box[b] /\ seen'[b] = seen[b]
                      \/ box'[b] = 0 /\ seen'[b] = box[b] /\ box[b] # 0
    OBVIOUS
  <2>1. /\ box \in [Box -> Nat] /\ seen \in [Box -> Nat]
        /\ b \in Box /\ b \notin {"notifications", "browseURLs", "bugReport"}
    BY BoxNames DEF BoxInv, TypeOK
  <2>2. ASSUME NEW c \in Box, UITake(c)
        PROVE  \/ box'[b] = box[b] /\ seen'[b] = seen[b]
               \/ box'[b] = 0 /\ seen'[b] = box[b] /\ box[b] # 0
    BY <2>1, <2>2 DEF UITake
  <2>3. ASSUME \/ Notify \/ UILicenses \/ UIPutURL \/ UIReport \/ UIReceive \/ UITimeout
               \/ \E e \in Kind : UIRequest(e)
        PROVE  box'[b] = box[b] /\ seen'[b] = seen[b]
    BY <2>1, <2>3 DEF Notify, UILicenses, UIPutURL, UIReport, UIReceive, UITimeout, UIRequest
  <2> QED
    BY <2>2, <2>3
<1>3. LatestKept'
  <2>1. SUFFICES ASSUME NEW b \in LoopOnly
                 PROVE  /\ box'[b] \in {0, sent'[b]}
                        /\ \/ sent'[b] \in {seen'[b], box'[b]}
                           \/ drained' = 1 /\ Head(todo') = b
    BY DEF LatestKept
  <2>2. /\ box[b] \in {0, sent[b]}
        /\ sent[b] \in {seen[b], box[b]} \/ (drained = 1 /\ Head(todo) = b)
    BY DEF BoxInv, LatestKept
  <2> QED
    BY <1>1, <1>2, <2>2
<1>4. Numbered'
  BY <1>1 DEF BoxInv, Numbered
<1> QED
  BY <1>3, <1>4, OtherTypes DEF BoxInv

\* The invariant holds throughout.
THEOREM BoxInvariance == Spec => []BoxInv
<1>1. BoxInv /\ [Next]_vars => BoxInv'
  <2> SUFFICES ASSUME BoxInv, [Next]_vars PROVE BoxInv'
    OBVIOUS
  <2>1. CASE UNCHANGED vars
    BY <2>1 DEF vars, BoxInv, TypeOK, NeverBlocks, LatestKept, Numbered
  <2> QED
    BY <2>1, EventStep, LoopStep, OtherStep DEF Next
<1> QED
  BY <1>1, BoxInit, PTL DEF Spec

\* The channels, the list of what is left to send and the requests keep their types.
THEOREM TypeCorrect == Spec => []TypeOK
BY BoxInvariance, PTL DEF BoxInv

\* The sends of notify and setPrefs never block the main loop, whatever the UI and
\* LocalBackend do between the select that empties the mailbox and the send, and what
\* was sent last is not lost.
THEOREM OverwritingWorks == Spec => []Overwriting
BY BoxInvariance, PTL DEF BoxInv, Overwriting

\* The mailboxes implement the abstract register: the send is the moment at which a
\* value becomes the latest, and the UI, whenever it takes one, takes the latest.
THEOREM MailboxesAreRegisters == Spec => ShowsInOrder
<1> DEFINE lastSent == [b \in LoopOnly |-> sent[b]]
           lastSeen == [b \in LoopOnly |-> seen[b]]
<1>1. Init => Register!Init
  BY BoxNames DEF Init, Register!Init
<1>2. ASSUME BoxInv, [Next]_vars PROVE [Register!Next]_<<lastSent, lastSeen>>
  <2>1. ASSUME LoopPut PROVE [Register!Next]_<<lastSent, lastSeen>>
    <3> DEFINE h == Head(todo)
    <3>1. /\ h \in Box /\ sent' = [sent EXCEPT ![h] = value]
          /\ UNCHANGED <<seen, handled>> /\ todo # <<>>
      BY <1>2, <2>1 DEF LoopPut, BoxInv, TypeOK
    <3>2. /\ sent \in [Box -> Nat] /\ handled \in Nat
          /\ h \in LoopOnly => value = handled /\ sent[h] <= handled
      BY <1>2, <3>1, BoundAssumption DEF BoxInv, TypeOK, Numbered
    <3> HIDE DEF h
    <3>3. CASE h \in LoopOnly
      <4>1. sent'[h] = value /\ lastSent' = [lastSent EXCEPT ![h] = lastSent'[h]]
        BY <3>1, <3>2, <3>3, BoxNames
      <4>2. lastSent'[h] = value /\ lastSent[h] = sent[h]
        BY <3>3, <4>1
      <4> QED
        BY <3>1, <3>2, <3>3, <4>1, <4>2 DEF Register!Next, Register!Send
    <3>4. CASE h \notin LoopOnly
      BY <3>1, <3>2, <3>4, BoxNames
    <3> QED
      BY <3>3, <3>4
  <2>2. ASSUME NEW b \in Box, UITake(b) PROVE [Register!Next]_<<lastSent, lastSeen>>
    <3>1. seen' = [seen EXCEPT ![b] = box[b]] /\ sent' = sent /\ box[b] # 0
      BY <2>2 DEF UITake
    <3>2. CASE b \in LoopOnly
      <4>1. box[b] = sent[b]
        BY <1>2, <3>1, <3>2 DEF BoxInv, LatestKept
      <4>2. lastSeen' = [lastSeen EXCEPT ![b] = lastSent[b]]
        BY <1>2, <3>1, <3>2, <4>1, BoxNames DEF BoxInv, TypeOK
      <4> QED
        BY <3>1, <3>2, <4>2 DEF Register!Next, Register!Take
    <3>3. CASE b \notin LoopOnly
      BY <1>2, <3>1, <3>3, BoxNames DEF BoxInv, TypeOK
    <3> QED
      BY <3>2, <3>3
  <2>3. ASSUME UIReceive PROVE UNCHANGED <<lastSent, lastSeen>>
    BY <1>2, <2>3, BoxNames DEF UIReceive, BoxInv, TypeOK
  <2>4. ASSUME UNCHANGED <<sent, seen>> PROVE UNCHANGED <<lastSent, lastSeen>>
    BY <2>4
  <2>5. \/ LoopPut \/ UIReceive \/ (\E b \in Box : UITake(b))
        \/ UNCHANGED <<sent, seen>>
    BY <1>2 DEF Next, vars, Loop, Notify, LoopNotification, LoopNetworkChanged, LoopDrain,
                LoopRequest, UIRequest, UILicenses, UIPutURL, UIReport, UITimeout
  <2> QED
    BY <2>1, <2>2, <2>3, <2>4, <2>5
<1> QED
  BY <1>1, <1>2, BoxInvariance, PTL DEF Spec, ShowsInOrder, Register!Spec

-----------------------------------------------------------------------------
(* KeyExpiry                                                               *)

\* When the timer rings that was armed at the date t
DueAt(t) ==
  due = IF NextAlarm(expiry - t) = 0 THEN 0 ELSE mono + NextAlarm(expiry - t)

\* The timer and the message were set for one date, which lies behind the present
\* by no more than the device was suspended.
Armed ==
  connected /\ expiry # 0 /\ ~ring /\ ~Rung =>
    \E t \in mono..now : said = Stage(expiry - t) /\ DueAt(t)

AlarmInv == ExpiryTypeOK /\ Armed

-----------------------------------------------------------------------------
\* The next alarm of a time that is left.
LEMMA NextAlarmNat ==
  ASSUME Thresholds, NEW d \in Int
  PROVE  NextAlarm(d) \in Nat /\ (NextAlarm(d) = 0 <=> d <= 0)
BY DEF Thresholds, NextAlarm

\* The message, case by case.
LEMMA StageIs ==
  ASSUME Thresholds, NEW d \in Int
  PROVE  /\ d <= 0 => Stage(d) = "expired"
         /\ 0 < d /\ d <= Soon => Stage(d) = "soon"
         /\ Soon < d /\ d <= Day => Stage(d) = "in a day"
         /\ Day < d => Stage(d) = "none"
<1>1. d <= 0 => Stage(d) = "expired"
  BY DEF Stage, Thresholds
<1>2. 0 < d /\ d <= Soon => Stage(d) = "soon"
  BY DEF Stage, Thresholds
<1>3. Soon < d /\ d <= Day => Stage(d) = "in a day"
  BY DEF Stage, Thresholds
<1>4. ASSUME Day < d PROVE Stage(d) = "none"
  <2>1. ~(d <= 0) /\ ~(0 < d /\ d <= Soon) /\ ~(Soon < d /\ d <= Day)
    BY <1>4 DEF Thresholds
  <2> QED
    BY <2>1 DEF Stage
<1> QED
  BY <1>1, <1>2, <1>3, <1>4

\* Until the alarm rings the message stays right, and the alarm comes nearer.
LEMMA StageStays ==
  ASSUME Thresholds, NEW d \in Int, NextAlarm(d) # 1
  PROVE  /\ Stage(d - 1) = Stage(d)
         /\ NextAlarm(d - 1) = IF NextAlarm(d) = 0 THEN 0 ELSE NextAlarm(d) - 1
<1>1. d - 1 \in Int
  OBVIOUS
<1>2. NextAlarm(d - 1) = IF NextAlarm(d) = 0 THEN 0 ELSE NextAlarm(d) - 1
  BY DEF NextAlarm, Thresholds
<1>3. \/ d <= 0 /\ d - 1 <= 0
      \/ 0 < d /\ d <= Soon /\ 0 < d - 1 /\ d - 1 <= Soon
      \/ Soon < d /\ d <= Day /\ Soon < d - 1 /\ d - 1 <= Day
      \/ Day < d /\ Day < d - 1
  BY DEF NextAlarm, Thresholds
<1>4. /\ d <= 0 => Stage(d) = "expired"
      /\ 0 < d /\ d <= Soon => Stage(d) = "soon"
      /\ Soon < d /\ d <= Day => Stage(d) = "in a day"
      /\ Day < d => Stage(d) = "none"
  BY StageIs
<1>5. /\ d - 1 <= 0 => Stage(d - 1) = "expired"
      /\ 0 < d - 1 /\ d - 1 <= Soon => Stage(d - 1) = "soon"
      /\ Soon < d - 1 /\ d - 1 <= Day => Stage(d - 1) = "in a day"
      /\ Day < d - 1 => Stage(d - 1) = "none"
  BY <1>1, StageIs
<1>6. Stage(d - 1) = Stage(d)
  <2>1. CASE d <= 0 /\ d - 1 <= 0
    <3>1. Stage(d) = "expired"
      BY <1>4, <2>1 DEF Thresholds
    <3>2. Stage(d - 1) = "expired"
      BY <1>5, <2>1 DEF Thresholds
    <3> QED
      BY <3>1, <3>2
  <2>2. CASE 0 < d /\ d <= Soon /\ 0 < d - 1 /\ d - 1 <= Soon
    <3>1. Stage(d) = "soon"
      BY <1>4, <2>2 DEF Thresholds
    <3>2. Stage(d - 1) = "soon"
      BY <1>5, <2>2 DEF Thresholds
    <3> QED
      BY <3>1, <3>2
  <2>3. CASE Soon < d /\ d <= Day /\ Soon < d - 1 /\ d - 1 <= Day
    <3>1. Stage(d) = "in a day"
      BY <1>4, <2>3 DEF Thresholds
    <3>2. Stage(d - 1) = "in a day"
      BY <1>5, <2>3 DEF Thresholds
    <3> QED
      BY <3>1, <3>2
  <2>4. CASE Day < d /\ Day < d - 1
    <3>1. Stage(d) = "none"
      BY <1>4, <2>4 DEF Thresholds
    <3>2. Stage(d - 1) = "none"
      BY <1>5, <2>4 DEF Thresholds
    <3> QED
      BY <3>1, <3>2
  <2> QED
    BY <1>3, <2>1, <2>2, <2>3, <2>4
<1> QED
  BY <1>2, <1>6

\* A message is one of the four.
LEMMA StageType == ASSUME NEW d \in Int PROVE Stage(d) \in Stages
<1>1. CASE d <= 0
  BY <1>1 DEF Stage, Stages
<1>2. CASE d > 0 /\ d <= Soon
  BY <1>2 DEF Stage, Stages
<1>3. CASE d > 0 /\ ~(d <= Soon) /\ Soon < d /\ d <= Day
  BY <1>3 DEF Stage, Stages
<1>4. CASE d > 0 /\ ~(d <= Soon) /\ ~(Soon < d /\ d <= Day)
  BY <1>4 DEF Stage, Stages
<1> QED
  BY <1>1, <1>2, <1>3, <1>4

\* Alarm sets message and timer for the present.
LEMMA AlarmArms ==
  ASSUME Thresholds, ExpiryTypeOK, NEW e \in Nat, NEW left \in BOOLEAN, Alarm(e, left),
         expiry' = e, mono' = mono, now' = now
  PROVE  due' \in Nat /\ ring' \in BOOLEAN /\ said' \in Stages /\ accepted' \in BOOLEAN /\ Armed'
<1> DEFINE wait == IF e = 0 THEN 0 ELSE NextAlarm(e - now)
<1>1. e - now \in Int /\ now \in mono..now
  BY DEF ExpiryTypeOK
<1>2. wait \in Nat /\ NextAlarm(e - now) \in Nat
  BY <1>1, NextAlarmNat
<1>3. due' = IF wait = 0 THEN 0 ELSE mono + wait
  BY DEF Alarm
<1>4. ring' = (wait = 0 /\ left) /\ said' = IF e = 0 THEN said ELSE Stage(e - now)
  BY DEF Alarm
<1>5. due' \in Nat /\ ring' \in BOOLEAN /\ said' \in Stages
  BY <1>1, <1>2, <1>3, <1>4, StageType DEF ExpiryTypeOK
<1>7. accepted' \in BOOLEAN
  <2>1. accepted \in BOOLEAN
    BY DEF ExpiryTypeOK
  <2> QED
    BY <2>1, Zenon DEF Alarm
<1>6. ASSUME e # 0 PROVE Armed'
  <2>1. said' = Stage(e - now) /\ due' = IF NextAlarm(e - now) = 0 THEN 0
                                         ELSE mono + NextAlarm(e - now)
    BY <1>3, <1>4, <1>6
  <2>2. now \in (mono..now)' /\ said' = Stage(expiry - now)'
    BY <2>1, <1>1
  <2> QED
    BY <2>1, <1>1 DEF Armed, DueAt
<1> QED
  BY <1>5, <1>6, <1>7 DEF Armed

-----------------------------------------------------------------------------
LEMMA AlarmInit == ExpiryInit => AlarmInv
<1>1. ASSUME ExpiryInit PROVE ExpiryTypeOK
  <2>1. now = 1 /\ mono = 1 /\ expiry = 0 /\ due = 0
    BY <1>1 DEF ExpiryInit
  <2>2. connected \in BOOLEAN /\ ring \in BOOLEAN /\ said \in Stages /\ accepted \in BOOLEAN
    BY <1>1, Zenon DEF ExpiryInit, Stages
  <2> QED
    BY <2>1, <2>2 DEF ExpiryTypeOK
<1>2. ExpiryInit => Armed
  BY DEF ExpiryInit, Armed
<1> QED
  BY <1>1, <1>2 DEF AlarmInv

LEMMA AlarmNext ==
  ASSUME Thresholds, AlarmInv, [ExpiryNext]_expiryVars
  PROVE  AlarmInv'
<1> USE DEF AlarmInv
<1>1. ASSUME NEW e \in 0..MaxTime, NetMap(e) PROVE AlarmInv'
  <2>1. e \in Nat /\ expiry' = e /\ mono' = mono /\ now' = now /\ connected' = connected
    BY <1>1 DEF NetMap
  <2>2. CASE connected
    <3>1. Alarm(e, ring)
      BY <1>1, <2>2 DEF NetMap
    <3> QED
      BY <2>1, <3>1, AlarmArms DEF ExpiryTypeOK
  <2>3. CASE ~connected
    BY <1>1, <2>1, <2>3 DEF NetMap, ExpiryTypeOK, Armed
  <2> QED
    BY <2>2, <2>3
<1>2. CASE VPNRequested
  <2>1. Alarm(expiry, ring) /\ connected' = TRUE /\ UNCHANGED <<now, mono, expiry>>
    BY <1>2 DEF VPNRequested
  <2> QED
    BY <2>1, AlarmArms DEF ExpiryTypeOK
<1>3. CASE Disconnected
  BY <1>3 DEF Disconnected, ExpiryTypeOK, Armed, Rung
<1>4. CASE Rings
  <2>1. UNCHANGED <<now, mono, expiry, connected>>
    BY <1>4 DEF Rings
  <2>2. CASE connected /\ expiry # 0
    <3>1. Alarm(expiry, FALSE)
      BY <1>4, <2>2 DEF Rings
    <3> QED
      BY <2>1, <3>1, AlarmArms DEF ExpiryTypeOK
  <2>3. CASE ~(connected /\ expiry # 0)
    <3>1. ring' = FALSE /\ UNCHANGED <<said, accepted, due>>
      BY <1>4, <2>3 DEF Rings
    <3>2. ExpiryTypeOK'
      BY <2>1, <3>1 DEF ExpiryTypeOK
    <3>3. Armed'
      BY <2>1, <2>3 DEF Armed
    <3> QED
      BY <3>2, <3>3
  <2> QED
    BY <2>2, <2>3
<1>5. CASE Fire
  BY <1>5 DEF Fire, ExpiryTypeOK, Armed
<1>6. CASE Tick
  <2>1. ExpiryTypeOK'
    BY <1>6 DEF Tick, ExpiryTypeOK
  <2>2. ASSUME connected, expiry # 0, ~ring, ~Rung'
        PROVE  \E t \in (mono + 1)..(now + 1) : said = Stage(expiry - t) /\ DueAt(t)'
    <3>1. PICK t \in mono..now : said = Stage(expiry - t) /\ DueAt(t)
      BY <1>6, <2>2 DEF Tick, Armed
    <3> DEFINE d == expiry - t
    <3>2. d \in Int /\ t \in Int /\ expiry - (t + 1) = d - 1
      BY <3>1 DEF ExpiryTypeOK
    <3>3. NextAlarm(d) \in Nat /\ NextAlarm(d) # 1
      BY <3>1, <3>2, <1>6, <2>2, NextAlarmNat DEF DueAt, Rung, Tick, ExpiryTypeOK
    <3>4. /\ Stage(d - 1) = Stage(d)
          /\ NextAlarm(d - 1) = IF NextAlarm(d) = 0 THEN 0 ELSE NextAlarm(d) - 1
      BY <3>2, <3>3, StageStays
    <3>5. said = Stage(expiry - (t + 1))
      BY <3>1, <3>2, <3>4
    <3>6. due = IF NextAlarm(expiry - (t + 1)) = 0 THEN 0
                ELSE (mono + 1) + NextAlarm(expiry - (t + 1))
      <4>1. due = IF NextAlarm(d) = 0 THEN 0 ELSE mono + NextAlarm(d)
        BY <3>1 DEF DueAt
      <4>2. mono \in Nat
        BY DEF ExpiryTypeOK
      <4>3. NextAlarm(d) # 0 => NextAlarm(d - 1) # 0
        BY <3>3, <3>4
      <4> HIDE DEF d
      <4> QED
        BY <4>1, <4>2, <4>3, <3>2, <3>3, <3>4
    <3>7. DueAt(t + 1)'
      BY <3>6, <1>6 DEF DueAt, Tick
    <3>8. t + 1 \in (mono + 1)..(now + 1)
      BY <3>1 DEF ExpiryTypeOK
    <3> QED
      BY <3>5, <3>7, <3>8
  <2>3. Armed'
    BY <2>2, <1>6 DEF Armed, Tick
  <2> QED
    BY <2>1, <2>3
<1>7. CASE Sleep
  BY <1>7 DEF Sleep, ExpiryTypeOK, Armed, DueAt, Rung
<1>8. CASE UNCHANGED expiryVars
  BY <1>8 DEF expiryVars, ExpiryTypeOK, Armed, DueAt, Rung
<1> QED
  BY <1>1, <1>2, <1>3, <1>4, <1>5, <1>6, <1>7, <1>8 DEF ExpiryNext

\* A message that is right comes with the alarm for the next one.
LEMMA ArmedOnTime == ASSUME Thresholds, AlarmInv PROVE OnTime
<1> SUFFICES ASSUME connected, expiry # 0, ~ring, ~Rung
             PROVE  \E t \in mono..now : Told(Stage(expiry - t)) \/ Refused(Stage(expiry - t))
  BY DEF OnTime
<1>1. PICK t \in mono..now : said = Stage(expiry - t) /\ DueAt(t)
  BY DEF AlarmInv, Armed
<1> DEFINE d == expiry - t
<1>2. d \in Int
  BY <1>1 DEF AlarmInv, ExpiryTypeOK
<1>3. CASE d <= 0
  <2>1. Stage(d) = "expired"
    BY <1>2, <1>3, StageIs
  <2> QED
    BY <1>1, <2>1 DEF Told, Refused
<1>4. CASE d > 0
  <2>1. NextAlarm(d) \in Nat /\ NextAlarm(d) # 0
    BY <1>2, <1>4, NextAlarmNat
  <2>2. due # 0
    BY <1>1, <2>1 DEF DueAt, AlarmInv, ExpiryTypeOK
  <2> QED
    BY <1>1, <2>2 DEF Told, Refused
<1> QED
  BY <1>2, <1>3, <1>4

-----------------------------------------------------------------------------
\* The variables of the alarm have their types.
THEOREM KeyExpiryTyped == ExpirySpec => []ExpiryTypeOK
<1>1. AlarmInv /\ [ExpiryNext]_expiryVars => AlarmInv'
  BY ThresholdsAssumption, AlarmNext
<1>2. ExpiryInit => AlarmInv
  BY ThresholdsAssumption, AlarmInit
<1>3. AlarmInv => ExpiryTypeOK
  BY DEF AlarmInv
<1> QED
  BY <1>1, <1>2, <1>3, PTL DEF ExpirySpec

\* While the VPN is connected (onVPNRequested, onDisconnect) the last message of
\* notifyExpiry is the right one, late by no more than the time of suspension, and
\* Android has shown it, or has refused it (pushNotify) and the next one is armed.
THEOREM WarnedOnTime == ExpirySpec => []OnTime
<1>1. AlarmInv /\ [ExpiryNext]_expiryVars => AlarmInv'
  BY ThresholdsAssumption, AlarmNext
<1>2. ExpiryInit => AlarmInv
  BY ThresholdsAssumption, AlarmInit
<1>3. AlarmInv => OnTime
  BY ThresholdsAssumption, ArmedOnTime
<1> QED
  BY <1>1, <1>2, <1>3, PTL DEF ExpirySpec

-----------------------------------------------------------------------------
(* VPNStart                                                                *)

\* What the mailbox of states holds is the latest, and without it the UI's is.
LatestState ==
  /\ netStates = {} => uiUp = up
  /\ netStates # {} => netStates = {up}

\* The steps of the main loop, the UI and Android keep all three: without the
\* second a service may go while state and UI disagree, and nobody is told.
StartInv == StartTypeOK /\ LatestState /\ NotForgotten

\* The types of VPNStart by whose variables they are, so that a step has to say
\* something of those it changes only.
LoopTypes ==
  /\ up \in BOOLEAN /\ service \in BOOLEAN /\ disconnects \in Nat
  /\ want \in BOOLEAN /\ setters \in Nat /\ stopping \in BOOLEAN
UITypes ==
  /\ netStates \in {{}, {TRUE}, {FALSE}} /\ uiUp \in BOOLEAN /\ ended \in BOOLEAN
  /\ prepared \in BOOLEAN /\ closed \in BOOLEAN
  /\ lost \in BOOLEAN /\ changes \in 0..MaxChanges
AndroidTypes ==
  /\ created \in 0..MaxActivities /\ activity \in 0..created
  /\ posted \in Seq(1..created) /\ dialogs \subseteq 1..created
  /\ consent \in BOOLEAN /\ intents \in Seq({"request", "stop"})

LEMMA StartParts == StartInv => LoopTypes /\ UITypes /\ AndroidTypes /\ LatestState
BY DEF StartInv, StartTypeOK, LoopTypes, UITypes, AndroidTypes

LEMMA StartWhole == LoopTypes' /\ UITypes' /\ AndroidTypes' => StartTypeOK'
BY Zenon DEF StartTypeOK, LoopTypes, UITypes, AndroidTypes

-----------------------------------------------------------------------------
\* Sequences over a set are sequences over a larger one.
LEMMA SeqWiden == ASSUME NEW S, NEW T, S \subseteq T, NEW s \in Seq(S) PROVE s \in Seq(T)
OBVIOUS

\* Append keeps what is in a sequence, and adds an element.
LEMMA AppendKeeps ==
  ASSUME NEW S, NEW s \in Seq(S), NEW x \in S, NEW y,
         x = y \/ \E i \in DOMAIN s : s[i] = y
  PROVE  \E i \in DOMAIN Append(s, x) : Append(s, x)[i] = y
<1>1. CASE x = y
  <2>1. Append(s, x)[Len(s) + 1] = y /\ Len(s) + 1 \in DOMAIN Append(s, x)
    BY <1>1
  <2> QED
    BY <2>1
<1>2. ASSUME NEW i \in DOMAIN s, s[i] = y PROVE \E j \in DOMAIN Append(s, x) : Append(s, x)[j] = y
  <2>1. Append(s, x)[i] = y /\ i \in DOMAIN Append(s, x)
    BY <1>2
  <2> QED
    BY <2>1
<1> QED
  BY <1>1, <1>2

\* Tail drops nothing but the head.
LEMMA TailKeeps ==
  ASSUME NEW S, NEW s \in Seq(S), s # <<>>, NEW i \in DOMAIN s, Head(s) # s[i]
  PROVE  \E j \in DOMAIN Tail(s) : Tail(s)[j] = s[i]
<1>1. i # 1 /\ i \in 1..Len(s)
  OBVIOUS
<1>2. i - 1 \in DOMAIN Tail(s) /\ Tail(s)[i - 1] = s[i]
  BY <1>1
<1> QED
  BY <1>2

-----------------------------------------------------------------------------
\* The initial state satisfies the invariant.
LEMMA StartInitInv == StartInit => StartInv
<1> SUFFICES ASSUME StartInit PROVE StartInv
  OBVIOUS
<1>1. StartTypeOK
  <2>1. /\ created = 0 /\ activity = 0 /\ disconnects = 0 /\ changes = 0 /\ setters = 0
        /\ posted = <<>> /\ dialogs = {} /\ intents = <<>>
    BY DEF StartInit
  <2>2. /\ disconnects \in Nat /\ created \in 0..MaxActivities /\ activity \in 0..created
        /\ changes \in 0..MaxChanges /\ setters \in Nat
    BY <2>1, StartBounds
  <2>3. posted \in Seq(1..created) /\ intents \in Seq({"request", "stop"}) /\ dialogs \subseteq 1..created
    BY <2>1
  <2>4. /\ up \in BOOLEAN /\ service \in BOOLEAN /\ netStates \in {{}, {TRUE}, {FALSE}}
        /\ uiUp \in BOOLEAN /\ consent \in BOOLEAN /\ prepared \in BOOLEAN
        /\ closed \in BOOLEAN /\ lost \in BOOLEAN /\ want \in BOOLEAN
        /\ stopping \in BOOLEAN /\ ended \in BOOLEAN
    BY Zenon DEF StartInit
  <2> QED
    BY <2>2, <2>3, <2>4, Zenon DEF StartTypeOK
<1>2. LatestState /\ NotForgotten
  BY DEF StartInit, LatestState, NotForgotten, Connecting
<1> QED
  BY <1>1, <1>2 DEF StartInv

USE DEF stateVars, prefsVars, viewVars, androidVars, boxes

\* A new state, up or down.  Up for a UI that is up is a state that it has lost,
\* or the mailbox would hold, and the loop have, another one.
LEMMA GoesInv ==
  ASSUME StartInv, NEW b \in BOOLEAN, b # up, Goes(b), disconnects' \in Nat,
         changes' \in 0..MaxChanges, want' \in BOOLEAN, setters' \in Nat,
         stopping' \in BOOLEAN
  PROVE  StartInv'
<1>1. StartTypeOK'
  <2>1. intents' \in Seq({"request", "stop"})
    <3>1. intents \in Seq({"request", "stop"}) /\ "stop" \in {"request", "stop"}
      BY DEF StartInv, StartTypeOK
    <3>2. Append(intents, "stop") \in Seq({"request", "stop"})
      BY <3>1
    <3>3. intents' = intents \/ intents' = Append(intents, "stop")
      BY DEF Goes
    <3> QED
      BY <3>1, <3>2, <3>3
  <2>2. up' \in BOOLEAN /\ netStates' \in {{}, {TRUE}, {FALSE}}
    BY Zenon DEF Goes
  <2>3. lost' \in BOOLEAN
    BY Zenon DEF Goes
  <2> QED
    BY <2>1, <2>2, <2>3, Zenon DEF Goes, StartInv, StartTypeOK
<1>2. LatestState'
  BY DEF Goes, StartInv, LatestState
<1>3. NotForgotten'
  <2> SUFFICES ASSUME Connecting', ~service, b PROVE Underway'
    BY DEF NotForgotten, Goes, Underway
  <2>1. /\ UNCHANGED <<posted, activity, dialogs, prepared, closed, uiUp>> /\ uiUp /\ ~lost'
        /\ activity # 0 /\ ~lost /\ netStates # {FALSE} /\ intents' = intents
    BY DEF Connecting, Goes
  <2>2. up = FALSE /\ uiUp = TRUE
    BY <2>1, Zenon DEF StartInv, StartTypeOK
  <2>3. netStates = {FALSE}
    BY <2>2, Zenon DEF StartInv, LatestState
  <2> QED
    BY <2>1, <2>3
<1> QED
  BY <1>1, <1>2, <1>3 DEF StartInv

\* A state from LocalBackend, up or down.
LEMMA LoopStates == ASSUME StartInv, LoopState \/ LoopStopped PROVE StartInv'
<1> USE StartBounds
<1>1. disconnects' \in Nat /\ setters' \in Nat /\ changes' \in 0..MaxChanges
  <2>1. disconnects \in Nat /\ setters \in Nat /\ changes \in 0..MaxChanges
    BY DEF StartInv, StartTypeOK
  <2>2. CASE LoopState
    BY <2>1, <2>2 DEF LoopState, Change
  <2>3. CASE LoopStopped
    BY <2>1, <2>3 DEF LoopStopped
  <2> QED
    BY <2>2, <2>3
<1>2. want \in BOOLEAN /\ stopping \in BOOLEAN /\ (up = TRUE \/ up = FALSE)
  BY Zenon DEF StartInv, StartTypeOK
<1>3. want' \in BOOLEAN /\ stopping' \in BOOLEAN
  BY <1>2, Zenon DEF LoopState, LoopStopped
<1>4. ASSUME NEW b \in BOOLEAN, b # up, Goes(b) PROVE StartInv'
  BY <1>1, <1>3, <1>4, GoesInv
<1>5. CASE LoopState
  <2>1. CASE up = TRUE
    <3>1. Goes(FALSE) /\ FALSE # up
      BY <1>5, <2>1, Zenon DEF LoopState, Goes
    <3> QED
      BY <3>1, <1>4
  <2>2. CASE up = FALSE
    <3>1. Goes(TRUE) /\ TRUE # up
      BY <1>5, <2>2, Zenon DEF LoopState, Goes
    <3> QED
      BY <3>1, <1>4
  <2> QED
    BY <1>2, <2>1, <2>2
<1>6. CASE LoopStopped
  <2>1. CASE up
    <3>1. FALSE # up /\ Goes(FALSE)
      BY <1>6, <2>1, Zenon DEF LoopStopped
    <3> QED
      BY <3>1, <1>4
  <2>2. CASE ~up
    <3>1. /\ UNCHANGED <<up, service, netStates, viewVars, androidVars, prepared, closed, lost>>
          /\ UNCHANGED <<disconnects, want, setters, changes>>
      BY <1>6, <2>2 DEF LoopStopped
    <3>2. StartTypeOK' /\ LatestState'
      <4>1. LoopTypes'
        BY <1>1, <1>3, <3>1, StartParts DEF LoopTypes
      <4>2. UITypes'
        BY <1>1, <1>3, <3>1, StartParts DEF UITypes
      <4>3. AndroidTypes'
        BY <1>1, <1>3, <3>1, StartParts DEF AndroidTypes
      <4>4. LatestState'
        BY <1>1, <1>3, <3>1, StartParts DEF LatestState
      <4> QED
        BY <4>1, <4>2, <4>3, <4>4, StartWhole
    <3>3. ASSUME Connecting' PROVE Underway'
      <4>1. up = FALSE /\ uiUp = TRUE
        BY <2>2, <3>1, <3>3, Zenon DEF StartInv, StartTypeOK, Connecting
      <4>2. netStates = {FALSE}
        BY <4>1, Zenon DEF StartInv, LatestState
      <4> QED
        BY <3>1, <4>2 DEF Underway
    <3> QED
      BY <3>2, <3>3 DEF StartInv, NotForgotten
  <2> QED
    BY <2>1, <2>2
<1> QED
  BY <1>5, <1>6

\* A disconnect goes from the loop to its goroutine and on to LocalBackend, if its
\* preferences are not replaced.
LEMMA LoopPreferences == ASSUME StartInv, LoopPrefs \/ LoopDisconnect \/ SetPrefs PROVE StartInv'
<1> USE StartBounds
<1>1. CASE LoopPrefs
  <2>1. /\ want' = TRUE
        /\ UNCHANGED <<stateVars, setters, stopping, viewVars, androidVars, boxes, lost>>
    BY <1>1 DEF LoopPrefs
  <2>2. want' \in BOOLEAN /\ changes' \in 0..MaxChanges
    BY <1>1 DEF LoopPrefs, Change, StartInv, StartTypeOK
  <2>3. StartTypeOK' /\ LatestState'
    <3>1. LoopTypes'
      BY <2>1, <2>2, StartParts DEF LoopTypes
    <3>2. UITypes'
      BY <2>1, <2>2, StartParts DEF UITypes
    <3>3. AndroidTypes'
      BY <2>1, StartParts DEF AndroidTypes
    <3>4. LatestState'
      BY <2>1, StartParts DEF LatestState
    <3> QED
      BY <3>1, <3>2, <3>3, <3>4, StartWhole
  <2> QED
    BY <2>1, <2>3 DEF StartInv, NotForgotten, Connecting, Underway
<1>2. CASE LoopDisconnect
  <2>1. /\ disconnects' \in Nat /\ setters' \in Nat /\ setters' > 0 /\ want' = FALSE
        /\ UNCHANGED <<up, service, stopping, viewVars, androidVars, boxes, lost, changes>>
    BY <1>2 DEF LoopDisconnect, StartInv, StartTypeOK
  <2>2. want' \in BOOLEAN
    BY <2>1
  <2>3. StartTypeOK' /\ LatestState'
    <3>1. LoopTypes'
      BY <2>1, <2>2, StartParts DEF LoopTypes
    <3>2. UITypes'
      BY <2>1, <2>2, StartParts DEF UITypes
    <3>3. AndroidTypes'
      BY <2>1, <2>2, StartParts DEF AndroidTypes
    <3>4. LatestState'
      BY <2>1, <2>2, StartParts DEF LatestState
    <3> QED
      BY <3>1, <3>2, <3>3, <3>4, StartWhole
  <2> QED
    BY <2>1, <2>3 DEF StartInv, NotForgotten, Underway
<1>3. CASE SetPrefs
  <2>1. /\ setters' \in Nat /\ stopping' = (stopping \/ ~want)
        /\ lost' = (lost \/ (want /\ uiUp /\ ~service))
        /\ UNCHANGED <<stateVars, want, viewVars, androidVars, boxes, changes>>
    BY <1>3 DEF SetPrefs, StartInv, StartTypeOK
  <2>2. stopping' \in BOOLEAN /\ lost' \in BOOLEAN
    BY <2>1, Zenon
  <2>3. StartTypeOK' /\ LatestState'
    <3>1. LoopTypes'
      BY <2>1, <2>2, StartParts DEF LoopTypes
    <3>2. UITypes'
      BY <2>1, <2>2, StartParts DEF UITypes
    <3>3. AndroidTypes'
      BY <2>1, <2>2, StartParts DEF AndroidTypes
    <3>4. LatestState'
      BY <2>1, <2>2, StartParts DEF LatestState
    <3> QED
      BY <3>1, <3>2, <3>3, <3>4, StartWhole
  <2>4. ASSUME Connecting', ~service PROVE stopping'
    <3>1. uiUp /\ ~lost'
      BY <2>1, <2>4, Zenon DEF Connecting
    <3> QED
      BY <2>1, <2>4, <3>1, Zenon
  <2> QED
    BY <2>1, <2>3, <2>4 DEF StartInv, NotForgotten, Underway
<1> QED
  BY <1>1, <1>2, <1>3

\* An activity that is asked waits in posted.
LEMMA AskedWaits ==
  ASSUME StartTypeOK, NEW act \in Nat, NEW c \in Nat, act \in 1..c, created <= c, PrepareVPN(act)
  PROVE  /\ posted' \in Seq(1..c)
         /\ \A y : (y = act \/ \E i \in DOMAIN posted : posted[i] = y)
                     => \E i \in DOMAIN posted' : posted'[i] = y
<1>1. 1..created \subseteq 1..c /\ posted \in Seq(1..created)
  BY DEF StartTypeOK
<1>2. posted \in Seq(1..c)
  BY <1>1, SeqWiden
<1>3. posted' = Append(posted, act)
  BY DEF PrepareVPN
<1>4. ASSUME NEW y, y = act \/ \E i \in DOMAIN posted : posted[i] = y
      PROVE  \E i \in DOMAIN posted' : posted'[i] = y
  <2> DEFINE C == 1..c
  <2>1. posted \in Seq(C) /\ act \in C
    BY <1>2
  <2> HIDE DEF C
  <2>2. \E i \in DOMAIN Append(posted, act) : Append(posted, act)[i] = y
    BY <1>4, <2>1, AppendKeeps
  <2> QED
    BY <1>3, <2>2
<1>5. posted' \in Seq(1..c)
  BY <1>2, <1>3
<1> QED
  BY <1>4, <1>5

\* The UI takes a state: it asks its activity when it goes up.
LEMMA UIStateStep == ASSUME StartInv, UIState PROVE StartInv'
<1>1. PICK new \in netStates, fails \in BOOLEAN :
        /\ netStates' = {} /\ uiUp' = new
        /\ IF Asks(new) /\ ~fails THEN PrepareVPN(activity) ELSE UNCHANGED posted
        /\ lost' = (new /\ IF Asks(new) THEN fails /\ ~service ELSE lost)
        /\ UNCHANGED <<stateVars, prefsVars, activity, created, ended, dialogs, consent, intents,
                       prepared, closed, changes>>
  BY DEF UIState
<1>2. new \in BOOLEAN /\ netStates = {new}
  <2>1. netStates = {FALSE} \/ netStates = {TRUE}
    BY Zenon DEF StartInv, StartTypeOK
  <2>2. new = FALSE \/ new = TRUE
    BY <2>1
  <2> QED
    BY <2>1, <2>2
<1>3. posted' \in Seq(1..created) /\ (\A y : (\E i \in DOMAIN posted : posted[i] = y)
                                         => \E i \in DOMAIN posted' : posted'[i] = y)
  <2>1. CASE Asks(new) /\ ~fails
    <3>1. activity \in Nat /\ created \in Nat /\ activity \in 1..created /\ created <= created
      BY <2>1, StartBounds DEF Asks, StartInv, StartTypeOK
    <3> QED
      BY <1>1, <2>1, <3>1, AskedWaits DEF StartInv
  <2>2. CASE ~(Asks(new) /\ ~fails)
    BY <1>1, <2>2 DEF StartInv, StartTypeOK
  <2> QED
    BY <2>1, <2>2
<1>4. uiUp' \in BOOLEAN /\ lost' \in BOOLEAN /\ netStates' \in {{}, {TRUE}, {FALSE}}
  <2>1. lost \in BOOLEAN
    BY Zenon DEF StartInv, StartTypeOK
  <2> QED
    BY <1>1, <1>2, <2>1, Zenon
<1>5. StartTypeOK'
  <2>1. LoopTypes'
    BY <1>1, <1>3, <1>4, StartParts, Zenon DEF LoopTypes
  <2>2. UITypes'
    BY <1>1, <1>3, <1>4, StartParts, Zenon DEF UITypes
  <2>3. AndroidTypes'
    BY <1>1, <1>3, <1>4, StartParts, Zenon DEF AndroidTypes
  <2> QED
    BY <2>1, <2>2, <2>3, StartWhole
<1>6. LatestState'
  BY <1>1, <1>2, Zenon DEF StartInv, LatestState
<1>7. ASSUME Connecting', ~service PROVE Underway'
  <2>1. new = TRUE /\ activity # 0 /\ ~lost'
    BY <1>1, <1>2, <1>7, Zenon DEF Connecting
  <2>2. CASE uiUp
    <3>1. ~Asks(new)
      BY <2>2, Zenon DEF Asks
    <3>2. Connecting /\ netStates # {FALSE}
      BY <2>1, <2>2, <3>1, <1>1, <1>2, Zenon DEF Connecting
    <3> QED
      BY <3>2, <1>1, <1>3, <1>7 DEF StartInv, NotForgotten, Underway
  <2>3. CASE ~uiUp
    <3>1. /\ Asks(new) /\ activity \in Nat /\ created \in Nat /\ activity \in 1..created
          /\ created <= created
      BY <2>1, <2>3, StartBounds DEF Asks, StartInv, StartTypeOK
    <3>3. ~fails
      BY <1>1, <1>7, <2>1, <3>1, Zenon
    <3>2. \E i \in DOMAIN posted' : posted'[i] = activity
      BY <1>1, <3>1, <3>3, AskedWaits DEF StartInv
    <3> QED
      BY <3>2, <1>1 DEF Underway
  <2> QED
    BY <2>2, <2>3
<1> QED
  BY <1>1, <1>5, <1>6, <1>7 DEF StartInv, NotForgotten

\* When runUI returns nobody is connecting.
LEMMA EndsTyped ==
  ASSUME StartInv, Ends, created' \in Nat
  PROVE  activity' \in 0..created' /\ ended' \in BOOLEAN /\ NotForgotten'
<1>1. activity' = 0 /\ ended' = TRUE
  BY DEF Ends
<1> QED
  BY <1>1 DEF NotForgotten, Connecting

\* An activity comes, and is asked when the state is up, or goes.
LEMMA ViewSteps == ASSUME StartInv, ViewCreated \/ ViewDestroyed PROVE StartInv'
<1>1. CASE ViewCreated
  <2>1. /\ created < MaxActivities /\ created' = created + 1 /\ lost' = (lost /\ ~uiUp)
        /\ UNCHANGED <<stateVars, prefsVars, uiUp, dialogs, consent, intents, boxes, changes>>
    BY <1>1 DEF ViewCreated
  <2>2. /\ created' \in 0..MaxActivities /\ created' \in Nat
        /\ created' \in 1..created' /\ created <= created'
    BY <2>1, StartBounds DEF StartInv, StartTypeOK
  <2>3. 1..created \subseteq 1..created' /\ posted \in Seq(1..created')
    <3>1. 1..created \subseteq 1..created' /\ posted \in Seq(1..created)
      BY <2>1, StartBounds DEF StartInv, StartTypeOK
    <3> QED
      BY <3>1, SeqWiden
  <2>4. dialogs' \subseteq 1..created' /\ lost' \in BOOLEAN /\ LatestState'
    <3>1. dialogs' \subseteq 1..created'
      BY <2>1, <2>3 DEF StartInv, StartTypeOK
    <3>2. lost' \in BOOLEAN
      BY <2>1, Zenon
    <3>3. LatestState'
      BY <2>1 DEF StartInv, LatestState
    <3> QED
      BY <3>1, <3>2, <3>3
  <2>5. ASSUME activity' \in 0..created', posted' \in Seq(1..created'), ended' \in BOOLEAN
        PROVE  StartTypeOK'
    BY <2>1, <2>2, <2>4, <2>5, Zenon DEF StartInv, StartTypeOK
  <2>6. CASE activity' = created' /\ UNCHANGED ended
              /\ IF AsksAgain THEN PrepareVPN(created') ELSE UNCHANGED posted
    <3>1. /\ posted' \in Seq(1..created')
          /\ uiUp => \E i \in DOMAIN posted' : posted'[i] = activity'
      <4>1. CASE uiUp
        BY <2>2, <2>6, <4>1, AskedWaits DEF StartInv, AsksAgain
      <4>2. CASE ~uiUp
        BY <2>3, <2>6, <4>2 DEF AsksAgain
      <4> QED
        BY <4>1, <4>2
    <3>2. activity' \in 0..created' /\ ended' \in BOOLEAN
      BY <2>2, <2>6 DEF StartInv, StartTypeOK
    <3>3. NotForgotten'
      BY <2>1, <3>1 DEF NotForgotten, Connecting, Underway
    <3> QED
      BY <2>4, <2>5, <3>1, <3>2, <3>3 DEF StartInv
  <2>7. CASE Ends /\ UNCHANGED posted
    <3>1. activity' \in 0..created' /\ ended' \in BOOLEAN /\ NotForgotten'
      BY <2>2, <2>7, EndsTyped
    <3> QED
      BY <2>3, <2>4, <2>5, <2>7, <3>1 DEF StartInv
  <2> QED
    BY <1>1, <2>6, <2>7 DEF ViewCreated
<1>2. CASE ViewDestroyed
  <2>1. activity' \in 0..created /\ dialogs' \subseteq 1..created
    BY <1>2, StartBounds DEF ViewDestroyed, StartInv, StartTypeOK
  <2>2. StartTypeOK' /\ LatestState'
    <3>1. LoopTypes'
      BY <1>2, <2>1, StartParts, Zenon DEF ViewDestroyed, LoopTypes
    <3>2. UITypes'
      BY <1>2, <2>1, StartParts, Zenon DEF ViewDestroyed, UITypes
    <3>3. AndroidTypes'
      BY <1>2, <2>1, StartParts, Zenon DEF ViewDestroyed, AndroidTypes
    <3>4. LatestState'
      BY <1>2, <2>1, StartParts, Zenon DEF ViewDestroyed, LatestState
    <3> QED
      BY <3>1, <3>2, <3>3, <3>4, StartWhole
  <2>3. NotForgotten'
    BY <1>2 DEF ViewDestroyed, NotForgotten, Connecting
  <2> QED
    BY <2>2, <2>3 DEF StartInv
<1> QED
  BY <1>1, <1>2

\* The UI takes a message of Android: it goes on as an intent or as a disconnect.
LEMMA AnswerSteps == ASSUME StartInv, UIPrepared \/ UIClosed PROVE StartInv'
<1>1. CASE UIPrepared
  <2>1. /\ prepared' = FALSE
        /\ UNCHANGED <<stateVars, prefsVars, uiUp, created, posted, dialogs, consent, netStates,
                       closed, lost, changes>>
    BY <1>1 DEF UIPrepared
  <2>2. intents \in Seq({"request", "stop"}) /\ "request" \in {"request", "stop"}
    BY DEF StartInv, StartTypeOK
  <2>3. intents' \in Seq({"request", "stop"})
    <3>1. Append(intents, "request") \in Seq({"request", "stop"})
      BY <2>2
    <3>2. intents' = intents \/ intents' = Append(intents, "request")
      BY <1>1 DEF UIPrepared
    <3> QED
      BY <2>2, <3>1, <3>2
  <2>4. ASSUME activity' \in 0..created, ended' \in BOOLEAN PROVE StartTypeOK' /\ LatestState'
    <3>1. LoopTypes'
      BY <2>1, StartParts DEF LoopTypes
    <3>2. UITypes'
      BY <2>1, <2>4, StartParts, Zenon DEF UITypes
    <3>3. AndroidTypes'
      BY <2>1, <2>3, <2>4, StartParts DEF AndroidTypes
    <3>4. LatestState'
      BY <2>1, StartParts DEF LatestState
    <3> QED
      BY <3>1, <3>2, <3>3, <3>4, StartWhole
  <2>5. CASE GoesOn /\ intents' = IF uiUp THEN Append(intents, "request") ELSE intents
    <3>1. UNCHANGED <<activity, ended>>
      BY <2>5 DEF GoesOn
    <3>2. StartTypeOK' /\ LatestState'
      BY <2>4, <3>1, StartParts DEF UITypes, AndroidTypes
    <3>3. ASSUME uiUp PROVE \E i \in DOMAIN intents' : intents'[i] = "request"
      BY <3>3, <2>2, <2>5, AppendKeeps
    <3> QED
      BY <2>1, <3>2, <3>3 DEF StartInv, NotForgotten, Connecting, Underway
  <2>6. CASE Ends
    <3>1. created' \in Nat /\ created' = created
      BY <2>1, StartBounds DEF StartInv, StartTypeOK
    <3>2. activity' \in 0..created' /\ ended' \in BOOLEAN /\ NotForgotten'
      BY <2>6, <3>1, EndsTyped
    <3> QED
      BY <2>4, <3>1, <3>2 DEF StartInv
  <2> QED
    BY <1>1, <2>5, <2>6 DEF UIPrepared
<1>2. CASE UIClosed
  <2>1. /\ disconnects' = disconnects + 1 /\ disconnects \in Nat /\ closed' = FALSE
        /\ UNCHANGED <<up, service, prefsVars, viewVars, androidVars, netStates, prepared, lost,
                       changes>>
    BY <1>2 DEF UIClosed, StartInv, StartTypeOK
  <2>2. disconnects' \in Nat /\ disconnects' > 0
    BY <2>1
  <2>3. closed' \in BOOLEAN
    BY <2>1, Zenon
  <2>4. StartTypeOK' /\ LatestState'
    <3>1. LoopTypes'
      BY <2>1, <2>2, <2>3, StartParts, Zenon DEF LoopTypes
    <3>2. UITypes'
      BY <2>1, <2>2, <2>3, StartParts, Zenon DEF UITypes
    <3>3. AndroidTypes'
      BY <2>1, <2>2, <2>3, StartParts, Zenon DEF AndroidTypes
    <3>4. LatestState'
      BY <2>1, <2>2, <2>3, StartParts, Zenon DEF LatestState
    <3> QED
      BY <3>1, <3>2, <3>3, <3>4, StartWhole
  <2>5. Underway'
    BY <2>2, Zenon DEF Underway
  <2> QED
    BY <2>4, <2>5 DEF StartInv, NotForgotten
<1> QED
  BY <1>1, <1>2

\* The main thread answers for the activity or shows it the question.
LEMMA PrepareStep == ASSUME StartInv, Prepare PROVE StartInv'
<1>1. /\ posted # <<>> /\ posted' = Tail(posted)
      /\ UNCHANGED <<stateVars, prefsVars, viewVars, consent, intents, netStates, closed, lost,
                     changes>>
  BY DEF Prepare
<1>2. posted \in Seq(1..created) /\ Head(posted) \in 1..created /\ posted' \in Seq(1..created)
  BY <1>1 DEF StartInv, StartTypeOK
<1>3. /\ prepared' \in BOOLEAN /\ (prepared => prepared')
      /\ dialogs \subseteq dialogs' /\ dialogs' \subseteq 1..created
  BY <1>2 DEF Prepare, StartInv, StartTypeOK
<1>4. Head(posted) = activity => prepared' \/ activity \in dialogs'
  BY DEF Prepare
<1>5. StartTypeOK' /\ LatestState'
  <2>1. LoopTypes'
    BY <1>1, <1>2, <1>3, StartParts DEF LoopTypes
  <2>2. UITypes'
    BY <1>1, <1>2, <1>3, StartParts DEF UITypes
  <2>3. AndroidTypes'
    BY <1>1, <1>2, <1>3, StartParts DEF AndroidTypes
  <2>4. LatestState'
    BY <1>1, <1>2, <1>3, StartParts DEF LatestState
  <2> QED
    BY <2>1, <2>2, <2>3, <2>4, StartWhole
<1>6. ASSUME Connecting' PROVE service' \/ Underway'
  <2>1. service \/ Underway
    BY <1>1, <1>6 DEF StartInv, NotForgotten, Connecting
  <2>2. ASSUME NEW i \in DOMAIN posted, posted[i] = activity PROVE Underway'
    <3>1. CASE Head(posted) = activity
      BY <1>1, <1>4, <3>1 DEF Underway
    <3>2. CASE Head(posted) # activity
      <4>1. \E j \in DOMAIN Tail(posted) : Tail(posted)[j] = posted[i]
        BY <1>1, <1>2, <2>2, <3>2, TailKeeps
      <4> QED
        BY <4>1, <2>2, <1>1 DEF Underway
    <3> QED
      BY <3>1, <3>2
  <2>3. CASE ~\E i \in DOMAIN posted : posted[i] = activity
    BY <1>1, <1>3, <2>1, <2>3 DEF Underway
  <2> QED
    BY <2>2, <2>3
<1> QED
  BY <1>5, <1>6 DEF StartInv, NotForgotten

\* The user answers: one of the two messages is on its way.
LEMMA ResultStep ==
  ASSUME StartInv, NEW act \in 1..MaxActivities, NEW ok \in BOOLEAN, Result(act, ok)
  PROVE  StartInv'
<1>1. StartTypeOK'
  <2>1. LoopTypes'
    BY StartParts, Zenon DEF Result, LoopTypes
  <2>2. UITypes'
    BY StartParts, Zenon DEF Result, UITypes
  <2>3. AndroidTypes'
    BY StartParts, Zenon DEF Result, AndroidTypes
  <2> QED
    BY <2>1, <2>2, <2>3, StartWhole
<1>2. LatestState'
  BY DEF Result, StartInv, LatestState
<1>3. prepared' \/ closed'
  BY Zenon DEF Result, Denied
<1> QED
  BY <1>1, <1>2, <1>3 DEF StartInv, NotForgotten, Underway

\* A service that goes leaves a message to the UI, or finds the state down.
LEMMA GoneInv ==
  ASSUME StartInv, ServiceGone, UNCHANGED <<up, netStates, uiUp>>
  PROVE  closed' \in BOOLEAN /\ service' \in BOOLEAN /\ (closed => closed')
         /\ (uiUp => closed' \/ netStates = {FALSE})
<1>1. closed' \in BOOLEAN /\ service' \in BOOLEAN /\ (closed => closed') /\ (up => closed')
  BY Zenon DEF ServiceGone
<1>2. ASSUME uiUp, ~up PROVE netStates = {FALSE}
  <2>1. uiUp = TRUE /\ up = FALSE
    BY <1>2, Zenon DEF StartInv, StartTypeOK
  <2> QED
    BY <2>1, Zenon DEF StartInv, LatestState
<1> QED
  BY <1>1, <1>2

\* The service takes an intent, or is revoked.
LEMMA ServiceSteps == ASSUME StartInv, OnStartCommand \/ OnRevoke PROVE StartInv'
<1>1. CASE OnStartCommand
  <2>1. /\ intents # <<>> /\ intents' = Tail(intents)
        /\ UNCHANGED <<up, disconnects, prefsVars, viewVars, posted, dialogs, consent, netStates,
                       prepared, changes>>
    BY <1>1 DEF OnStartCommand
  <2>2. intents \in Seq({"request", "stop"}) /\ intents' \in Seq({"request", "stop"})
    BY <2>1 DEF StartInv, StartTypeOK
  <2>3. CASE Head(intents) = "request"
    <3>1. service' = TRUE /\ lost' = FALSE /\ UNCHANGED closed
      BY <1>1, <2>3 DEF OnStartCommand
    <3>2. service' \in BOOLEAN /\ lost' \in BOOLEAN
      BY <3>1, Zenon
    <3>3. StartTypeOK' /\ LatestState'
      <4>1. LoopTypes'
        BY <2>1, <2>2, <3>1, <3>2, StartParts, Zenon DEF LoopTypes
      <4>2. UITypes'
        BY <2>1, <2>2, <3>1, <3>2, StartParts, Zenon DEF UITypes
      <4>3. AndroidTypes'
        BY <2>1, <2>2, <3>1, <3>2, StartParts, Zenon DEF AndroidTypes
      <4>4. LatestState'
        BY <2>1, <2>2, <3>1, <3>2, StartParts, Zenon DEF LatestState
      <4> QED
        BY <4>1, <4>2, <4>3, <4>4, StartWhole
    <3> QED
      BY <3>1, <3>3 DEF StartInv, NotForgotten
  <2>4. CASE Head(intents) # "request"
    <3>1. ServiceGone /\ UNCHANGED lost
      BY <1>1, <2>4 DEF OnStartCommand
    <3>2. /\ closed' \in BOOLEAN /\ service' \in BOOLEAN
          /\ uiUp => closed' \/ netStates = {FALSE}
      BY <2>1, <3>1, GoneInv
    <3>3. StartTypeOK' /\ LatestState'
      <4>1. LoopTypes'
        BY <2>1, <2>2, <3>1, <3>2, StartParts, Zenon DEF LoopTypes
      <4>2. UITypes'
        BY <2>1, <2>2, <3>1, <3>2, StartParts, Zenon DEF UITypes
      <4>3. AndroidTypes'
        BY <2>1, <2>2, <3>1, <3>2, StartParts, Zenon DEF AndroidTypes
      <4>4. LatestState'
        BY <2>1, <2>2, <3>1, <3>2, StartParts, Zenon DEF LatestState
      <4> QED
        BY <4>1, <4>2, <4>3, <4>4, StartWhole
    <3> QED
      BY <2>1, <3>2, <3>3 DEF StartInv, NotForgotten, Connecting, Underway
  <2> QED
    BY <2>3, <2>4
<1>2. CASE OnRevoke
  <2>1. /\ changes < MaxChanges /\ changes' = changes + 1 /\ consent' = FALSE
        /\ UNCHANGED <<up, disconnects, prefsVars, viewVars, posted, dialogs, intents, netStates,
                       prepared, lost>>
    BY <1>2 DEF OnRevoke, Change
  <2>2. changes' \in 0..MaxChanges
    BY <2>1, StartBounds DEF StartInv, StartTypeOK
  <2>3. CASE service
    <3>1. ServiceGone
      BY <1>2, <2>3 DEF OnRevoke
    <3>2. /\ closed' \in BOOLEAN /\ service' \in BOOLEAN
          /\ uiUp => closed' \/ netStates = {FALSE}
      BY <2>1, <3>1, GoneInv
    <3>3. StartTypeOK' /\ LatestState'
      <4>1. LoopTypes'
        BY <2>1, <2>2, <3>2, StartParts, Zenon DEF LoopTypes
      <4>2. UITypes'
        BY <2>1, <2>2, <3>2, StartParts, Zenon DEF UITypes
      <4>3. AndroidTypes'
        BY <2>1, <2>2, <3>2, StartParts, Zenon DEF AndroidTypes
      <4>4. LatestState'
        BY <2>1, <2>2, <3>2, StartParts, Zenon DEF LatestState
      <4> QED
        BY <4>1, <4>2, <4>3, <4>4, StartWhole
    <3> QED
      BY <2>1, <3>2, <3>3 DEF StartInv, NotForgotten, Connecting, Underway
  <2>4. CASE ~service
    <3>1. UNCHANGED <<service, closed>>
      BY <1>2, <2>4 DEF OnRevoke
    <3>2. StartTypeOK' /\ LatestState'
      <4>1. LoopTypes'
        BY <2>1, <2>2, <3>1, StartParts, Zenon DEF LoopTypes
      <4>2. UITypes'
        BY <2>1, <2>2, <3>1, StartParts, Zenon DEF UITypes
      <4>3. AndroidTypes'
        BY <2>1, <2>2, <3>1, StartParts, Zenon DEF AndroidTypes
      <4>4. LatestState'
        BY <2>1, <2>2, <3>1, StartParts, Zenon DEF LatestState
      <4> QED
        BY <4>1, <4>2, <4>3, <4>4, StartWhole
    <3> QED
      BY <2>1, <3>1, <3>2 DEF StartInv, NotForgotten, Connecting, Underway
  <2> QED
    BY <2>3, <2>4
<1> QED
  BY <1>1, <1>2

\* The invariant holds throughout.
LEMMA StartInvariance == StartSpec => []StartInv
<1>1. StartInv /\ [StartNext]_startVars => StartInv'
  <2> SUFFICES ASSUME StartInv, [StartNext]_startVars PROVE StartInv'
    OBVIOUS
  <2>1. CASE UNCHANGED startVars
    <3>1. UNCHANGED <<stateVars, prefsVars, viewVars, androidVars, boxes, lost, changes>>
      BY <2>1, Zenon DEF startVars
    <3>2. StartTypeOK'
      <4>1. LoopTypes'
        BY <3>1, StartParts DEF LoopTypes
      <4>2. UITypes'
        BY <3>1, StartParts DEF UITypes
      <4>3. AndroidTypes'
        BY <3>1, StartParts DEF AndroidTypes
      <4> QED
        BY <4>1, <4>2, <4>3, StartWhole
    <3>3. LatestState'
      BY <3>1 DEF StartInv, LatestState
    <3>4. NotForgotten'
      BY <3>1 DEF StartInv, NotForgotten, Connecting, Underway
    <3> QED
      BY <3>2, <3>3, <3>4 DEF StartInv
  <2>2. CASE StartNext
    BY <2>2, LoopStates, LoopPreferences, UIStateStep, ViewSteps, AnswerSteps, PrepareStep, ServiceSteps, ResultStep
    DEF StartNext
  <2> QED
    BY <2>1, <2>2
<1> QED
  BY <1>1, StartInitInv, PTL DEF StartSpec

\* The variables of runUI, of the activities and of the service keep their types.
THEOREM StartTyped == StartSpec => []StartTypeOK
<1>1. StartInv => StartTypeOK
  BY DEF StartInv
<1> QED
  BY <1>1, StartInvariance, PTL

\* However activities, answers, revocations and states cross, runUI and IPNService
\* leave no app connected without a service or a step that leads to one, or down.
THEOREM ConnectNotForgotten == StartSpec => []NotForgotten
<1>1. StartInv => NotForgotten
  BY DEF StartInv
<1> QED
  BY <1>1, StartInvariance, PTL
=============================================================================
