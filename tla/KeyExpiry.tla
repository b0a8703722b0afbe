------------------------------ MODULE KeyExpiry ------------------------------
(***************************************************************************)
(* The alarm of the main loop (runBackend, notifyExpiry) that tells the    *)
(* user, through the service of the VPN, that the node key is about to     *)
(* expire.  One timer is armed for the next threshold, and armed again     *)
(* when a network map or a service comes.                                  *)
(*                                                                         *)
(* There are two clocks: the date, to which the expiry belongs, and the    *)
(* monotonic clock of Go's timers, which stands still while Android        *)
(* suspends the device.                                                    *)
(***************************************************************************)
EXTENDS Integers

CONSTANTS
  Soon, Day,  \* the thresholds: five minutes, a day
  MaxTime     \* bound on the clock, and on the dates of expiry

Thresholds == Soon \in Nat /\ Day \in Nat /\ Soon < Day
ASSUME ThresholdsAssumption == Thresholds

VARIABLES
  now, mono,   \* the date and the monotonic clock
  expiry,      \* state.NetworkMap.Expiry, 0 when there is none
  connected,   \* service != 0
  due,         \* when the timer rings, by the monotonic clock, 0 when it is not armed
  ring,        \* is there a value in alarmChan?
  said,        \* the message pushed when the timer was last set
  accepted        \* has Android taken it?

expiryVars == <<now, mono, expiry, connected, due, ring, said, accepted>>

Stages == {"none", "in a day", "soon", "expired"}

ExpiryTypeOK ==
  /\ now \in Nat /\ mono \in Nat /\ expiry \in Nat /\ due \in Nat
  /\ connected \in BOOLEAN /\ ring \in BOOLEAN /\ said \in Stages /\ accepted \in BOOLEAN
  /\ mono <= now

ExpiryInit ==
  /\ now = 1 /\ mono = 1 /\ expiry = 0 /\ connected = FALSE
  /\ due = 0 /\ ring = FALSE /\ said = "none" /\ accepted = TRUE

-----------------------------------------------------------------------------
\* The message for the time that is left.
Stage(d) ==
  CASE d <= 0 -> "expired"
    [] 0 < d /\ d <= Soon -> "soon"
    [] Soon < d /\ d <= Day -> "in a day"
    [] OTHER -> "none"

\* How long until the next message; 0 when there is none.
NextAlarmAtExpiry(d) == IF d <= 0 THEN 0 ELSE IF d <= Day THEN d ELSE d - Day
NextAlarm(d) ==
  IF d <= 0 THEN 0 ELSE IF d <= Soon THEN d ELSE IF d <= Day THEN d - Soon ELSE d - Day

\* alarm(a.notifyExpiry(service, e)).  A stopped timer leaves what it has sent (left)
\* in its channel, and without a new timer alarmChan stays the channel of the old.
\* An error of pushNotify is logged (fatalErr), and the timer is armed all the same.
Alarm(e, left) ==
  LET wait == IF e = 0 THEN 0 ELSE NextAlarm(e - now) IN
  /\ said' = IF e = 0 THEN said ELSE Stage(e - now)
  /\ accepted' \in IF e = 0 THEN {accepted} ELSE IF said' = "none" THEN {TRUE} ELSE BOOLEAN
  /\ due' = IF wait = 0 THEN 0 ELSE mono + wait
  /\ ring' = (wait = 0 /\ left)

\* The NetMap part of a notification
NetMap(e) ==
  /\ expiry' = e
  /\ IF connected THEN Alarm(e, ring) ELSE UNCHANGED <<said, accepted, due, ring>>
  /\ UNCHANGED <<now, mono, connected>>

\* case s := <-onVPNRequested
VPNRequested ==
  /\ connected' = TRUE
  /\ Alarm(expiry, ring)
  /\ UNCHANGED <<now, mono, expiry>>

\* case s := <-onDisconnect; the timer goes on.
Disconnected ==
  /\ connected /\ connected' = FALSE
  /\ UNCHANGED <<now, mono, expiry, due, ring, said, accepted>>

\* case <-alarmChan
Rings ==
  /\ ring
  /\ IF connected /\ expiry # 0
     THEN Alarm(expiry, FALSE)
     ELSE ring' = FALSE /\ UNCHANGED <<said, accepted, due>>
  /\ UNCHANGED <<now, mono, expiry, connected>>

-----------------------------------------------------------------------------
Rung == due # 0 /\ due <= mono

Fire ==
  /\ Rung
  /\ ring' = TRUE /\ due' = 0
  /\ UNCHANGED <<now, mono, expiry, connected, said, accepted>>

\* Timers fire in time; the main loop may be late.
Tick ==
  /\ now < MaxTime /\ ~Rung
  /\ now' = now + 1 /\ mono' = mono + 1
  /\ UNCHANGED <<expiry, connected, due, ring, said, accepted>>

\* The device is suspended for a while.
Sleep ==
  /\ now < MaxTime
  /\ now' = now + 1
  /\ UNCHANGED <<mono, expiry, connected, due, ring, said, accepted>>

ExpiryNext ==
  \/ \E e \in 0..MaxTime : NetMap(e)
  \/ VPNRequested \/ Disconnected \/ Rings \/ Fire \/ Tick \/ Sleep

ExpirySpec == ExpiryInit /\ [][ExpiryNext]_expiryVars

-----------------------------------------------------------------------------
(* Properties                                                              *)

Told(m) == said = m /\ accepted
\* Android has not taken the message, and the alarm is set for the next one.
Refused(m) == said = m /\ ~accepted /\ (due # 0 \/ m = "expired")

\* While the VPN is connected the user has been told what the time that is left
\* calls for, through all the thresholds, network maps, disconnects and
\* reconnects, unless the alarm has rung and the main loop has not come to it.  A
\* message may be late by the time the device was suspended (now - mono), and no
\* later.  One that Android refuses is not pushed again, but the next one is.
OnTime ==
  connected /\ expiry # 0 /\ ~ring /\ ~Rung =>
    \E t \in mono..now : Told(Stage(expiry - t)) \/ Refused(Stage(expiry - t))
=============================================================================
