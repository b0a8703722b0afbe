------------------------------- MODULE Latest -------------------------------
(***************************************************************************)
(* What the mailboxes between the main loop and the UI promise: for each   *)
(* of them one writer says new values and one reader shows, now and then,  *)
(* the value that was said last.  It may miss values, but it never shows   *)
(* an old one: what it shows is never replaced by what was said before.    *)
(* This is the abstract specification of Mailboxes.                        *)
(***************************************************************************)
EXTENDS Naturals

CONSTANT Box   \* the mailboxes

VARIABLES
  sent,   \* the number of the value that was said last, per mailbox
  seen    \* that of the value that is shown

Init == sent = [b \in Box |-> 0] /\ seen = sent

\* A new value, or the last one once more
Send(b) ==
  /\ sent' = [sent EXCEPT ![b] = sent'[b]]
  /\ sent'[b] \in Nat /\ sent'[b] >= sent[b]
  /\ UNCHANGED seen

Take(b) == seen' = [seen EXCEPT ![b] = sent[b]] /\ UNCHANGED sent

Next == \E b \in Box : Send(b) \/ Take(b)

Spec == Init /\ [][Next]_<<sent, seen>>
=============================================================================
