------------------------------ MODULE FileSend ------------------------------
(***************************************************************************)
(* Taildrop, the sending side, for one target of the share dialog.  A      *)
(* click starts a transfer: a goroutine (sendFiles) that uploads the files *)
(* and reports through a channel of the transfer's own.  The HTTP          *)
(* transport reads the files (progressReader) on a goroutine of its own,   *)
(* which reports, too, and may go on reading after the request has failed. *)
(* Both empty the channel before they send.  The UI takes what is there    *)
(* when it draws a frame.                                                  *)
(***************************************************************************)
EXTENDS Naturals

CONSTANTS
  Transfer,  \* the transfers: every click on the target starts the next
  NoTransfer,
  Chunks     \* how many reads the files of a transfer take

ASSUME TransferAssumption == NoTransfer \notin Transfer /\ Chunks \in Nat

Verdict == {"failed", "complete"}
Reported == {"transferring"} \cup Verdict

VARIABLES
  shown,      \* the share dialog is shown
  current,    \* the transfer whose channel is t.updates
  info,       \* t.info.State
  invalid,    \* a frame was asked for
  updates,    \* the content of each transfer's channel
  cancelled,  \* the transfers whose context was cancelled
  sender,     \* each transfer: where sendFiles is...
  verdict,    \* ... and what it reports at the end
  reader,     \* where the transport is in a call of progress
  left        \* the reads it has still to do

dialogVars == <<shown, current, info>>
sendVars == <<dialogVars, invalid, updates, cancelled, sender, verdict, reader, left>>

SendTypeOK ==
  /\ shown \in BOOLEAN /\ invalid \in BOOLEAN
  /\ current \in Transfer \cup {NoTransfer}
  /\ info \in {"not started", "connecting"} \cup Reported
  /\ updates \in [Transfer -> {"empty"} \cup Reported]
  /\ cancelled \subseteq Transfer
  /\ sender \in [Transfer -> {"new", "sending", "drain", "put", "ended"}]
  /\ verdict \in [Transfer -> {"none"} \cup Verdict]
  /\ reader \in [Transfer -> {"idle", "drain", "put"}]
  /\ left \in [Transfer -> 0..Chunks]

SendInit ==
  /\ shown = FALSE /\ current = NoTransfer /\ info = "not started" /\ invalid = FALSE
  /\ updates = [x \in Transfer |-> "empty"] /\ cancelled = {}
  /\ sender = [x \in Transfer |-> "new"] /\ verdict = [x \in Transfer |-> "none"]
  /\ reader = [x \in Transfer |-> "idle"] /\ left = [x \in Transfer |-> Chunks]

-----------------------------------------------------------------------------
(* The UI                                                                  *)

\* The channel of a transfer: make(chan FileSendInfo, 1), for each.
OneChannel(x) == CHOOSE y \in Transfer : TRUE
Channel(x) == x

\* Files are shared with the app: case files = <-onFileShare
Share == shown' = TRUE /\ UNCHANGED <<current, info>>
Dismiss == shown /\ shown' = FALSE /\ UNCHANGED <<current, info>>

\* FillShareDialog: the targets of a dialog that is not shown are made anew,
\* which forgets a transfer without ending it.
Fill ==
  /\ ~shown
  /\ current' = NoTransfer /\ info' = "not started"
  /\ UNCHANGED shown

Dialog ==
  /\ Share \/ Dismiss \/ Fill
  /\ UNCHANGED <<invalid, updates, cancelled, sender, verdict, reader, left>>

\* What a frame takes from the channel.
Latest ==
  IF current # NoTransfer /\ updates[Channel(current)] # "empty"
  THEN updates[Channel(current)] ELSE info
Emptied ==
  IF current # NoTransfer THEN [updates EXCEPT ![Channel(current)] = "empty"] ELSE updates

DrawFrame ==
  /\ invalid' = FALSE
  /\ info' = Latest /\ updates' = Emptied
  /\ UNCHANGED <<shown, current, cancelled, sender, verdict, reader, left>>

\* A click that was made before the frame cancels a transfer that is under way...
ClickCancel ==
  /\ shown /\ Latest \in {"connecting", "transferring"}
  /\ invalid' = FALSE /\ updates' = Emptied
  /\ cancelled' = cancelled \cup {current}
  /\ current' = NoTransfer /\ info' = "not started"
  /\ UNCHANGED <<shown, sender, verdict, reader, left>>

\* ... or starts the next.
ClickSend ==
  /\ shown /\ Latest \notin {"connecting", "transferring"}
  /\ invalid' = FALSE /\ updates' = Emptied
  /\ \E x \in Transfer :
       /\ sender[x] = "new"
       /\ current' = x /\ info' = "connecting"
       /\ sender' = [sender EXCEPT ![x] = "sending"]
  /\ UNCHANGED <<shown, cancelled, verdict, reader, left>>

-----------------------------------------------------------------------------
(* A transfer                                                              *)

\* The transport reads a part and calls progress, unless the file was read.  It
\* may do so after http.Client.Do has returned with an error.
Read(x) ==
  /\ sender[x] # "new" /\ reader[x] = "idle" /\ left[x] > 0
  /\ left' = [left EXCEPT ![x] = @ - 1]
  /\ reader' = [reader EXCEPT ![x] = "drain"]
  /\ UNCHANGED <<dialogVars, invalid, updates, cancelled, sender, verdict>>

ReaderDrain(x) ==
  /\ reader[x] = "drain" /\ reader' = [reader EXCEPT ![x] = "put"]
  /\ updates' = [updates EXCEPT ![Channel(x)] = "empty"]
  /\ UNCHANGED <<dialogVars, invalid, cancelled, sender, verdict, left>>

\* progress ends with a.invalidate.
ReaderPut(x) ==
  /\ reader[x] = "put" /\ updates[Channel(x)] = "empty"
  /\ reader' = [reader EXCEPT ![x] = "idle"]
  /\ updates' = [updates EXCEPT ![Channel(x)] = "transferring"]
  /\ invalid' = TRUE
  /\ UNCHANGED <<dialogVars, cancelled, sender, verdict, left>>

\* sendFile fails at any time, or every file was read and received.
AllRead(x) == left[x] = 0 /\ reader[x] = "idle"
SendEnds(x) ==
  /\ sender[x] = "sending" /\ sender' = [sender EXCEPT ![x] = "drain"]
  /\ \E v \in Verdict :
       /\ v = "complete" => AllRead(x)
       /\ verdict' = [verdict EXCEPT ![x] = v]
  /\ UNCHANGED <<dialogVars, invalid, updates, cancelled, reader, left>>

\* context.Canceled is not reported.
SendCancelled(x) ==
  /\ sender[x] = "sending" /\ x \in cancelled
  /\ sender' = [sender EXCEPT ![x] = "ended"]
  /\ invalid' = TRUE
  /\ UNCHANGED <<dialogVars, updates, cancelled, verdict, reader, left>>

SenderDrain(x) ==
  /\ sender[x] = "drain" /\ sender' = [sender EXCEPT ![x] = "put"]
  /\ updates' = [updates EXCEPT ![Channel(x)] = "empty"]
  /\ UNCHANGED <<dialogVars, invalid, cancelled, verdict, reader, left>>

\* The verdict is sent, and the deferred a.invalidate asks for a frame.
AsksForFrameNot == UNCHANGED invalid
AsksForFrame == invalid' = TRUE
SenderPut(x) ==
  /\ sender[x] = "put" /\ updates[Channel(x)] = "empty"
  /\ sender' = [sender EXCEPT ![x] = "ended"]
  /\ updates' = [updates EXCEPT ![Channel(x)] = verdict[x]]
  /\ AsksForFrame
  /\ UNCHANGED <<dialogVars, cancelled, verdict, reader, left>>

-----------------------------------------------------------------------------
Reader(x) == ReaderDrain(x) \/ ReaderPut(x)
Sender(x) == SendCancelled(x) \/ SenderDrain(x) \/ SenderPut(x)

SendNext ==
  \/ Dialog \/ DrawFrame \/ ClickCancel \/ ClickSend
  \/ \E x \in Transfer : Read(x) \/ Reader(x) \/ SendEnds(x) \/ Sender(x)

SendSpec == SendInit /\ [][SendNext]_sendVars

-----------------------------------------------------------------------------
(* Properties                                                              *)

\* What the dialog says of a target is true of the transfer that the user last
\* started, whatever goroutines of earlier ones, cancelled or failed, still report.
ShownIsOwn ==
  /\ info \in Reported \/ info = "connecting" =>
       current # NoTransfer /\ current \notin cancelled
  /\ info \in Verdict => sender[current] = "ended" /\ verdict[current] = info
  /\ info = "transferring" => left[current] < Chunks

\* How a transfer has ended is what the dialog shows, or is in its channel and a
\* frame was asked for, or progress has just taken it out.  When the transport
\* reads on after a failure what it reports may replace the failure.
EndIsShown ==
  current # NoTransfer /\ sender[current] = "ended" =>
    /\ \/ reader[current] # "idle"
       \/ Latest = verdict[current]
       \/ Latest = "transferring" /\ verdict[current] = "failed"
    /\ updates[current] # "empty" => invalid
=============================================================================
