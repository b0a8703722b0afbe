------------------------------- MODULE Tunnel -------------------------------
(***************************************************************************)
(* What the backend promises Android, and Android's VpnService expects of  *)
(* it: the descriptor of one VPN interface at a time.  A descriptor is     *)
(* detached by VpnService.Builder.establish, belongs to the program until  *)
(* it is closed, and is never closed before it was established nor used    *)
(* again afterwards.  This is the abstract specification of the devices    *)
(* behind multiTUN and of updateTUN and CloseTUNs in backend.go.           *)
(***************************************************************************)
CONSTANT Dev    \* the descriptors that may be established, each at most once

VARIABLE fd     \* the state of each descriptor

Init == fd = [d \in Dev |-> "none"]

\* The next interface is established when no other one is open.
Establish(d) ==
  /\ fd[d] = "none"
  /\ \A e \in Dev : fd[e] # "open"
  /\ fd' = [fd EXCEPT ![d] = "open"]

Close(d) ==
  /\ fd[d] = "open"
  /\ fd' = [fd EXCEPT ![d] = "closed"]

Next == \E d \in Dev : Establish(d) \/ Close(d)

Spec == Init /\ [][Next]_fd
=============================================================================
