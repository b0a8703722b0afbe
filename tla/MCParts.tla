------------------------------- MODULE MCParts -------------------------------
(***************************************************************************)
(* The instances for TLC of parts of the program that share no state.      *)
(* Every behaviour is one of a single part (part says of which): the others *)
(* stay as they start, where their properties hold.                        *)
(***************************************************************************)
EXTENDS Mailboxes, FileReceive, FileSend, KeyExpiry, JNI, ExitNodes

VARIABLE part

partsVars == <<part, vars, receiveVars, expiryVars, jniVars, sendVars, listsVars>>

\* Three nodes in two orders, each of one of these kinds.
Node(i, kind) == [id |-> i, routes |-> kind[1], city |-> kind[2], priority |-> kind[3]]
NodeKind == {<<FALSE, 0, 0>>, <<TRUE, 0, 0>>, <<TRUE, 1, 1>>, <<TRUE, 1, 2>>, <<TRUE, 2, 1>>}
Maps(order) == {[k \in 1..3 |-> Node(order[k], kinds[k])] : kinds \in [1..3 -> NodeKind]}
ThreeNodes == Maps(<<3, 2, 1>>) \cup Maps(<<2, 3, 1>>)
Owners == <<2, 1, 2>>
Queries == {1..3, {1, 3}}

\* Where a part that does not move has several initial states one is enough.
PartsInit ==
  /\ part \in {"boxes", "files", "expiry", "java", "share", "lists"}
  /\ Init /\ ReceiveInit /\ ExpiryInit /\ JNIInit /\ SendInit /\ ListsInit
  /\ part # "files" => permitted
  /\ part # "java" => on = [g \in Goroutine |-> "t1"]

Others ==
  /\ UNCHANGED part
  /\ part # "boxes" => UNCHANGED vars
  /\ part # "files" => UNCHANGED receiveVars
  /\ part # "expiry" => UNCHANGED expiryVars
  /\ part # "java" => UNCHANGED jniVars
  /\ part # "share" => UNCHANGED sendVars
  /\ part # "lists" => UNCHANGED listsVars

PartsNext ==
  \/ part = "boxes" /\ Next /\ Others
  \/ part = "files" /\ ReceiveNext /\ Others
  \/ part = "expiry" /\ ExpiryNext /\ Others
  \/ part = "java" /\ JNINext /\ Others
  \/ part = "share" /\ SendNext /\ Others
  \/ part = "lists" /\ ListsNext /\ Others

PartsSpec == PartsInit /\ [][PartsNext]_partsVars

=============================================================================
