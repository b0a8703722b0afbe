------------------------------ MODULE ExitNodes ------------------------------
(***************************************************************************)
(* The lists that the user sees: the exit nodes (updateExitNodes), in the  *)
(* main loop, and the peers in sections (updateState), in the UI.  Both    *)
(* are made anew from the network map, the chosen exit node and the        *)
(* user's query.  How the state gets from one goroutine to the other is    *)
(* the subject of Mailboxes.                                               *)
(*                                                                         *)
(* Nodes and users are numbers: names and labels are ordered as they are.  *)
(***************************************************************************)
EXTENDS Integers, Sequences, FiniteSets

CONSTANTS
  Id,        \* the stable IDs of nodes, from 1; 0 is no node
  NetMaps,   \* the first network maps: sequences of Peer
  Owner,     \* the user that each node belongs to
  Me,        \* the user of this device
  Sharee,    \* the nodes of users that one of our nodes is shared with
  Query      \* for each query the nodes that match it

\* The city of a node that has no location is 0.
Peer == [id : Id, routes : BOOLEAN, city : Nat, priority : Int]
IsNetMap(ps) ==
  ps \in Seq(Peer) /\ \A i, j \in DOMAIN ps : ps[i].id = ps[j].id => i = j

ASSUME NodesAssumption ==
  Id \subseteq Nat \ {0} /\ Owner \in [Id -> Nat] /\ Me \in Nat
ASSUME InputsAssumption ==
  /\ \A ps \in NetMaps : IsNetMap(ps)
  /\ Query \subseteq SUBSET Id /\ Id \in Query

VARIABLES
  peers,       \* state.NetworkMap.Peers
  exitNodeID,  \* state.Prefs.ExitNodeID
  restored,    \* has restoreSettings chosen a node since the lists were made?
  listedID,    \* the exit node that the lists were made for
  exitStatus,  \* state.ExitStatus, state.Exit and state.Exits
  exit,
  exits,
  query,       \* the UI's query
  uiPeers      \* the UI's list

exitVars == <<restored, listedID, exitStatus, exit, exits>>
listsVars == <<peers, exitNodeID, exitVars, query, uiPeers>>

Entry == [id : Id, preferred : BOOLEAN]
Row == [owner : Nat, id : Id \cup {0}]

ListsTypeOK ==
  /\ IsNetMap(peers)
  /\ exitNodeID \in Id \cup {0} /\ listedID \in Id \cup {0} /\ exit \in Id \cup {0}
  /\ restored \in BOOLEAN
  /\ exitStatus \in {"none", "offline", "online"}
  /\ exits \in Seq(Entry)
  /\ query \in Query
  /\ uiPeers \in Seq(Row)

\* sort.Slice: the members of a set, each at the place that the number of those
\* before it gives it, in the order R.
InOrder(S, R) ==
  [i \in 1..Cardinality(S) |->
     CHOOSE x \in S : Cardinality({y \in S : y # x /\ <<y, x>> \in R}) = i - 1]

-----------------------------------------------------------------------------
(* updateExitNodes                                                         *)

Listed(p, x) == p.routes \/ p.id = x
Known(ps, x) == \E i \in DOMAIN ps : ps[i].id = x

Status(ps, x) ==
  IF x = 0 THEN "none"
  ELSE IF \E i \in DOMAIN ps : ps[i].id = x /\ ps[i].routes THEN "online" ELSE "offline"

\* What the loop over the peers does with one that is listed: nodes without a
\* location, the best node of each city, and the others but the first one of each.
BetterIsWorse(p, q) == q.priority < p.priority
Better(p, q) == p.priority < q.priority
Place(found, p) ==
  IF p.city = 0 THEN [found EXCEPT !.plain = @ \cup {p}]
  ELSE IF \A b \in found.best : b.city # p.city THEN [found EXCEPT !.best = @ \cup {p}]
  ELSE [found EXCEPT
          !.best = {IF b.city = p.city /\ Better(b, p) THEN p ELSE b : b \in @},
          !.others = @ \cup {p}]

Found(ps, x) ==
  LET found[n \in 0..Len(ps)] ==
        IF n = 0 THEN [plain |-> {}, best |-> {}, others |-> {}]
        ELSE IF Listed(ps[n], x) THEN Place(found[n - 1], ps[n])
        ELSE found[n - 1]
  IN found[Len(ps)]

ByLabel(S) == InOrder(S, {pq \in S \X S : pq[1].id < pq[2].id})
ByPlace(S) == InOrder(S, {pq \in S \X S : pq[1].city < pq[2].city})
Entries(seq, preferred) ==
  [i \in DOMAIN seq |-> [id |-> seq[i].id, preferred |-> preferred]]

Exits(ps, x) ==
  LET found   == Found(ps, x)
      missing == IF x # 0 /\ ~Known(ps, x)
                 THEN <<[id |-> x, preferred |-> FALSE]>> ELSE <<>>
  IN missing \o (Entries(ByLabel(found.plain), FALSE)
       \o (Entries(ByPlace(found.best), TRUE)
             \o Entries(ByLabel(found.others), FALSE)))

\* state.Exit keeps its value when no node is chosen.
UpdateExitNodes(ps, x) ==
  /\ restored' = FALSE /\ listedID' = x
  /\ exitStatus' = Status(ps, x)
  /\ exits' = Exits(ps, x)
  /\ exit' = IF x = 0 THEN exit ELSE x

-----------------------------------------------------------------------------
(* updateState                                                             *)

HeadersFirst(l, r) == l.id = 0 \/ (r.id # 0 /\ l.id < r.id)
Before(l, r) ==
  IF l.owner # r.owner
  THEN l.owner = Me \/ (r.owner # Me /\ l.owner < r.owner)
  ELSE HeadersFirst(l, r)

\* The peers that match, and a header (node 0) for each of their owners.
Rows(ps, q) ==
  LET shown == {ps[i].id : i \in DOMAIN ps} \cap (q \ Sharee) IN
  {[owner |-> Owner[n], id |-> n] : n \in shown}
    \cup {[owner |-> Owner[n], id |-> 0] : n \in shown}

View(ps, q) ==
  LET rows == Rows(ps, q) IN
  InOrder(rows, {lr \in rows \X rows : Before(lr[1], lr[2])})

-----------------------------------------------------------------------------
ListsInit ==
  /\ peers = <<>> /\ exitNodeID = 0 /\ listedID = 0 /\ restored = FALSE
  /\ exitStatus = "none" /\ exit = 0 /\ exits = <<>>
  /\ query = Id /\ uiPeers = <<>>

\* A notification with a network map; what the UI makes of it is part of the step.
Receive(ps) ==
  /\ peers' = ps
  /\ UpdateExitNodes(ps, exitNodeID)
  /\ uiPeers' = View(ps, query)
  /\ UNCHANGED <<exitNodeID, query>>

\* The first network map; later ones differ from the last in one node.
FirstNetMap ==
  /\ peers = <<>>
  /\ \E ps \in NetMaps : Receive(ps)

Without(ps, i) == SubSeq(ps, 1, i - 1) \o SubSeq(ps, i + 1, Len(ps))
NextNetMap ==
  \E i \in DOMAIN peers :
    \/ Receive([peers EXCEPT ![i].routes = ~@])
    \/ Len(peers) > 1 /\ Receive(Without(peers, i))

\* RouteAllEvent, or a notification with preferences
Choose(x) ==
  /\ exitNodeID' = x
  /\ UpdateExitNodes(peers, x)
  /\ UNCHANGED <<peers, query, uiPeers>>

\* restoreSettings, on a copy of the state: the copy has new lists and goes to the
\* UI, but what the main loop shares with it are only the preferences.
Restore(x) ==
  /\ exitNodeID' = x /\ restored' = TRUE
  /\ UNCHANGED <<peers, listedID, exitStatus, exit, exits, query, uiPeers>>

\* SearchEvent
Search(q) ==
  /\ query' = q /\ uiPeers' = View(peers, q)
  /\ UNCHANGED <<peers, exitNodeID, exitVars>>

ListsNext ==
  \/ FirstNetMap \/ NextNetMap
  \/ \E x \in Id \cup {0} : Choose(x)
  \/ \E x \in Id : Restore(x)
  \/ \E q \in Query : Search(q)

ListsSpec == ListsInit /\ [][ListsNext]_listsVars

-----------------------------------------------------------------------------
(* Properties                                                              *)

Nodes == {peers[i] : i \in DOMAIN peers}
Offered == {p \in Nodes : Listed(p, listedID)}
NodeOf(e) == CHOOSE p \in Nodes : p.id = e.id
Rank(e) ==
  IF ~Known(peers, e.id) THEN 0
  ELSE IF NodeOf(e).city = 0 THEN 1 ELSE IF e.preferred THEN 2 ELSE 3
Precedes(e, f) ==
  \/ Rank(e) < Rank(f)
  \/ /\ Rank(e) = Rank(f)
     /\ IF e.preferred THEN NodeOf(e).city < NodeOf(f).city ELSE e.id < f.id
IsFirstOfCity(p) ==
  \E i \in DOMAIN peers :
    /\ peers[i] = p
    /\ \A j \in 1..(i - 1) : peers[j] \in Offered => peers[j].city # p.city

\* The list of exit nodes: no entry twice; nodes without a location, the best node
\* of each city, other nodes with a location, in this order; the best is one of
\* the highest priority; no node but those that can route and the chosen one; and
\* no node that can route is missing, but for the first of a city, which appears
\* only as the best (main.go:854-856 says that all of them are at the end).
ExitsRight ==
  /\ \A i, j \in DOMAIN exits : i < j => Precedes(exits[i], exits[j])
  /\ \A i \in DOMAIN exits :
       exits[i].id = listedID \/ \E p \in Offered : p.id = exits[i].id
  /\ \A p \in Offered : p.city # 0 =>
       \E i \in DOMAIN exits :
         /\ exits[i].preferred /\ NodeOf(exits[i]).city = p.city
         /\ NodeOf(exits[i]).priority >= p.priority
  /\ \A p \in Offered : p.city = 0 \/ ~IsFirstOfCity(p) <=>
       \E i \in DOMAIN exits : exits[i] = [id |-> p.id, preferred |-> FALSE]
  /\ exitStatus = "online" <=> \E p \in Nodes : p.id = listedID /\ p.routes
  /\ exitStatus # "none" => exit = listedID

\* The list of peers: every peer that matches, once, under the header of its
\* owner, one's own devices first, and no header without a peer.
PeersRight ==
  /\ {uiPeers[i].id : i \in DOMAIN uiPeers} \ {0}
       = {p.id : p \in {n \in Nodes : n.id \in query \ Sharee}}
  /\ \A i, j \in DOMAIN uiPeers : uiPeers[i] = uiPeers[j] => i = j
  /\ \A i \in DOMAIN uiPeers :
       IF uiPeers[i].id = 0
       THEN /\ i < Len(uiPeers) /\ uiPeers[i + 1].owner = uiPeers[i].owner
            /\ uiPeers[i + 1].id # 0
       ELSE i > 1 /\ uiPeers[i - 1].owner = uiPeers[i].owner
  /\ \A i, j \in DOMAIN uiPeers : i < j /\ uiPeers[j].owner = Me => uiPeers[i].owner = Me

\* The lists of the main loop are made for the exit node that is chosen, unless
\* restoreSettings has chosen another one behind their back.
ExitsCurrent == restored \/ listedID = exitNodeID

\* What the user chooses from, through all the orders of network maps, choices and
\* queries: the exit nodes, for the node that was chosen when they were listed, and
\* the peers.
ListsRight == ExitsRight /\ ExitsCurrent /\ PeersRight
=============================================================================
