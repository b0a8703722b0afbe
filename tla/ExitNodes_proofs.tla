------------------------- MODULE ExitNodes_proofs -------------------------
(***************************************************************************)
(* The lists of ExitNodes are right, for every network map.                *)
(*                                                                         *)
(* First the two algorithms they are made with: sort.Slice (InOrder),      *)
(* whose result is a permutation in order, and the loop over the peers     *)
(* (Found), by induction over the length of the network map; then the      *)
(* lists; and then the invariant, that the lists are those of the state    *)
(* they were made from.                                                    *)
(***************************************************************************)
EXTENDS ExitNodes, FiniteSetTheorems, FunctionTheorems, TLAPS

-----------------------------------------------------------------------------
(* sort.Slice                                                              *)

\* The members of S that R has before x.
Ahead(S, R, x) == {y \in S : y # x /\ <<y, x>> \in R}

\* The members of a sequence, and that it is in the order of R.
Elems(s) == {s[i] : i \in DOMAIN s}
Sorted(s, R) == \A i, j \in DOMAIN s : i < j => <<s[i], s[j]>> \in R

\* R is a strict total order of S, whatever it says of a member and itself.
Orders(R, S) ==
  /\ \A x, y \in S : x # y => (<<x, y>> \in R <=> <<y, x>> \notin R)
  /\ \A x, y, z \in S : x # y /\ y # z /\ <<x, y>> \in R /\ <<y, z>> \in R => <<x, z>> \in R

\* Of the members of a finite set, fewer than all are before a given one.
LEMMA AheadCount ==
  ASSUME NEW S, IsFiniteSet(S), NEW R, NEW x \in S
  PROVE  Cardinality(Ahead(S, R, x)) \in 0..(Cardinality(S) - 1)
<1>1. IsFiniteSet(S \ {x}) /\ Cardinality(S \ {x}) = Cardinality(S) - 1
  BY FS_RemoveElement
<1>2. Ahead(S, R, x) \in SUBSET (S \ {x})
  BY DEF Ahead
<1>3. /\ IsFiniteSet(Ahead(S, R, x))
      /\ Cardinality(Ahead(S, R, x)) <= Cardinality(S \ {x})
  BY <1>1, <1>2, FS_Subset
<1>4. Cardinality(Ahead(S, R, x)) \in Nat /\ Cardinality(S) \in Nat
  BY <1>3, FS_CardinalityType
<1> QED
  BY <1>1, <1>3, <1>4

\* What is later in the order has more members before it.
LEMMA AheadGrows ==
  ASSUME NEW S, IsFiniteSet(S), NEW R, Orders(R, S), NEW x \in S, NEW y \in S,
         x # y, <<x, y>> \in R
  PROVE  Cardinality(Ahead(S, R, x)) < Cardinality(Ahead(S, R, y))
<1>1. Ahead(S, R, x) \cup {x} \in SUBSET Ahead(S, R, y) /\ x \notin Ahead(S, R, x)
  BY DEF Ahead, Orders
<1>2. IsFiniteSet(Ahead(S, R, x)) /\ IsFiniteSet(Ahead(S, R, y))
  <2>1. Ahead(S, R, x) \in SUBSET S /\ Ahead(S, R, y) \in SUBSET S
    BY DEF Ahead
  <2> QED
    BY <2>1, FS_Subset
<1>3. /\ IsFiniteSet(Ahead(S, R, x) \cup {x})
      /\ Cardinality(Ahead(S, R, x) \cup {x}) = Cardinality(Ahead(S, R, x)) + 1
  BY <1>1, <1>2, FS_AddElement
<1>4. Cardinality(Ahead(S, R, x) \cup {x}) <= Cardinality(Ahead(S, R, y))
  BY <1>1, <1>2, FS_Subset
<1>5. Cardinality(Ahead(S, R, x)) \in Nat /\ Cardinality(Ahead(S, R, y)) \in Nat
  BY <1>2, FS_CardinalityType
<1> QED
  BY <1>3, <1>4, <1>5

\* sort.Slice has a member for every place: as many places as members, and no
\* two members have as many before them.
LEMMA PlaceTaken ==
  ASSUME NEW S, IsFiniteSet(S), NEW R, Orders(R, S), NEW i \in 1..Cardinality(S)
  PROVE  \E x \in S : Cardinality(Ahead(S, R, x)) = i - 1
<1> DEFINE n == Cardinality(S)
           T == 0..(n - 1)
           pos == [x \in S |-> Cardinality(Ahead(S, R, x))]
<1>1. n \in Nat
  BY FS_CardinalityType
<1>2. pos \in [S -> T]
  BY AheadCount
<1>3. ASSUME NEW x \in S, NEW y \in S, pos[x] = pos[y] PROVE x = y
  <2> SUFFICES ASSUME x # y PROVE FALSE
    OBVIOUS
  <2>1. <<x, y>> \in R \/ <<y, x>> \in R
    BY DEF Orders
  <2>2. pos[x] < pos[y] \/ pos[y] < pos[x]
    BY <2>1, AheadGrows
  <2>3. pos[x] \in Int /\ pos[y] \in Int
    BY <1>1, <1>2
  <2> QED
    BY <1>3, <2>2, <2>3
<1>4. pos \in Injection(S, T)
  BY <1>2, <1>3, Fun_IsInj
<1>5. IsFiniteSet(T) /\ Cardinality(T) = n
  <2>1. 0 \in Int /\ n - 1 \in Int
    BY <1>1
  <2>2. IsFiniteSet(T) /\ Cardinality(T) = IF 0 > n - 1 THEN 0 ELSE (n - 1) - 0 + 1
    BY <2>1, FS_Interval
  <2>3. (IF 0 > n - 1 THEN 0 ELSE (n - 1) - 0 + 1) = n
    BY <1>1
  <2> QED
    BY <2>2, <2>3
<1>6. pos \in Surjection(S, T)
  BY <1>4, <1>5, FS_Injection
<1>7. \A t \in T : \E x \in S : pos[x] = t
  <2> HIDE DEF pos, T
  <2> QED
    BY <1>6, Fun_SurjectionProperties
<1>8. i - 1 \in T
  BY <1>1
<1> QED
  BY <1>7, <1>8

\* A sequence that has each member at the place the number of those before gives it.
LEMMA PlacedIsSorted ==
  ASSUME NEW S, IsFiniteSet(S), NEW R, Orders(R, S), NEW s,
         s \in [1..Cardinality(S) -> S],
         \A i \in 1..Cardinality(S) : Cardinality(Ahead(S, R, s[i])) = i - 1
  PROVE  /\ s \in Seq(S) /\ DOMAIN s = 1..Cardinality(S) /\ Len(s) = Cardinality(S)
         /\ Elems(s) = S
         /\ \A i, j \in DOMAIN s : i < j => s[i] # s[j]
         /\ Sorted(s, R)
<1>1. Cardinality(S) \in Nat
  BY FS_CardinalityType
<1>2. s \in Seq(S) /\ DOMAIN s = 1..Cardinality(S) /\ Len(s) = Cardinality(S)
  BY <1>1
<1>3. ASSUME NEW i \in DOMAIN s, NEW j \in DOMAIN s, i < j
      PROVE  s[i] # s[j] /\ <<s[i], s[j]>> \in R
  <2>1. /\ s[i] \in S /\ s[j] \in S /\ Cardinality(Ahead(S, R, s[i])) = i - 1
        /\ Cardinality(Ahead(S, R, s[j])) = j - 1
    BY <1>2
  <2>2. s[i] # s[j] /\ ~(j - 1 < i - 1)
    BY <1>2, <1>3, <2>1
  <2>3. <<s[j], s[i]>> \notin R
    BY <2>1, <2>2, AheadGrows
  <2> QED
    BY <2>1, <2>2, <2>3 DEF Orders
<1>4. ASSUME NEW x \in S PROVE \E i \in DOMAIN s : s[i] = x
  <2> DEFINE k == Cardinality(Ahead(S, R, x)) + 1
  <2>1. k \in 1..Cardinality(S)
    BY <1>1, AheadCount
  <2>2. s[k] \in S /\ Cardinality(Ahead(S, R, s[k])) = k - 1
    BY <2>1
  <2>3. Cardinality(Ahead(S, R, s[k])) = Cardinality(Ahead(S, R, x))
    BY <2>1, <2>2, AheadCount
  <2>4. s[k] = x
    <3> SUFFICES ASSUME s[k] # x PROVE FALSE
      OBVIOUS
    <3>1. <<s[k], x>> \in R \/ <<x, s[k]>> \in R
      BY <2>2 DEF Orders
    <3>2. \/ Cardinality(Ahead(S, R, s[k])) < Cardinality(Ahead(S, R, x))
          \/ Cardinality(Ahead(S, R, x)) < Cardinality(Ahead(S, R, s[k]))
      BY <2>2, <3>1, AheadGrows
    <3>3. Cardinality(Ahead(S, R, x)) \in Int
      BY <1>1, AheadCount
    <3> QED
      BY <2>3, <3>2, <3>3
  <2> QED
    BY <1>2, <2>1, <2>4
<1>5. \A i \in DOMAIN s : s[i] \in S
  BY <1>2
<1>6. Elems(s) = S
  BY <1>4, <1>5 DEF Elems
<1>7. Sorted(s, R)
  BY <1>3 DEF Sorted
<1> QED
  BY <1>2, <1>3, <1>6, <1>7

\* What InOrder defines: every member once, in the order of R.
LEMMA InOrderIs ==
  ASSUME NEW S, IsFiniteSet(S), NEW R, Orders(R, S), NEW s, s = InOrder(S, R)
  PROVE  /\ s \in Seq(S) /\ Elems(s) = S /\ Sorted(s, R)
         /\ \A i, j \in DOMAIN s : i < j => s[i] # s[j]
<1>1. s = [i \in 1..Cardinality(S) |->
             CHOOSE x \in S : Cardinality(Ahead(S, R, x)) = i - 1]
  BY DEF InOrder, Ahead
<1>2. ASSUME NEW i \in 1..Cardinality(S)
      PROVE  s[i] \in S /\ Cardinality(Ahead(S, R, s[i])) = i - 1
  <2>1. \E x \in S : Cardinality(Ahead(S, R, x)) = i - 1
    BY PlaceTaken
  <2>2. s[i] = CHOOSE x \in S : Cardinality(Ahead(S, R, x)) = i - 1
    BY <1>1
  <2> QED
    BY ONLY <2>1, <2>2
<1>3. s \in [1..Cardinality(S) -> S]
  BY <1>1, <1>2
<1>4. \A i \in 1..Cardinality(S) : Cardinality(Ahead(S, R, s[i])) = i - 1
  BY <1>2
<1>5. /\ s \in Seq(S) /\ DOMAIN s = 1..Cardinality(S) /\ Len(s) = Cardinality(S)
      /\ Elems(s) = S
      /\ \A i, j \in DOMAIN s : i < j => s[i] # s[j]
      /\ Sorted(s, R)
  BY ONLY <1>3, <1>4, IsFiniteSet(S), Orders(R, S), PlacedIsSorted
<1> QED
  BY ONLY <1>5

\* What a concatenation has at each place.
LEMMA ConcatAt ==
  ASSUME NEW E, NEW a \in Seq(E), NEW b \in Seq(E)
  PROVE  /\ a \o b \in Seq(E) /\ Len(a \o b) = Len(a) + Len(b)
         /\ \A i \in 1..Len(a) : (a \o b)[i] = a[i]
         /\ \A i \in 1..Len(b) : (a \o b)[Len(a) + i] = b[i]
OBVIOUS

\* Two sorted parts are sorted together if all of the first goes before the second.
LEMMA ConcatSorted ==
  ASSUME NEW E, NEW R, NEW a \in Seq(E), NEW b \in Seq(E), Sorted(a, R), Sorted(b, R),
         \A e \in Elems(a), f \in Elems(b) : <<e, f>> \in R
  PROVE  /\ a \o b \in Seq(E) /\ Sorted(a \o b, R)
         /\ Elems(a \o b) = Elems(a) \cup Elems(b)
<1> DEFINE c == a \o b
           m == Len(a)
           n == Len(b)
<1>1. /\ c \in Seq(E) /\ Len(c) = m + n /\ m \in Nat /\ n \in Nat
      /\ \A i \in 1..m : c[i] = a[i]
      /\ \A i \in 1..n : c[m + i] = b[i]
  BY ConcatAt
<1>2. DOMAIN a = 1..m /\ DOMAIN b = 1..n /\ DOMAIN c = 1..(m + n)
  BY <1>1
<1> HIDE DEF c, m, n
<1>3. ASSUME NEW k \in 1..(m + n), k > m PROVE k - m \in 1..n /\ c[k] = b[k - m]
  <2>1. k - m \in 1..n /\ m + (k - m) = k
    BY <1>1, <1>3
  <2> QED
    BY <1>1, <2>1
<1>4. \A k \in 1..(m + n) : k \in 1..m \/ k > m
  BY <1>1
<1>5. Elems(c) = Elems(a) \cup Elems(b)
  <2>1. ASSUME NEW k \in DOMAIN c PROVE c[k] \in Elems(a) \cup Elems(b)
    BY <1>1, <1>2, <1>3, <1>4 DEF Elems
  <2>2. ASSUME NEW i \in DOMAIN a PROVE a[i] \in Elems(c)
    <3>1. i \in DOMAIN c /\ c[i] = a[i]
      BY <1>1, <1>2
    <3> QED
      BY <3>1 DEF Elems
  <2>3. ASSUME NEW i \in DOMAIN b PROVE b[i] \in Elems(c)
    <3>1. m + i \in DOMAIN c /\ c[m + i] = b[i]
      BY <1>1, <1>2
    <3> QED
      BY <3>1 DEF Elems
  <2> QED
    BY <2>1, <2>2, <2>3 DEF Elems
<1>6. ASSUME NEW i \in DOMAIN c, NEW j \in DOMAIN c, i < j PROVE <<c[i], c[j]>> \in R
  <2>1. CASE i \in 1..m /\ j \in 1..m
    BY <1>1, <1>2, <1>6, <2>1 DEF Sorted
  <2>2. CASE i \in 1..m /\ j > m
    <3>1. c[i] \in Elems(a) /\ c[j] \in Elems(b)
      BY <1>1, <1>2, <1>3, <2>2 DEF Elems
    <3> QED
      BY <3>1
  <2>3. CASE i > m /\ j > m
    <3>1. /\ i - m \in 1..n /\ c[i] = b[i - m] /\ j - m \in 1..n /\ c[j] = b[j - m]
      BY <1>2, <1>3, <2>3
    <3>2. i - m < j - m
      BY <1>1, <1>2, <1>6
    <3> QED
      BY <1>2, <3>1, <3>2 DEF Sorted
  <2>4. i > m => j > m
    BY <1>1, <1>2, <1>6
  <2> QED
    BY <1>2, <1>4, <2>1, <2>2, <2>3, <2>4
<1>7. c \in Seq(E) /\ Sorted(c, R)
  BY <1>1, <1>6 DEF Sorted
<1> QED
  BY <1>5, <1>7 DEF c

\* The nodes in the order of their labels.
LabelOrder(S) == {pq \in S \X S : pq[1].id < pq[2].id}

\* The sort of the nodes by label (main.go, updateExitNodes): by distinct labels it
\* puts every node in the list once, in order.
LEMMA LabelSorted ==
  ASSUME NEW S, IsFiniteSet(S), S \subseteq Peer, \A p, q \in S : p.id = q.id => p = q
  PROVE  LET s == ByLabel(S) IN
         s \in Seq(S) /\ Elems(s) = S /\ Sorted(s, LabelOrder(S))
<1> DEFINE R == LabelOrder(S)
           s == ByLabel(S)
<1>0. \A p \in S : p.id \in Int
  <2>1. \A p \in Peer : p.id \in Id
    BY DEF Peer
  <2>2. Id \subseteq Int
    BY NodesAssumption
  <2> HIDE DEF R, s
  <2> QED
    BY <2>1, <2>2
<1>1. \A p, q \in S : <<p, q>> \in R <=> p.id < q.id
  BY DEF LabelOrder
<1>2. Orders(R, S)
  <2>1. \A p, q \in S : p # q => (p.id < q.id <=> ~(q.id < p.id))
    BY <1>0
  <2>2. \A p, q, r \in S : p.id < q.id /\ q.id < r.id => p.id < r.id
    BY <1>0
  <2> HIDE DEF R
  <2> QED
    BY <1>1, <2>1, <2>2 DEF Orders
<1>3. s = InOrder(S, R)
  BY DEF ByLabel, LabelOrder
<1> HIDE DEF s, R
<1>4. s \in Seq(S) /\ Elems(s) = S /\ Sorted(s, R)
  BY <1>2, <1>3, InOrderIs
<1> QED
  BY <1>4 DEF s, R

\* The nodes in the order of their cities.
PlaceOrder(S) == {pq \in S \X S : pq[1].city < pq[2].city}

\* The same of the sort of the best nodes by country and city.
LEMMA PlaceSorted ==
  ASSUME NEW S, IsFiniteSet(S), S \subseteq Peer, \A p, q \in S : p.city = q.city => p = q
  PROVE  LET s == ByPlace(S) IN
         s \in Seq(S) /\ Elems(s) = S /\ Sorted(s, PlaceOrder(S))
<1> DEFINE R == PlaceOrder(S)
           s == ByPlace(S)
<1>0. \A p \in S : p.city \in Int
  <2>1. \A p \in Peer : p.city \in Int
    BY DEF Peer
  <2> HIDE DEF R, s
  <2> QED
    BY <2>1
<1>1. \A p, q \in S : <<p, q>> \in R <=> p.city < q.city
  BY DEF PlaceOrder
<1>2. Orders(R, S)
  <2>1. \A p, q \in S : p # q => (p.city < q.city <=> ~(q.city < p.city))
    BY <1>0
  <2>2. \A p, q, r \in S : p.city < q.city /\ q.city < r.city => p.city < r.city
    BY <1>0
  <2> HIDE DEF R
  <2> QED
    BY <1>1, <2>1, <2>2 DEF Orders
<1>3. s = InOrder(S, R)
  BY DEF ByPlace, PlaceOrder
<1> HIDE DEF s, R
<1>4. s \in Seq(S) /\ Elems(s) = S /\ Sorted(s, R)
  BY <1>2, <1>3, InOrderIs
<1> QED
  BY <1>4 DEF s, R

\* The rows in the order of updateState.
RowOrder(S) == {lr \in S \X S : Before(lr[1], lr[2])}

\* The comparison of updateState is a strict total order of the rows, as sort.Slice
\* needs it to be.
LEMMA BeforeOrders == ASSUME NEW S, S \subseteq Row PROVE Orders(RowOrder(S), S)
<1>1. \A l \in S : l.owner \in Int /\ l.id \in Int
  <2>1. \A n \in Id : n \in Int
    BY NodesAssumption
  <2>2. \A l \in Row : l.owner \in Nat /\ l.id \in Id \cup {0}
    BY DEF Row
  <2>3. ASSUME NEW l \in S PROVE l.owner \in Int /\ l.id \in Int
    <3>1. l \in Row
      OBVIOUS
    <3>2. l.owner \in Nat /\ (l.id \in Id \/ l.id = 0)
      BY <2>2, <3>1
    <3>3. l.id \in Int
      BY <2>1, <3>2
    <3> QED
      BY <3>2, <3>3
  <2> QED
    BY <2>3
<1>2. \A l, r \in S : l.owner = r.owner /\ l.id = r.id => l = r
  BY DEF Row
<1>3. \A l, r \in S : <<l, r>> \in RowOrder(S) <=> Before(l, r)
  BY DEF RowOrder
<1>4. ASSUME NEW l \in S, NEW r \in S, l # r PROVE Before(l, r) <=> ~Before(r, l)
  <2>1. l.owner # r.owner \/ l.id # r.id
    BY <1>2, <1>4
  <2> QED
    BY <1>1, <2>1 DEF Before, HeadersFirst
<1>5. ASSUME NEW l \in S, NEW m \in S, NEW r \in S, l # m, m # r, Before(l, m), Before(m, r)
      PROVE  Before(l, r)
  BY <1>1, <1>2, <1>5 DEF Before, HeadersFirst
<1> QED
  BY <1>3, <1>4, <1>5 DEF Orders

\* The sort of the rows of the peer list.
LEMMA RowsSorted ==
  ASSUME NEW S, IsFiniteSet(S), S \subseteq Row, NEW s, s = InOrder(S, RowOrder(S))
  PROVE  /\ s \in Seq(S) /\ Elems(s) = S /\ Sorted(s, RowOrder(S))
         /\ \A i, j \in DOMAIN s : i < j => s[i] # s[j]
<1>1. Orders(RowOrder(S), S)
  BY BeforeOrders
<1> QED
  BY <1>1, InOrderIs

-----------------------------------------------------------------------------
(* The list of peers                                                       *)

\* A finite set has finitely many images.
LEMMA ImageFinite ==
  ASSUME NEW S, IsFiniteSet(S), NEW f, f = [x \in S |-> f[x]]
  PROVE  IsFiniteSet({f[x] : x \in S})
<1> DEFINE T == {f[x] : x \in S}
<1>1. f \in [S -> T] /\ \A t \in T : \E x \in S : f[x] = t
  OBVIOUS
<1>2. f \in Surjection(S, T)
  BY <1>1, Fun_IsSurj
<1> QED
  BY <1>2, FS_Surjection

\* A sequence has finitely many places.
LEMMA SeqFinite ==
  ASSUME NEW T, NEW ps \in Seq(T)
  PROVE  IsFiniteSet(DOMAIN ps) /\ ps = [i \in DOMAIN ps |-> ps[i]]
<1>1. DOMAIN ps = 1..Len(ps) /\ Len(ps) \in Int
  OBVIOUS
<1>2. IsFiniteSet(1..Len(ps))
  BY <1>1, FS_Interval
<1>3. ps = [i \in DOMAIN ps |-> ps[i]]
  OBVIOUS
<1> QED
  BY <1>1, <1>2, <1>3

\* The fields of a peer.
LEMMA PeerType ==
  ASSUME NEW p \in Peer
  PROVE  /\ p.id \in Id /\ p.id \in Int /\ p.id # 0 /\ p.routes \in BOOLEAN
         /\ p.city \in Nat /\ p.priority \in Int
<1>1. p.id \in Id /\ p.routes \in BOOLEAN /\ p.city \in Nat /\ p.priority \in Int
  BY DEF Peer
<1>2. \A n \in Id : n \in Int /\ n # 0
  BY NodesAssumption
<1> QED
  BY <1>1, <1>2

\* The fields of a row, which make it what it is.
LEMMA RowFacts ==
  /\ \A l \in Row : l.owner \in Int /\ l.id \in Int
  /\ \A l, r \in Row : l.owner = r.owner /\ l.id = r.id => l = r
<1>1. \A n \in Id : n \in Int
  BY NodesAssumption
<1>2. ASSUME NEW l \in Row PROVE l.owner \in Int /\ l.id \in Int
  <2>1. l.owner \in Nat /\ (l.id \in Id \/ l.id = 0)
    BY DEF Row
  <2>2. l.id \in Int
    BY <1>1, <2>1
  <2> QED
    BY <2>1, <2>2
<1>3. \A l, r \in Row : l.owner = r.owner /\ l.id = r.id => l = r
  BY DEF Row
<1> QED
  BY <1>2, <1>3

\* The places next to two places of a sequence.
LEMMA NextTo ==
  ASSUME NEW n \in Nat, NEW i \in 1..n, NEW k \in 1..n, i < k
  PROVE  /\ i + 1 \in 1..n /\ i < i + 1 /\ (i + 1 = k \/ i + 1 < k) /\ i < n
         /\ k - 1 \in 1..n /\ k - 1 < k /\ (k - 1 = i \/ i < k - 1) /\ k > 1
OBVIOUS

\* What is between two rows of an owner is of the same owner.
LEMMA SectionConvex ==
  ASSUME NEW l \in Row, NEW m \in Row, NEW r \in Row, l.owner = r.owner,
         Before(l, m), Before(m, r)
  PROVE  m.owner = l.owner
<1>1. l.owner \in Int /\ m.owner \in Int
  BY RowFacts
<1> QED
  BY <1>1 DEF Before

\* A network map has finitely many nodes, and so node IDs.
LEMMA NetMapFinite ==
  ASSUME NEW ps, IsNetMap(ps)
  PROVE  IsFiniteSet({ps[i] : i \in DOMAIN ps}) /\ IsFiniteSet({ps[i].id : i \in DOMAIN ps})
<1>1. ps \in Seq(Peer)
  BY DEF IsNetMap
<1>2. IsFiniteSet(DOMAIN ps) /\ ps = [i \in DOMAIN ps |-> ps[i]]
  BY <1>1, SeqFinite
<1>3. IsFiniteSet({ps[i] : i \in DOMAIN ps})
  BY <1>2, ImageFinite
<1> DEFINE f == [i \in DOMAIN ps |-> ps[i].id]
<1>4. IsFiniteSet({f[i] : i \in DOMAIN ps})
  <2>1. f = [i \in DOMAIN ps |-> f[i]]
    OBVIOUS
  <2> HIDE DEF f
  <2> QED
    BY <1>2, <2>1, ImageFinite
<1>5. {f[i] : i \in DOMAIN ps} = {ps[i].id : i \in DOMAIN ps}
  OBVIOUS
<1> QED
  BY <1>3, <1>4, <1>5

\* The nodes that the peer list shows.
ShownOf(ps, q) == {ps[i].id : i \in DOMAIN ps} \cap (q \ Sharee)

\* The rows of the peer list are finitely many and of their type.
LEMMA RowsType ==
  ASSUME NEW ps, IsNetMap(ps), NEW q
  PROVE  /\ ShownOf(ps, q) \subseteq Id
         /\ Rows(ps, q) \subseteq Row /\ IsFiniteSet(Rows(ps, q))
<1> DEFINE sh == ShownOf(ps, q)
           f == [n \in sh |-> [owner |-> Owner[n], id |-> n]]
           g == [n \in sh |-> [owner |-> Owner[n], id |-> 0]]
<1>1. sh \subseteq Id /\ \A n \in sh : Owner[n] \in Nat
  <2>1. \A i \in DOMAIN ps : ps[i].id \in Id
    <3>1. \A i \in DOMAIN ps : ps[i] \in Peer
      BY DEF IsNetMap
    <3> QED
      BY <3>1, PeerType
  <2>2. sh \subseteq Id
    BY <2>1 DEF ShownOf
  <2> QED
    BY <2>2, NodesAssumption
<1>2. IsFiniteSet(sh)
  <2>1. sh \in SUBSET {ps[i].id : i \in DOMAIN ps}
    BY DEF ShownOf
  <2>2. IsFiniteSet({ps[i].id : i \in DOMAIN ps})
    BY NetMapFinite
  <2> HIDE DEF sh
  <2> QED
    BY <2>1, <2>2, FS_Subset
<1>3. Rows(ps, q) = {f[n] : n \in sh} \cup {g[n] : n \in sh}
  BY DEF Rows, ShownOf
<1>4. {f[n] : n \in sh} \subseteq Row /\ {g[n] : n \in sh} \subseteq Row
  <2> HIDE DEF sh
  <2> QED
    BY <1>1 DEF Row
<1>5. IsFiniteSet({f[n] : n \in sh}) /\ IsFiniteSet({g[n] : n \in sh})
  <2> HIDE DEF sh
  <2> QED
    BY <1>2, ImageFinite
<1>6. IsFiniteSet({f[n] : n \in sh} \cup {g[n] : n \in sh})
  <2> HIDE DEF sh, f, g
  <2> QED
    BY <1>5, FS_Union
<1> HIDE DEF f, g
<1> QED
  BY <1>1, <1>3, <1>4, <1>6

\* The rows: each shown node under its owner, and a header for each owner.
LEMMA RowsAre ==
  ASSUME NEW ps, IsNetMap(ps), NEW q
  PROVE  /\ \A r \in Rows(ps, q) : r.id = 0 \/ (r.id \in ShownOf(ps, q) /\ r.owner = Owner[r.id])
         /\ \A r \in Rows(ps, q) : \E n \in ShownOf(ps, q) : Owner[n] = r.owner
         /\ \A n \in ShownOf(ps, q) : /\ [owner |-> Owner[n], id |-> n] \in Rows(ps, q)
                                      /\ [owner |-> Owner[n], id |-> 0] \in Rows(ps, q)
BY DEF Rows, ShownOf

\* Each peer has another row of its owner before it, and each header a peer behind it.
Sectioned(s) ==
  \A i \in DOMAIN s :
    IF s[i].id = 0
    THEN i < Len(s) /\ s[i + 1].owner = s[i].owner /\ s[i + 1].id # 0
    ELSE i > 1 /\ s[i - 1].owner = s[i].owner

\* Sorted rows are in sections, if with each row there are a header and a peer of
\* its owner.
LEMMA SectionsRight ==
  ASSUME NEW S, S \subseteq Row, NEW s \in Seq(S), Elems(s) = S, Sorted(s, RowOrder(S)),
         \A i, j \in DOMAIN s : i < j => s[i] # s[j],
         \A r \in S : \E h \in S : h.owner = r.owner /\ h.id = 0,
         \A r \in S : \E p \in S : p.owner = r.owner /\ p.id # 0
  PROVE  Sectioned(s)
<1>1. DOMAIN s = 1..Len(s) /\ Len(s) \in Nat /\ \A i \in DOMAIN s : s[i] \in S /\ s[i] \in Row
  OBVIOUS
<1>4. \A i, j \in DOMAIN s : i < j => Before(s[i], s[j])
  BY DEF Sorted, RowOrder
<1>5. \A r \in S : \E k \in DOMAIN s : s[k] = r
  BY DEF Elems
<1>6. ASSUME NEW i \in DOMAIN s, s[i].id = 0
      PROVE  i < Len(s) /\ s[i + 1].owner = s[i].owner /\ s[i + 1].id # 0
  <2>0. PICK p \in S : p.owner = s[i].owner /\ p.id # 0
    BY <1>1
  <2>1. PICK k \in DOMAIN s : s[k] = p
    BY <1>5
  <2>2. i < k
    <3>1. k # i
      BY <1>6, <2>0, <2>1
    <3>2. ~(k < i)
      <4> SUFFICES ASSUME k < i PROVE FALSE
        OBVIOUS
      <4>1. Before(s[k], s[i])
        BY <1>4
      <4> QED
        BY <1>6, <2>0, <2>1, <4>1 DEF Before, HeadersFirst
    <3> QED
      BY <1>1, <3>1, <3>2
  <2>3. i + 1 \in DOMAIN s /\ i < i + 1 /\ (i + 1 = k \/ i + 1 < k) /\ i < Len(s)
    BY <1>1, <2>2, NextTo
  <2>4. s[i + 1].owner = s[i].owner
    <3>1. CASE i + 1 = k
      BY <2>0, <2>1, <3>1
    <3>2. CASE i + 1 < k
      <4>1. Before(s[i], s[i + 1]) /\ Before(s[i + 1], s[k])
        BY <1>4, <2>3, <3>2
      <4>2. s[i] \in Row /\ s[i + 1] \in Row /\ s[k] \in Row
        BY <1>1, <2>3
      <4>3. s[k].owner = s[i].owner
        BY <2>0, <2>1
      <4> QED
        BY <4>1, <4>2, <4>3, SectionConvex
    <3> QED
      BY <2>3, <3>1, <3>2
  <2>5. s[i] # s[i + 1]
    BY <2>3
  <2>6. s[i + 1].id # 0
    <3>1. s[i] \in Row /\ s[i + 1] \in Row
      BY <1>1, <2>3
    <3> QED
      BY <1>6, <2>4, <2>5, <3>1, RowFacts
  <2> QED
    BY <2>3, <2>4, <2>6
<1>7. ASSUME NEW i \in DOMAIN s, s[i].id # 0
      PROVE  i > 1 /\ s[i - 1].owner = s[i].owner
  <2>0. PICK h \in S : h.owner = s[i].owner /\ h.id = 0
    BY <1>1
  <2>1. PICK k \in DOMAIN s : s[k] = h
    BY <1>5
  <2>2. k < i
    <3>1. k # i
      BY <1>7, <2>0, <2>1
    <3>2. ~(i < k)
      <4> SUFFICES ASSUME i < k PROVE FALSE
        OBVIOUS
      <4>1. Before(s[i], s[k])
        BY <1>4
      <4> QED
        BY <1>7, <2>0, <2>1, <4>1 DEF Before, HeadersFirst
    <3> QED
      BY <1>1, <3>1, <3>2
  <2>3. i - 1 \in DOMAIN s /\ i - 1 < i /\ (i - 1 = k \/ k < i - 1) /\ i > 1
    BY <1>1, <2>2, NextTo
  <2>4. s[i - 1].owner = s[i].owner
    <3>1. CASE i - 1 = k
      BY <2>0, <2>1, <3>1
    <3>2. CASE k < i - 1
      <4>1. Before(s[k], s[i - 1]) /\ Before(s[i - 1], s[i])
        BY <1>4, <2>3, <3>2
      <4>2. s[i] \in Row /\ s[i - 1] \in Row /\ s[k] \in Row
        BY <1>1, <2>3
      <4>3. s[k].owner = s[i].owner
        BY <2>0, <2>1
      <4> QED
        BY <4>1, <4>2, <4>3, SectionConvex
    <3> QED
      BY <2>3, <3>1, <3>2
  <2> QED
    BY <2>3, <2>4
<1> QED
  BY <1>6, <1>7 DEF Sectioned

\* What updateState makes of a network map and a query is as it should be.
LEMMA ViewRight ==
  ASSUME IsNetMap(peers), uiPeers = View(peers, query)
  PROVE  uiPeers \in Seq(Row) /\ PeersRight
<1> DEFINE S == Rows(peers, query)
           sh == ShownOf(peers, query)
<1>1. S \subseteq Row /\ IsFiniteSet(S) /\ sh \subseteq Id
  BY RowsType
<1>2. /\ uiPeers \in Seq(S) /\ Elems(uiPeers) = S /\ Sorted(uiPeers, RowOrder(S))
      /\ \A i, j \in DOMAIN uiPeers : i < j => uiPeers[i] # uiPeers[j]
  <2> HIDE DEF S
  <2>1. uiPeers = InOrder(S, RowOrder(S))
    BY DEF View, S, RowOrder
  <2> QED
    BY <1>1, <2>1, RowsSorted
<1>3. 0 \notin Id
  BY NodesAssumption
<1>4. /\ \A r \in S : r.id = 0 \/ (r.id \in sh /\ r.owner = Owner[r.id])
      /\ \A r \in S : \E n \in sh : Owner[n] = r.owner
      /\ \A n \in sh : [owner |-> Owner[n], id |-> n] \in S /\ [owner |-> Owner[n], id |-> 0] \in S
  BY RowsAre
<1>5. sh = {p.id : p \in {n \in Nodes : n.id \in query \ Sharee}}
  BY DEF ShownOf, Nodes
<1> HIDE DEF S, sh
<1>6. \A r \in S : \E h \in S : h.owner = r.owner /\ h.id = 0
  BY <1>4
<1>7. \A r \in S : \E p \in S : p.owner = r.owner /\ p.id # 0
  BY <1>1, <1>3, <1>4
<1>8. Sectioned(uiPeers)
  BY <1>1, <1>2, <1>6, <1>7, SectionsRight
<1>9. {uiPeers[i].id : i \in DOMAIN uiPeers} \ {0} = sh
  <2>1. {uiPeers[i].id : i \in DOMAIN uiPeers} = {r.id : r \in S}
    BY <1>2 DEF Elems
  <2>2. \A r \in S : r.id # 0 => r.id \in sh
    BY <1>4
  <2>3. ASSUME NEW n \in sh PROVE n \in {r.id : r \in S} \ {0}
    <3>1. n # 0 /\ [owner |-> Owner[n], id |-> n] \in S
      BY <1>1, <1>3, <1>4
    <3>2. [owner |-> Owner[n], id |-> n].id = n
      OBVIOUS
    <3> QED
      BY <3>1, <3>2
  <2> QED
    BY <2>1, <2>2, <2>3
<1>10. \A i, j \in DOMAIN uiPeers : uiPeers[i] = uiPeers[j] => i = j
  <2>1. DOMAIN uiPeers \subseteq Int
    BY <1>2
  <2> QED
    BY <2>1, <1>2
<1>11. \A i, j \in DOMAIN uiPeers : i < j /\ uiPeers[j].owner = Me => uiPeers[i].owner = Me
  <2>1. \A i, j \in DOMAIN uiPeers : i < j => Before(uiPeers[i], uiPeers[j])
    BY <1>2 DEF Sorted, RowOrder
  <2> QED
    BY <2>1 DEF Before
<1>12. uiPeers \in Seq(Row)
  BY <1>1, <1>2
<1> QED
  BY <1>5, <1>8, <1>9, <1>10, <1>11, <1>12 DEF PeersRight, Sectioned

-----------------------------------------------------------------------------
(* Induction over the places of a sequence                                 *)

\* The least of a set of numbers.
LEMMA LeastNumber ==
  ASSUME NEW T, T \subseteq Nat, T # {}
  PROVE  \E n \in T : \A m \in T : n <= m
<1> DEFINE R == {p \in Nat \X Nat : p[1] < p[2]}
<1>1. IsWellFoundedOn(R, Nat)
  BY NatLessThanWellFounded DEF OpToRel
<1>2. PICK n \in T : \A m \in T : ~(<<m, n>> \in R)
  <2> HIDE DEF R
  <2> QED
    BY <1>1, WFMin
<1>3. ASSUME NEW m \in T PROVE n <= m
  <2>1. <<m, n>> \in Nat \X Nat /\ ~(m < n)
    BY <1>2
  <2> QED
    BY <2>1
<1> QED
  BY <1>3

\* Induction over 0..N, for a property that a set T of numbers states.
LEMMA UpTo ==
  ASSUME NEW N \in Nat, NEW T, 0 \in T, \A n \in 1..N : n - 1 \in T => n \in T
  PROVE  \A n \in 0..N : n \in T
<1> DEFINE F == {n \in 0..N : n \notin T}
<1> SUFFICES ASSUME F # {} PROVE FALSE
  OBVIOUS
<1>1. F \subseteq Nat
  OBVIOUS
<1>2. PICK n \in F : \A m \in F : n <= m
  <2> HIDE DEF F
  <2> QED
    BY <1>1, LeastNumber
<1>3. n \in 1..N /\ n - 1 \in 0..N /\ ~(n <= n - 1)
  BY <1>2
<1>4. n - 1 \notin F
  <2> HIDE DEF F
  <2> QED
    BY <1>2, <1>3
<1> QED
  BY <1>3, <1>4

\* A run of N steps from base exists.
HasRun(N, V, base, step) ==
  \E f \in [0..N -> V] : f[0] = base /\ \A n \in 1..N : f[n] = step[<<n, f[n - 1]>>]

\* The values after 0 to N steps are a function: what makes a recursive function of
\* the places of a sequence have the values that its definition says.
LEMMA StepsExist ==
  ASSUME NEW N \in Nat, NEW V, NEW base \in V, NEW step \in [(1..N) \X V -> V]
  PROVE  HasRun(N, V, base, step)
<1> DEFINE T == {m \in Nat : \E f \in [0..m -> V] :
                   f[0] = base /\ \A n \in 1..m : m <= N => f[n] = step[<<n, f[n - 1]>>]}
<1>1. 0 \in T
  <2> DEFINE f == [n \in 0..0 |-> base]
  <2>1. f \in [0..0 -> V] /\ f[0] = base /\ \A n \in 1..0 : FALSE
    OBVIOUS
  <2> QED
    BY <2>1
<1>2. ASSUME NEW m \in 1..N, m - 1 \in T PROVE m \in T
  <2>1. PICK f \in [0..(m - 1) -> V] :
          f[0] = base /\ \A n \in 1..(m - 1) : m - 1 <= N => f[n] = step[<<n, f[n - 1]>>]
    BY <1>2
  <2> DEFINE g == [n \in 0..m |-> IF n = m THEN step[<<m, f[m - 1]>>] ELSE f[n]]
  <2>2. m - 1 \in 0..(m - 1) /\ m - 1 <= N /\ m \in Nat /\ m # 0
    OBVIOUS
  <2>3. f[m - 1] \in V
    BY <2>1, <2>2
  <2>4. step[<<m, f[m - 1]>>] \in V
    BY <2>3
  <2>5. \A n \in 0..m : n # m => n \in 0..(m - 1)
    BY <2>2
  <2>6. g \in [0..m -> V]
    BY <2>1, <2>4, <2>5
  <2>7. g[0] = base
    BY <2>1, <2>2
  <2>8. ASSUME NEW n \in 1..m PROVE g[n] = step[<<n, g[n - 1]>>]
    <3>1. n \in 0..m /\ n - 1 \in 0..m /\ n - 1 # m /\ (n # m => n \in 1..(m - 1))
      BY <2>2
    <3>2. g[n - 1] = f[n - 1]
      BY <3>1
    <3>3. CASE n = m
      BY <3>1, <3>2, <3>3
    <3>4. CASE n # m
      BY <2>1, <2>2, <3>1, <3>2, <3>4
    <3> QED
      BY <3>3, <3>4
  <2> HIDE DEF g
  <2> QED
    BY <2>2, <2>6, <2>7, <2>8
<1>3. N \in T
  <2> HIDE DEF T
  <2>1. N \in 0..N
    OBVIOUS
  <2> QED
    BY <1>1, <1>2, <2>1, UpTo
<1> QED
  BY <1>3 DEF HasRun

-----------------------------------------------------------------------------
(* The loop over the peers                                                 *)

\* What the loop has found after n peers, from what it had before, and how a better
\* node of a city replaces the best.
Collected == [plain : SUBSET Peer, best : SUBSET Peer, others : SUBSET Peer]
Nothing == [plain |-> {}, best |-> {}, others |-> {}]
After(ps, x, n, v) == IF Listed(ps[n], x) THEN Place(v, ps[n]) ELSE v
Replace(B, p) == {IF b.city = p.city /\ Better(b, p) THEN p ELSE b : b \in B}

\* What is found is one of three, by the city of the peer.
LEMMA PlaceIs ==
  ASSUME NEW v \in Collected, NEW p \in Peer
  PROVE  /\ p.city = 0 =>
              Place(v, p) = [plain |-> v.plain \cup {p}, best |-> v.best, others |-> v.others]
         /\ p.city # 0 /\ (\A b \in v.best : b.city # p.city) =>
              Place(v, p) = [plain |-> v.plain, best |-> v.best \cup {p}, others |-> v.others]
         /\ p.city # 0 /\ (\E b \in v.best : b.city = p.city) =>
              Place(v, p) = [plain |-> v.plain, best |-> Replace(v.best, p),
                             others |-> v.others \cup {p}]
BY DEF Place, Collected, Replace

\* What is found stays of its type.
LEMMA PlaceType ==
  ASSUME NEW v \in Collected, NEW p \in Peer
  PROVE  Place(v, p) \in Collected
<1>1. v.plain \cup {p} \in SUBSET Peer /\ v.best \cup {p} \in SUBSET Peer
      /\ v.others \cup {p} \in SUBSET Peer /\ v.plain \in SUBSET Peer
      /\ v.best \in SUBSET Peer /\ v.others \in SUBSET Peer
  BY DEF Collected
<1>2. Replace(v.best, p) \in SUBSET Peer
  BY <1>1 DEF Replace
<1> QED
  BY <1>1, <1>2, PlaceIs DEF Collected

\* The loop over the peers: what is found after each of them, and at the end.
LEMMA FoundIs ==
  ASSUME NEW ps \in Seq(Peer), NEW x
  PROVE  \E f : /\ Found(ps, x) = f[Len(ps)] /\ f[0] = Nothing
                /\ \A n \in 1..Len(ps) : f[n] = After(ps, x, n, f[n - 1])
<1> DEFINE N == Len(ps)
           Body(f) == [n \in 0..N |->
                         IF n = 0 THEN Nothing
                         ELSE IF Listed(ps[n], x) THEN Place(f[n - 1], ps[n])
                         ELSE f[n - 1]]
           step == [nv \in (1..N) \X Collected |-> After(ps, x, nv[1], nv[2])]
           found == CHOOSE f : f = Body(f)
<1>1. N \in Nat /\ \A n \in 1..N : ps[n] \in Peer
  OBVIOUS
<1>2. Nothing \in Collected
  BY DEF Nothing, Collected
<1>3. step \in [(1..N) \X Collected -> Collected]
  BY <1>1, PlaceType DEF After
<1>4. PICK f \in [0..N -> Collected] :
        f[0] = Nothing /\ \A n \in 1..N : f[n] = step[<<n, f[n - 1]>>]
  <2>1. N \in Nat
    BY <1>1
  <2> HIDE DEF step, N, Body, found
  <2>2. HasRun(N, Collected, Nothing, step)
    BY <2>1, <1>2, <1>3, StepsExist
  <2> QED
    BY <2>2 DEF HasRun
<1>5. f = Body(f)
  <2>1. ASSUME NEW n \in 1..N PROVE f[n] = After(ps, x, n, f[n - 1])
    <3>1. n - 1 \in 0..N
      BY <1>1
    <3>2. f[n - 1] \in Collected
      BY <3>1
    <3> QED
      BY <1>4, <3>2
  <2>2. \A n \in 0..N : n = 0 \/ n \in 1..N
    BY <1>1
  <2>3. \A n \in 0..N : f[n] = Body(f)[n]
    BY <1>4, <2>1, <2>2 DEF After
  <2> HIDE DEF N
  <2> QED
    BY <2>3
<1>6. found = Body(found)
  <2> HIDE DEF Body
  <2> QED
    BY <1>5
<1>7. Found(ps, x) = found[N]
  BY DEF Found, Nothing
<1>8. found[0] = Nothing
  <2>1. 0 \in 0..N
    BY <1>1
  <2> HIDE DEF found, N
  <2> QED
    BY <1>6, <2>1
<1>9. ASSUME NEW n \in 1..N PROVE found[n] = After(ps, x, n, found[n - 1])
  <2>1. n \in 0..N /\ n # 0
    BY <1>1
  <2>2. Body(found)[n] = After(ps, x, n, found[n - 1])
    <3> HIDE DEF found, N
    <3> QED
      BY <2>1 DEF After
  <2> HIDE DEF found, Body
  <2> QED
    BY <1>6, <2>2
<1> HIDE DEF found
<1> QED
  BY <1>7, <1>8, <1>9

\* The places of the peers up to n that are listed.
Cand(ps, x, n) == {i \in 1..n : Listed(ps[i], x)}

\* What should be found among the first n peers: the nodes without a location, one of
\* each city of the highest priority, and all but the first of each city.
ScanOK(ps, x, n, v) ==
  /\ v \in Collected
  /\ v.plain = {ps[i] : i \in {k \in Cand(ps, x, n) : ps[k].city = 0}}
  /\ \A b \in v.best : b.city # 0 /\ \E i \in Cand(ps, x, n) : b = ps[i]
  /\ \A b, c \in v.best : b.city = c.city => b = c
  /\ \A i \in Cand(ps, x, n) : ps[i].city # 0 =>
       \E b \in v.best : b.city = ps[i].city /\ b.priority >= ps[i].priority
  /\ v.others = {ps[i] : i \in {k \in Cand(ps, x, n) :
                   ps[k].city # 0 /\ \E j \in Cand(ps, x, n) : j < k /\ ps[j].city = ps[k].city}}

\* One more peer.
LEMMA CandNext ==
  ASSUME NEW ps, NEW x, NEW n \in Nat, n # 0
  PROVE  /\ ~Listed(ps[n], x) => Cand(ps, x, n) = Cand(ps, x, n - 1)
         /\ Listed(ps[n], x) => Cand(ps, x, n) = Cand(ps, x, n - 1) \cup {n}
         /\ n \notin Cand(ps, x, n - 1) /\ \A i \in Cand(ps, x, n - 1) : i < n
<1>1. \A i \in 1..n : i = n \/ i \in 1..(n - 1)
  OBVIOUS
<1>2. \A i \in 1..(n - 1) : i \in 1..n /\ i < n
  OBVIOUS
<1>3. n \in 1..n
  OBVIOUS
<1> QED
  BY <1>1, <1>2, <1>3 DEF Cand

\* The step of the loop for a peer without a location.
LEMMA PlacePlain ==
  ASSUME NEW ps \in Seq(Peer), NEW x, NEW n \in 1..Len(ps), NEW v, ScanOK(ps, x, n - 1, v),
         Listed(ps[n], x), ps[n].city = 0
  PROVE  ScanOK(ps, x, n, Place(v, ps[n]))
<1> DEFINE p == ps[n]
           C == Cand(ps, x, n - 1)
           w == Place(v, p)
<1>1. p \in Peer /\ v \in Collected /\ n \in Nat /\ n # 0
  BY DEF ScanOK
<1>2. w = [plain |-> v.plain \cup {p}, best |-> v.best, others |-> v.others] /\ w \in Collected
  BY <1>1, PlaceIs, PlaceType
<1>3. Cand(ps, x, n) = C \cup {n} /\ \A i \in C : i < n
  BY <1>1, CandNext
<1>4. w.plain = v.plain \cup {p} /\ w.best = v.best /\ w.others = v.others
  BY <1>2
<1> HIDE DEF w, C
<1>5. w.plain = {ps[i] : i \in {k \in Cand(ps, x, n) : ps[k].city = 0}}
  BY <1>3, <1>4 DEF ScanOK, C
<1>6. /\ \A b \in w.best : b.city # 0 /\ \E i \in Cand(ps, x, n) : b = ps[i]
      /\ \A b, c \in w.best : b.city = c.city => b = c
      /\ \A i \in Cand(ps, x, n) : ps[i].city # 0 =>
           \E b \in w.best : b.city = ps[i].city /\ b.priority >= ps[i].priority
  BY <1>3, <1>4 DEF ScanOK, C
<1>7. \A k : (k \in C /\ ps[k].city # 0 /\ \E j \in C : j < k /\ ps[j].city = ps[k].city)
        <=> (k \in Cand(ps, x, n) /\ ps[k].city # 0
               /\ \E j \in Cand(ps, x, n) : j < k /\ ps[j].city = ps[k].city)
  BY <1>3
<1>8. w.others = {ps[i] : i \in {k \in Cand(ps, x, n) :
                    ps[k].city # 0 /\ \E j \in Cand(ps, x, n) : j < k /\ ps[j].city = ps[k].city}}
  BY <1>4, <1>7 DEF ScanOK, C
<1>9. ScanOK(ps, x, n, w)
  BY <1>2, <1>5, <1>6, <1>8 DEF ScanOK
<1> QED
  BY <1>9 DEF w

\* The step of the loop for the first peer of a city.
LEMMA PlaceFirst ==
  ASSUME NEW ps \in Seq(Peer), NEW x, NEW n \in 1..Len(ps), NEW v, ScanOK(ps, x, n - 1, v),
         Listed(ps[n], x), ps[n].city # 0, \A b \in v.best : b.city # ps[n].city
  PROVE  ScanOK(ps, x, n, Place(v, ps[n]))
<1> DEFINE p == ps[n]
           C == Cand(ps, x, n - 1)
           w == Place(v, p)
<1>1. p \in Peer /\ v \in Collected /\ n \in Nat /\ n # 0 /\ p.priority \in Int
  BY PeerType DEF ScanOK
<1>2. w = [plain |-> v.plain, best |-> v.best \cup {p}, others |-> v.others] /\ w \in Collected
  BY <1>1, PlaceIs, PlaceType
<1>3. Cand(ps, x, n) = C \cup {n} /\ \A i \in C : i < n
  BY <1>1, CandNext
<1>4. w.plain = v.plain /\ w.best = v.best \cup {p} /\ w.others = v.others
  BY <1>2
<1> HIDE DEF w, C
<1>5. w.plain = {ps[i] : i \in {k \in Cand(ps, x, n) : ps[k].city = 0}}
  BY <1>3, <1>4 DEF ScanOK, C
<1>6. /\ \A b \in w.best : b.city # 0 /\ \E i \in Cand(ps, x, n) : b = ps[i]
      /\ \A b, c \in w.best : b.city = c.city => b = c
  BY <1>3, <1>4 DEF ScanOK, C
<1>7. \A i \in Cand(ps, x, n) : ps[i].city # 0 =>
        \E b \in w.best : b.city = ps[i].city /\ b.priority >= ps[i].priority
  <2>1. p.priority >= p.priority
    BY <1>1
  <2> QED
    BY <1>3, <1>4, <2>1 DEF ScanOK, C
<1>8. \A j \in C : ps[j].city # p.city
  BY DEF ScanOK, C
<1>9. \A k : (k \in C /\ ps[k].city # 0 /\ \E j \in C : j < k /\ ps[j].city = ps[k].city)
        <=> (k \in Cand(ps, x, n) /\ ps[k].city # 0
               /\ \E j \in Cand(ps, x, n) : j < k /\ ps[j].city = ps[k].city)
  <2>1. \A k \in C : ~(n < k)
    BY <1>1, <1>3 DEF C, Cand
  <2>2. ~(n < n)
    BY <1>1
  <2> QED
    BY <1>3, <1>8, <2>1, <2>2
<1>10. w.others = {ps[i] : i \in {k \in Cand(ps, x, n) :
                     ps[k].city # 0 /\ \E j \in Cand(ps, x, n) : j < k /\ ps[j].city = ps[k].city}}
  BY <1>4, <1>9 DEF ScanOK, C
<1>11. ScanOK(ps, x, n, w)
  BY <1>2, <1>5, <1>6, <1>7, <1>10 DEF ScanOK
<1> QED
  BY <1>11 DEF w

\* The step of the loop for another peer of a city: it may be better than the best.
LEMMA PlaceOther ==
  ASSUME NEW ps \in Seq(Peer), NEW x, NEW n \in 1..Len(ps), NEW v, ScanOK(ps, x, n - 1, v),
         Listed(ps[n], x), ps[n].city # 0, \E b \in v.best : b.city = ps[n].city
  PROVE  ScanOK(ps, x, n, Place(v, ps[n]))
<1> DEFINE p == ps[n]
           C == Cand(ps, x, n - 1)
           w == Place(v, p)
<1>1. p \in Peer /\ v \in Collected /\ n \in Nat /\ n # 0 /\ p.priority \in Int
  BY PeerType DEF ScanOK
<1>2. /\ w = [plain |-> v.plain, best |-> Replace(v.best, p), others |-> v.others \cup {p}]
      /\ w \in Collected
  BY <1>1, PlaceIs, PlaceType
<1>3. Cand(ps, x, n) = C \cup {n} /\ \A i \in C : i < n
  BY <1>1, CandNext
<1>4. w.plain = v.plain /\ w.best = Replace(v.best, p) /\ w.others = v.others \cup {p}
  BY <1>2
<1>5. \A b \in v.best : b \in Peer /\ b.priority \in Int
  BY <1>1, PeerType DEF Collected
<1> HIDE DEF w, C
<1>6. w.plain = {ps[i] : i \in {k \in Cand(ps, x, n) : ps[k].city = 0}}
  BY <1>3, <1>4 DEF ScanOK, C
<1> DEFINE new(b) == IF b.city = p.city /\ Better(b, p) THEN p ELSE b
<1>7. /\ \A b \in v.best : new(b) \in w.best
      /\ \A c \in w.best : \E b \in v.best : c = new(b)
  BY <1>4 DEF Replace
<1>8. \A b \in v.best : /\ new(b).city = b.city /\ (new(b) = p \/ new(b) = b)
                        /\ new(b).priority >= b.priority
                        /\ b.city = p.city => new(b).priority >= p.priority
  BY <1>1, <1>5 DEF Better
<1> HIDE DEF new
<1>9. \A c \in w.best : c.city # 0 /\ \E i \in Cand(ps, x, n) : c = ps[i]
  BY <1>3, <1>7, <1>8 DEF ScanOK, C
<1>10. \A c, d \in w.best : c.city = d.city => c = d
  BY <1>7, <1>8 DEF ScanOK
<1>11. ASSUME NEW i \in Cand(ps, x, n), ps[i].city # 0
       PROVE  \E c \in w.best : c.city = ps[i].city /\ c.priority >= ps[i].priority
  <2>1. CASE i = n
    <3>1. PICK b \in v.best : b.city = p.city
      OBVIOUS
    <3>2. new(b) \in w.best /\ new(b).city = p.city /\ new(b).priority >= p.priority
      BY <1>7, <1>8, <3>1
    <3> QED
      BY <2>1, <3>2
  <2>2. CASE i \in C
    <3>1. PICK b \in v.best : b.city = ps[i].city /\ b.priority >= ps[i].priority
      BY <1>11, <2>2 DEF ScanOK, C
    <3>2. ps[i].priority \in Int /\ b.priority \in Int /\ new(b).priority \in Int
      <4>1. i \in 1..Len(ps)
        BY <1>1, <2>2 DEF C, Cand
      <4>2. ps[i] \in Peer
        BY <4>1
      <4>3. new(b) = p \/ new(b) = b
        BY <1>8
      <4> QED
        BY <1>1, <1>5, <4>2, <4>3, PeerType
    <3>3. /\ new(b) \in w.best /\ new(b).city = ps[i].city /\ new(b).priority >= b.priority
      BY <1>7, <1>8, <3>1
    <3>4. new(b).priority >= ps[i].priority
      BY <3>1, <3>2, <3>3
    <3> QED
      BY <3>3, <3>4
  <2> QED
    BY <1>3, <2>1, <2>2
<1>12. \E j \in C : j < n /\ ps[j].city = p.city
  <2>1. PICK b \in v.best : b.city = p.city
    OBVIOUS
  <2>2. PICK j \in C : b = ps[j]
    BY <2>1 DEF ScanOK, C
  <2> QED
    BY <1>3, <2>1, <2>2
<1> DEFINE Seen(k, I) == k \in I /\ ps[k].city # 0 /\ \E j \in I : j < k /\ ps[j].city = ps[k].city
<1>13. \A k : Seen(k, Cand(ps, x, n)) <=> Seen(k, C) \/ k = n
  <2>1. \A k \in C : ~(n < k)
    BY <1>1, <1>3 DEF C, Cand
  <2> QED
    BY <1>3, <1>12, <2>1
<1>14. v.others = {ps[i] : i \in {k \in C : Seen(k, C)}}
  BY DEF ScanOK, C
<1>15. w.others = {ps[i] : i \in {k \in Cand(ps, x, n) : Seen(k, Cand(ps, x, n))}}
  <2>1. n \in Cand(ps, x, n) /\ C \subseteq Cand(ps, x, n)
    BY <1>3
  <2>2. \A k \in Cand(ps, x, n) : Seen(k, Cand(ps, x, n)) <=> (k \in C /\ Seen(k, C)) \/ k = n
    BY <1>13
  <2> HIDE DEF Seen
  <2> QED
    BY <1>4, <1>14, <2>1, <2>2
<1>16. w.others = {ps[i] : i \in {k \in Cand(ps, x, n) :
                     ps[k].city # 0 /\ \E j \in Cand(ps, x, n) : j < k /\ ps[j].city = ps[k].city}}
  BY <1>15
<1>17. ScanOK(ps, x, n, w)
  BY <1>2, <1>6, <1>9, <1>10, <1>11, <1>16 DEF ScanOK
<1> QED
  BY <1>17 DEF w

\* A step of the loop keeps what it has found right.
LEMMA ScanStep ==
  ASSUME NEW ps \in Seq(Peer), NEW x, NEW n \in 1..Len(ps), NEW v, ScanOK(ps, x, n - 1, v)
  PROVE  ScanOK(ps, x, n, After(ps, x, n, v))
<1>1. CASE Listed(ps[n], x)
  <2>1. ScanOK(ps, x, n, Place(v, ps[n]))
    BY <1>1, PlacePlain, PlaceFirst, PlaceOther
  <2> QED
    BY <1>1, <2>1 DEF After
<1>2. CASE ~Listed(ps[n], x)
  <2>1. n \in Nat /\ n # 0
    OBVIOUS
  <2>2. Cand(ps, x, n) = Cand(ps, x, n - 1)
    BY <1>2, <2>1, CandNext
  <2>3. ScanOK(ps, x, n, v)
    BY <2>2 DEF ScanOK
  <2> QED
    BY <1>2, <2>3 DEF After
<1> QED
  BY <1>1, <1>2

\* The loop over the peers finds what it should in every network map.
LEMMA FoundRight ==
  ASSUME NEW ps \in Seq(Peer), NEW x
  PROVE  ScanOK(ps, x, Len(ps), Found(ps, x))
<1>1. PICK f : /\ Found(ps, x) = f[Len(ps)] /\ f[0] = Nothing
               /\ \A n \in 1..Len(ps) : f[n] = After(ps, x, n, f[n - 1])
  BY FoundIs
<1> DEFINE T == {n \in 0..Len(ps) : ScanOK(ps, x, n, f[n])}
<1>2. Len(ps) \in Nat
  OBVIOUS
<1>3. 0 \in T
  <2>1. Cand(ps, x, 0) = {}
    BY DEF Cand
  <2>2. ScanOK(ps, x, 0, Nothing)
    BY <2>1 DEF ScanOK, Nothing, Collected
  <2> QED
    BY <1>1, <1>2, <2>2
<1>4. ASSUME NEW n \in 1..Len(ps), n - 1 \in T PROVE n \in T
  <2>1. ScanOK(ps, x, n - 1, f[n - 1])
    BY <1>4
  <2>2. ScanOK(ps, x, n, f[n])
    BY <1>1, <2>1, ScanStep
  <2> QED
    BY <1>2, <2>2
<1>5. Len(ps) \in T
  <2>1. Len(ps) \in 0..Len(ps)
    BY <1>2
  <2> HIDE DEF T
  <2> QED
    BY <1>2, <1>3, <1>4, <2>1, UpTo
<1> QED
  BY <1>1, <1>5

-----------------------------------------------------------------------------
(* The list of exit nodes                                                  *)

\* What the loop over the peers has found, in terms of the nodes offered.
LEMMA FoundOffered ==
  ASSUME IsNetMap(peers), NEW F, F = Found(peers, listedID)
  PROVE  /\ F.plain = {p \in Offered : p.city = 0}
         /\ F.best \subseteq {p \in Offered : p.city # 0}
         /\ \A b, c \in F.best : b.city = c.city => b = c
         /\ \A p \in Offered : p.city # 0 =>
              \E b \in F.best : b.city = p.city /\ b.priority >= p.priority
         /\ F.others = {p \in Offered : p.city # 0 /\ ~IsFirstOfCity(p)}
<1> DEFINE C == Cand(peers, listedID, Len(peers))
<1>1. peers \in Seq(Peer) /\ \A i, j \in DOMAIN peers : peers[i] = peers[j] => i = j
  BY DEF IsNetMap
<1>2. ScanOK(peers, listedID, Len(peers), F)
  BY <1>1, FoundRight
<1>3. DOMAIN peers = 1..Len(peers) /\ Len(peers) \in Nat
  BY <1>1
<1>4. /\ \A i \in C : i \in DOMAIN peers /\ peers[i] \in Offered
      /\ \A p \in Offered : \E i \in C : peers[i] = p
      /\ \A i \in DOMAIN peers : peers[i] \in Offered => i \in C
  BY <1>3 DEF Cand, Offered, Nodes
<1> HIDE DEF C
<1>5. F.plain = {p \in Offered : p.city = 0}
  <2>1. F.plain = {peers[i] : i \in {k \in C : peers[k].city = 0}}
    BY <1>2 DEF ScanOK, C
  <2> QED
    BY <1>4, <2>1
<1>6. /\ F.best \subseteq {p \in Offered : p.city # 0}
      /\ \A b, c \in F.best : b.city = c.city => b = c
  BY <1>2, <1>4 DEF ScanOK, C
<1>7. ASSUME NEW p \in Offered, p.city # 0
      PROVE  \E b \in F.best : b.city = p.city /\ b.priority >= p.priority
  BY <1>2, <1>4, <1>7 DEF ScanOK, C
<1>8. ASSUME NEW k \in C
      PROVE  (\E j \in C : j < k /\ peers[j].city = peers[k].city)
               <=> ~IsFirstOfCity(peers[k])
  <2>1. k \in DOMAIN peers /\ \A i \in DOMAIN peers : peers[i] = peers[k] => i = k
    BY <1>1, <1>4
  <2>2. IsFirstOfCity(peers[k])
          <=> \A j \in 1..(k - 1) : peers[j] \in Offered => peers[j].city # peers[k].city
    BY <2>1 DEF IsFirstOfCity
  <2>3. \A j : j \in C /\ j < k <=> j \in 1..(k - 1) /\ peers[j] \in Offered
    <3>1. k \in 1..Len(peers)
      BY <1>3, <2>1
    <3>2. \A j \in 1..(k - 1) : j \in DOMAIN peers /\ j < k
      BY <1>3, <3>1
    <3>3. \A j \in DOMAIN peers : j < k => j \in 1..(k - 1)
      BY <1>3, <3>1
    <3> QED
      BY <1>4, <3>2, <3>3
  <2> QED
    BY <2>2, <2>3
<1>9. F.others = {p \in Offered : p.city # 0 /\ ~IsFirstOfCity(p)}
  <2>1. F.others = {peers[i] : i \in {k \in C :
                      peers[k].city # 0 /\ \E j \in C : j < k /\ peers[j].city = peers[k].city}}
    BY <1>2 DEF ScanOK, C
  <2>2. F.others = {peers[i] : i \in {k \in C : peers[k].city # 0 /\ ~IsFirstOfCity(peers[k])}}
    BY <1>8, <2>1
  <2> QED
    BY <1>4, <2>2
<1> QED
  BY <1>5, <1>6, <1>7, <1>9

\* The entries made of sorted nodes.
LEMMA EntriesAre ==
  ASSUME NEW S, S \subseteq Peer, NEW s \in Seq(S), Elems(s) = S, NEW b \in BOOLEAN
  PROVE  /\ Entries(s, b) \in Seq(Entry) /\ DOMAIN Entries(s, b) = DOMAIN s
         /\ \A i \in DOMAIN s : /\ Entries(s, b)[i] \in Entry
                                /\ Entries(s, b)[i].id = s[i].id
                                /\ Entries(s, b)[i].preferred = b
         /\ Elems(Entries(s, b)) = {[id |-> p.id, preferred |-> b] : p \in S}
<1>1. DOMAIN s = 1..Len(s) /\ Len(s) \in Nat /\ \A i \in DOMAIN s : s[i] \in S
  OBVIOUS
<1>2. \A p \in S : p.id \in Id
  BY PeerType
<1>3. /\ DOMAIN Entries(s, b) = DOMAIN s
      /\ \A i \in DOMAIN s : Entries(s, b)[i] = [id |-> s[i].id, preferred |-> b]
  BY DEF Entries
<1>4. Entries(s, b) \in [1..Len(s) -> Entry]
  BY <1>1, <1>2 DEF Entries, Entry
<1>5. Entries(s, b) \in Seq(Entry)
  BY <1>1, <1>4
<1>6. \A i \in DOMAIN s : Entries(s, b)[i] \in Entry
  BY <1>1, <1>4
<1>7. Elems(Entries(s, b)) = {[id |-> p.id, preferred |-> b] : p \in S}
  <2>1. Elems(Entries(s, b)) = {[id |-> s[i].id, preferred |-> b] : i \in DOMAIN s}
    BY <1>3 DEF Elems
  <2>2. S = {s[i] : i \in DOMAIN s}
    BY DEF Elems
  <2> QED
    BY <2>1, <2>2
<1> QED
  BY <1>3, <1>5, <1>6, <1>7

\* The part of the list that the entry of a node belongs to.
LEMMA RankIs ==
  ASSUME IsNetMap(peers), NEW p \in Nodes, NEW e, e.id = p.id
  PROVE  /\ NodeOf(e) = p
         /\ p.city = 0 => Rank(e) = 1
         /\ p.city # 0 /\ e.preferred => Rank(e) = 2
         /\ p.city # 0 /\ ~e.preferred => Rank(e) = 3
<1>1. \A q \in Nodes : q.id = p.id => q = p
  BY DEF IsNetMap, Nodes
<1>2. NodeOf(e) = p
  BY <1>1 DEF NodeOf
<1>3. Known(peers, e.id)
  BY DEF Known, Nodes
<1> QED
  BY <1>2, <1>3 DEF Rank

\* The order of the list of exit nodes.
Preceding == {ef \in Entry \X Entry : Precedes(ef[1], ef[2])}

\* A part of the list that is in the order of the labels.
LEMMA LabelPart ==
  ASSUME IsNetMap(peers), NEW S, S \subseteq Nodes, NEW city \in BOOLEAN,
         \A p \in S : p.city # 0 <=> city,
         NEW s, s = Entries(ByLabel(S), FALSE)
  PROVE  /\ s \in Seq(Entry) /\ Sorted(s, Preceding)
         /\ Elems(s) = {[id |-> p.id, preferred |-> FALSE] : p \in S}
<1> DEFINE t == ByLabel(S)
<1>1. Nodes \subseteq Peer /\ \A p, q \in Nodes : p.id = q.id => p = q
  BY DEF IsNetMap, Nodes
<1>2. IsFiniteSet(S)
  <2>1. IsFiniteSet(Nodes)
    BY NetMapFinite DEF Nodes
  <2> QED
    BY <2>1, FS_Subset
<1>3. S \subseteq Peer /\ \A p, q \in S : p.id = q.id => p = q
  BY <1>1
<1>4. t \in Seq(S) /\ Elems(t) = S /\ Sorted(t, LabelOrder(S))
  BY <1>2, <1>3, LabelSorted
<1> HIDE DEF t
<1>5. /\ s \in Seq(Entry) /\ DOMAIN s = DOMAIN t
      /\ \A i \in DOMAIN t : s[i] \in Entry /\ s[i].id = t[i].id /\ s[i].preferred = FALSE
      /\ Elems(s) = {[id |-> p.id, preferred |-> FALSE] : p \in S}
  <2>1. t \in Seq(S) /\ Elems(t) = S /\ s = Entries(t, FALSE)
    BY <1>4 DEF t
  <2>2. /\ Entries(t, FALSE) \in Seq(Entry) /\ DOMAIN Entries(t, FALSE) = DOMAIN t
        /\ \A i \in DOMAIN t : /\ Entries(t, FALSE)[i] \in Entry
                               /\ Entries(t, FALSE)[i].id = t[i].id
                               /\ Entries(t, FALSE)[i].preferred = FALSE
        /\ Elems(Entries(t, FALSE)) = {[id |-> p.id, preferred |-> FALSE] : p \in S}
    BY ONLY <1>3, <2>1, EntriesAre
  <2> QED
    BY <2>1, <2>2
<1>6. ASSUME NEW i \in DOMAIN s, NEW j \in DOMAIN s, i < j PROVE <<s[i], s[j]>> \in Preceding
  <2>1. t[i] \in S /\ t[j] \in S /\ t[i].id < t[j].id
    BY <1>4, <1>5, <1>6 DEF Sorted, LabelOrder
  <2>2. s[i].id = t[i].id /\ ~s[i].preferred /\ s[j].id = t[j].id /\ ~s[j].preferred
    BY ONLY <1>5, i \in DOMAIN s, j \in DOMAIN s
  <2>3. Rank(s[i]) = Rank(s[j])
    <3>1. t[i] \in Nodes /\ t[j] \in Nodes
      BY <2>1
    <3>2. CASE city
      <4>1. Rank(s[i]) = 3
        BY <2>1, <2>2, <3>1, <3>2, RankIs
      <4>2. Rank(s[j]) = 3
        BY <2>1, <2>2, <3>1, <3>2, RankIs
      <4> QED
        BY <4>1, <4>2
    <3>3. CASE ~city
      <4>1. Rank(s[i]) = 1
        BY <2>1, <2>2, <3>1, <3>3, RankIs
      <4>2. Rank(s[j]) = 1
        BY <2>1, <2>2, <3>1, <3>3, RankIs
      <4> QED
        BY <4>1, <4>2
    <3> QED
      BY <3>2, <3>3
  <2>4. s[i] \in Entry /\ s[j] \in Entry
    BY ONLY <1>5, i \in DOMAIN s, j \in DOMAIN s
  <2>5. Precedes(s[i], s[j])
    BY <2>1, <2>2, <2>3 DEF Precedes
  <2> QED
    BY <2>4, <2>5 DEF Preceding
<1> QED
  BY <1>5, <1>6 DEF Sorted

\* The part of the list with the best node of each city.
LEMMA BestPart ==
  ASSUME IsNetMap(peers), NEW S, S \subseteq {p \in Nodes : p.city # 0},
         \A b, c \in S : b.city = c.city => b = c,
         NEW s, s = Entries(ByPlace(S), TRUE)
  PROVE  /\ s \in Seq(Entry) /\ Sorted(s, Preceding)
         /\ Elems(s) = {[id |-> p.id, preferred |-> TRUE] : p \in S}
<1> DEFINE t == ByPlace(S)
<1>1. S \subseteq Peer
  BY DEF IsNetMap, Nodes
<1>2. IsFiniteSet(S)
  <2>1. IsFiniteSet(Nodes)
    BY NetMapFinite DEF Nodes
  <2>2. S \in SUBSET Nodes
    OBVIOUS
  <2> QED
    BY <2>1, <2>2, FS_Subset
<1>3. t \in Seq(S) /\ Elems(t) = S /\ Sorted(t, PlaceOrder(S))
  BY <1>1, <1>2, PlaceSorted
<1> HIDE DEF t
<1>4. /\ s \in Seq(Entry) /\ DOMAIN s = DOMAIN t
      /\ \A i \in DOMAIN t : s[i] \in Entry /\ s[i].id = t[i].id /\ s[i].preferred = TRUE
      /\ Elems(s) = {[id |-> p.id, preferred |-> TRUE] : p \in S}
  BY <1>1, <1>3, EntriesAre DEF t
<1>5. ASSUME NEW i \in DOMAIN s, NEW j \in DOMAIN s, i < j PROVE <<s[i], s[j]>> \in Preceding
  <2>1. t[i] \in S /\ t[j] \in S /\ t[i].city < t[j].city
    BY <1>3, <1>4, <1>5 DEF Sorted, PlaceOrder
  <2>2. s[i].id = t[i].id /\ s[i].preferred /\ s[j].id = t[j].id /\ s[j].preferred
    BY ONLY <1>4, i \in DOMAIN s, j \in DOMAIN s
  <2>3. NodeOf(s[i]) = t[i] /\ Rank(s[i]) = 2
    BY <2>1, <2>2, RankIs
  <2>4. NodeOf(s[j]) = t[j] /\ Rank(s[j]) = 2
    BY <2>1, <2>2, RankIs
  <2>5. s[i] \in Entry /\ s[j] \in Entry
    BY ONLY <1>4, i \in DOMAIN s, j \in DOMAIN s
  <2>6. Precedes(s[i], s[j])
    BY <2>1, <2>2, <2>3, <2>4 DEF Precedes
  <2> QED
    BY <2>5, <2>6 DEF Preceding
<1> QED
  BY <1>4, <1>5 DEF Sorted

\* The first part: the chosen node, if it is not in the network map.
LEMMA MissingPart ==
  ASSUME NEW x \in Id \cup {0},
         NEW s, s = IF x # 0 /\ ~Known(peers, x)
                    THEN <<[id |-> x, preferred |-> FALSE]>> ELSE <<>>
  PROVE  /\ s \in Seq(Entry) /\ Sorted(s, Preceding)
         /\ \A e \in Elems(s) : e.id = x /\ Rank(e) = 0
<1>1. CASE x # 0 /\ ~Known(peers, x)
  <2> DEFINE e == [id |-> x, preferred |-> FALSE]
  <2>1. s = <<e>> /\ e \in Entry
    BY <1>1 DEF Entry
  <2>2. e.id = x /\ Rank(e) = 0
    BY <1>1 DEF Rank
  <2> HIDE DEF e
  <2>3. s \in Seq(Entry) /\ DOMAIN s = {1} /\ s[1] = e
    BY ONLY <2>1
  <2> QED
    BY ONLY <2>2, <2>3 DEF Sorted, Elems
<1>2. CASE ~(x # 0 /\ ~Known(peers, x))
  <2>1. s = <<>>
    BY <1>2
  <2> QED
    BY ONLY <2>1 DEF Sorted, Elems
<1> QED
  BY <1>1, <1>2

\* The parts in one sequence: what is in an earlier part has a lower rank.
LEMMA RanksSorted ==
  ASSUME NEW a \in Seq(Entry), NEW b \in Seq(Entry), Sorted(a, Preceding), Sorted(b, Preceding),
         \A e \in Elems(a), f \in Elems(b) : Rank(e) < Rank(f)
  PROVE  /\ a \o b \in Seq(Entry) /\ Sorted(a \o b, Preceding)
         /\ Elems(a \o b) = Elems(a) \cup Elems(b)
<1>1. Elems(a) \subseteq Entry /\ Elems(b) \subseteq Entry
  BY DEF Elems
<1>2. \A e \in Elems(a), f \in Elems(b) : <<e, f>> \in Preceding
  BY <1>1 DEF Preceding, Precedes
<1> QED
  BY <1>2, ConcatSorted

\* The entries of the list of exit nodes: the missing one, the best of each city, and
\* the nodes without a location or not first of their city; all in order.
LEMMA ExitsAre ==
  ASSUME IsNetMap(peers), listedID \in Id \cup {0}, exits = Exits(peers, listedID)
  PROVE  /\ exits \in Seq(Entry) /\ Sorted(exits, Preceding)
         /\ \E M, B :
              /\ \A e \in M : e.id = listedID /\ ~Known(peers, e.id)
              /\ B \subseteq {p \in Offered : p.city # 0}
              /\ \A p \in Offered : p.city # 0 =>
                   \E b \in B : b.city = p.city /\ b.priority >= p.priority
              /\ Elems(exits) =
                   M \cup {[id |-> p.id, preferred |-> TRUE] : p \in B}
                     \cup {[id |-> p.id, preferred |-> FALSE] :
                             p \in {n \in Offered : n.city = 0 \/ ~IsFirstOfCity(n)}}
<1> DEFINE F == Found(peers, listedID)
           missing == IF listedID # 0 /\ ~Known(peers, listedID)
                      THEN <<[id |-> listedID, preferred |-> FALSE]>> ELSE <<>>
           plain == Entries(ByLabel(F.plain), FALSE)
           best == Entries(ByPlace(F.best), TRUE)
           others == Entries(ByLabel(F.others), FALSE)
<1>1. exits = missing \o (plain \o (best \o others))
  BY DEF Exits
<1>2. /\ F.plain = {p \in Offered : p.city = 0}
      /\ F.best \subseteq {p \in Offered : p.city # 0}
      /\ \A b, c \in F.best : b.city = c.city => b = c
      /\ \A p \in Offered : p.city # 0 =>
           \E b \in F.best : b.city = p.city /\ b.priority >= p.priority
      /\ F.others = {p \in Offered : p.city # 0 /\ ~IsFirstOfCity(p)}
  BY FoundOffered
<1> HIDE DEF F
<1>3. Offered \subseteq Nodes
  BY DEF Offered
<1>4. /\ missing \in Seq(Entry) /\ Sorted(missing, Preceding)
      /\ \A e \in Elems(missing) : e.id = listedID /\ Rank(e) = 0
  BY MissingPart
<1>5. /\ plain \in Seq(Entry) /\ Sorted(plain, Preceding)
      /\ Elems(plain) = {[id |-> p.id, preferred |-> FALSE] : p \in F.plain}
  <2>1. F.plain \subseteq Nodes /\ \A p \in F.plain : p.city # 0 <=> FALSE
    BY <1>2, <1>3
  <2> QED
    BY <2>1, LabelPart
<1>6. /\ best \in Seq(Entry) /\ Sorted(best, Preceding)
      /\ Elems(best) = {[id |-> p.id, preferred |-> TRUE] : p \in F.best}
  <2>1. F.best \subseteq {p \in Nodes : p.city # 0}
    BY <1>2, <1>3
  <2> QED
    BY <1>2, <2>1, BestPart
<1>7. /\ others \in Seq(Entry) /\ Sorted(others, Preceding)
      /\ Elems(others) = {[id |-> p.id, preferred |-> FALSE] : p \in F.others}
  <2>1. F.others \subseteq Nodes /\ \A p \in F.others : p.city # 0 <=> TRUE
    BY <1>2, <1>3
  <2> QED
    BY <2>1, LabelPart
<1>8. /\ \A e \in Elems(plain) : Rank(e) = 1
      /\ \A e \in Elems(best) : Rank(e) = 2
      /\ \A e \in Elems(others) : Rank(e) = 3
  <2> HIDE DEF plain, best, others
  <2>1. ASSUME NEW p \in F.plain PROVE Rank([id |-> p.id, preferred |-> FALSE]) = 1
    BY <1>2, <1>3, RankIs
  <2>2. ASSUME NEW p \in F.best PROVE Rank([id |-> p.id, preferred |-> TRUE]) = 2
    BY <1>2, <1>3, RankIs
  <2>3. ASSUME NEW p \in F.others PROVE Rank([id |-> p.id, preferred |-> FALSE]) = 3
    BY <1>2, <1>3, RankIs
  <2> QED
    BY <1>5, <1>6, <1>7, <2>1, <2>2, <2>3
<1> HIDE DEF missing, plain, best, others
<1>9. /\ best \o others \in Seq(Entry) /\ Sorted(best \o others, Preceding)
      /\ Elems(best \o others) = Elems(best) \cup Elems(others)
  <2>1. \A e \in Elems(best), f \in Elems(others) : Rank(e) < Rank(f)
    BY <1>8
  <2> QED
    BY <1>6, <1>7, <2>1, RanksSorted
<1>10. /\ plain \o (best \o others) \in Seq(Entry)
       /\ Sorted(plain \o (best \o others), Preceding)
       /\ Elems(plain \o (best \o others)) = Elems(plain) \cup (Elems(best) \cup Elems(others))
  <2>1. \A e \in Elems(plain), f \in Elems(best \o others) : Rank(e) < Rank(f)
    BY <1>8, <1>9
  <2> QED
    BY <1>5, <1>9, <2>1, RanksSorted
<1>11. /\ exits \in Seq(Entry) /\ Sorted(exits, Preceding)
       /\ Elems(exits) = Elems(missing) \cup (Elems(plain) \cup (Elems(best) \cup Elems(others)))
  <2>1. \A e \in Elems(missing), f \in Elems(plain \o (best \o others)) : Rank(e) < Rank(f)
    BY <1>4, <1>8, <1>10
  <2>2. missing \in Seq(Entry) /\ Sorted(missing, Preceding)
    BY <1>4
  <2>3. exits = missing \o (plain \o (best \o others))
    BY <1>1
  <2> DEFINE tail == plain \o (best \o others)
  <2>4. /\ tail \in Seq(Entry) /\ Sorted(tail, Preceding)
        /\ \A e \in Elems(missing), f \in Elems(tail) : Rank(e) < Rank(f)
    BY <1>10, <2>1
  <2> HIDE DEF tail
  <2>5. /\ missing \o tail \in Seq(Entry) /\ Sorted(missing \o tail, Preceding)
        /\ Elems(missing \o tail) = Elems(missing) \cup Elems(tail)
    BY <2>2, <2>4, RanksSorted
  <2> QED
    BY <1>10, <2>3, <2>5 DEF tail
<1>12. Elems(plain) \cup Elems(others) =
         {[id |-> p.id, preferred |-> FALSE] :
            p \in {n \in Offered : n.city = 0 \/ ~IsFirstOfCity(n)}}
  BY <1>2, <1>5, <1>7
<1>13. \A e \in Elems(missing) : e.id = listedID /\ ~Known(peers, e.id)
  BY <1>4 DEF Rank
<1>14. Elems(exits) =
         Elems(missing) \cup {[id |-> p.id, preferred |-> TRUE] : p \in F.best}
           \cup {[id |-> p.id, preferred |-> FALSE] :
                   p \in {n \in Offered : n.city = 0 \/ ~IsFirstOfCity(n)}}
  BY <1>6, <1>11, <1>12
<1> QED
  BY <1>2, <1>11, <1>13, <1>14

\* What updateExitNodes makes of a network map and a choice is as it should be.
LEMMA ExitsRightNow ==
  ASSUME IsNetMap(peers), listedID \in Id \cup {0}, exits = Exits(peers, listedID),
         exitStatus = Status(peers, listedID), listedID # 0 => exit = listedID
  PROVE  ExitsRight
<1>1. exits \in Seq(Entry) /\ Sorted(exits, Preceding)
  BY ExitsAre
<1>2. PICK M, B :
        /\ \A e \in M : e.id = listedID /\ ~Known(peers, e.id)
        /\ B \subseteq {p \in Offered : p.city # 0}
        /\ \A p \in Offered : p.city # 0 =>
             \E b \in B : b.city = p.city /\ b.priority >= p.priority
        /\ Elems(exits) =
             M \cup {[id |-> p.id, preferred |-> TRUE] : p \in B}
               \cup {[id |-> p.id, preferred |-> FALSE] :
                       p \in {n \in Offered : n.city = 0 \/ ~IsFirstOfCity(n)}}
  BY ExitsAre
<1>3. \A e : e \in Elems(exits) <=> \E i \in DOMAIN exits : exits[i] = e
  BY DEF Elems
<1>4. /\ Offered \subseteq Nodes /\ Nodes \subseteq Peer
      /\ \A p, q \in Nodes : p.id = q.id => p = q
  BY DEF Offered, Nodes, IsNetMap
<1>5. \A i, j \in DOMAIN exits : i < j => Precedes(exits[i], exits[j])
  BY <1>1 DEF Sorted, Preceding
<1>6. ASSUME NEW i \in DOMAIN exits
      PROVE  exits[i].id = listedID \/ \E p \in Offered : p.id = exits[i].id
  <2>1. exits[i] \in Elems(exits)
    BY <1>3
  <2> QED
    BY <1>2, <2>1
<1>7. ASSUME NEW p \in Offered, p.city # 0
      PROVE  \E i \in DOMAIN exits :
               /\ exits[i].preferred /\ NodeOf(exits[i]).city = p.city
               /\ NodeOf(exits[i]).priority >= p.priority
  <2>1. PICK b \in B : b.city = p.city /\ b.priority >= p.priority
    BY <1>2, <1>7
  <2>2. b \in Nodes
    BY <1>2, <1>4
  <2> DEFINE e == [id |-> b.id, preferred |-> TRUE]
  <2>3. e \in Elems(exits)
    BY <1>2
  <2>4. PICK i \in DOMAIN exits : exits[i] = e
    BY <1>3, <2>3
  <2>5. e.preferred /\ NodeOf(e) = b
    BY <2>2, RankIs
  <2> QED
    BY <2>1, <2>4, <2>5
<1>8. ASSUME NEW p \in Offered
      PROVE  p.city = 0 \/ ~IsFirstOfCity(p) <=>
               \E i \in DOMAIN exits : exits[i] = [id |-> p.id, preferred |-> FALSE]
  <2> DEFINE e == [id |-> p.id, preferred |-> FALSE]
  <2>1. e.id = p.id /\ e.preferred = FALSE /\ Known(peers, e.id)
    BY <1>4 DEF Known, Nodes
  <2>2. e \notin M
    BY <1>2, <2>1
  <2>3. \A q \in B : [id |-> q.id, preferred |-> TRUE] # e
    OBVIOUS
  <2>4. \A q \in Offered : [id |-> q.id, preferred |-> FALSE] = e => q = p
    BY <1>4
  <2> HIDE DEF e
  <2>5. e \in Elems(exits) <=> p.city = 0 \/ ~IsFirstOfCity(p)
    BY <1>2, <2>2, <2>3, <2>4 DEF e
  <2> QED
    BY <1>3, <2>5 DEF e
<1>9. exitStatus = "online" <=> \E p \in Nodes : p.id = listedID /\ p.routes
  <2>1. \A p \in Nodes : p.id # 0
    BY <1>4, PeerType
  <2> QED
    BY <2>1 DEF Status, Nodes
<1>10. exitStatus # "none" => exit = listedID
  BY DEF Status
<1> QED
  BY <1>5, <1>6, <1>7, <1>8, <1>9, <1>10 DEF ExitsRight

-----------------------------------------------------------------------------
(* The invariant                                                           *)

\* The lists of an empty network map are empty.
LEMMA NothingListed == Exits(<<>>, 0) = <<>> /\ View(<<>>, Id) = <<>>
<1>1. Found(<<>>, 0) = Nothing
  <2>1. <<>> \in Seq(Peer) /\ Len(<<>>) = 0
    OBVIOUS
  <2> QED
    BY <2>1, FoundIs
<1>2. Cardinality({}) = 0
  BY FS_EmptySet
<1>3. \A R : InOrder({}, R) = <<>>
  BY <1>2 DEF InOrder
<1>4. Entries(<<>>, TRUE) = <<>> /\ Entries(<<>>, FALSE) = <<>>
  BY DEF Entries
<1>5. Rows(<<>>, Id) = {}
  BY DEF Rows
<1>6. ByLabel({}) = <<>> /\ ByPlace({}) = <<>> /\ View(<<>>, Id) = <<>>
  BY <1>3, <1>5 DEF ByLabel, ByPlace, View
<1>7. /\ Entries(ByLabel(Found(<<>>, 0).plain), FALSE) = <<>>
      /\ Entries(ByPlace(Found(<<>>, 0).best), TRUE) = <<>>
      /\ Entries(ByLabel(Found(<<>>, 0).others), FALSE) = <<>>
  <2>1. /\ Found(<<>>, 0).plain = {} /\ Found(<<>>, 0).best = {}
        /\ Found(<<>>, 0).others = {}
    BY <1>1 DEF Nothing
  <2> QED
    BY ONLY <1>4, <1>6, <2>1
<1>8. <<>> \o (<<>> \o (<<>> \o <<>>)) = <<>>
  OBVIOUS
<1>9. Exits(<<>>, 0) = <<>>
  BY <1>7, <1>8 DEF Exits
<1> QED
  BY <1>6, <1>9

\* A network map in which a node starts or stops to offer routes.
LEMMA ToggledIsNetMap ==
  ASSUME NEW ps, IsNetMap(ps), NEW i \in DOMAIN ps
  PROVE  IsNetMap([ps EXCEPT ![i].routes = ~@])
<1> DEFINE p == [ps[i] EXCEPT !.routes = ~@]
           qs == [ps EXCEPT ![i] = p]
<1>1. ps \in Seq(Peer) /\ ps[i] \in Peer
  BY DEF IsNetMap
<1>2. p \in Peer /\ p.id = ps[i].id
  BY <1>1 DEF Peer
<1> HIDE DEF p
<1>3. qs \in Seq(Peer) /\ DOMAIN qs = DOMAIN ps
  BY <1>1, <1>2
<1>4. \A k \in DOMAIN ps : qs[k].id = ps[k].id
  BY <1>1, <1>2
<1>5. IsNetMap(qs)
  <2> HIDE DEF qs
  <2> QED
    BY <1>3, <1>4 DEF IsNetMap
<1> QED
  BY <1>5 DEF p

\* A network map that a node has left.
LEMMA WithoutIsNetMap ==
  ASSUME NEW ps, IsNetMap(ps), NEW i \in DOMAIN ps
  PROVE  IsNetMap(Without(ps, i))
<1> DEFINE a == SubSeq(ps, 1, i - 1)
           b == SubSeq(ps, i + 1, Len(ps))
           n == Len(ps)
           qs == Without(ps, i)
           at(k) == IF k < i THEN k ELSE k + 1
<1>1. ps \in Seq(Peer) /\ n \in Nat /\ DOMAIN ps = 1..n /\ i \in 1..n
  BY DEF IsNetMap
<1>2. /\ a \in Seq(Peer) /\ Len(a) = i - 1 /\ \A k \in 1..(i - 1) : a[k] = ps[k]
      /\ b \in Seq(Peer) /\ Len(b) = n - i /\ \A k \in 1..(n - i) : b[k] = ps[i + k]
  <2>1. a \in Seq(Peer) /\ Len(a) = i - 1 /\ \A k \in 1..(i - 1) : a[k] = ps[k]
    BY <1>1
  <2>2. b \in Seq(Peer) /\ Len(b) = n - i /\ \A k \in 1..(n - i) : b[k] = ps[i + k]
    BY <1>1
  <2> QED
    BY <2>1, <2>2
<1>3. qs = a \o b
  BY DEF Without
<1> HIDE DEF a, b, n, qs
<1>4. /\ qs \in Seq(Peer) /\ Len(qs) = n - 1
      /\ \A k \in 1..(i - 1) : qs[k] = a[k]
      /\ \A k \in 1..(n - i) : qs[i - 1 + k] = b[k]
  <2>0. a \in Seq(Peer) /\ b \in Seq(Peer)
    BY <1>2
  <2>1. /\ a \o b \in Seq(Peer) /\ Len(a \o b) = Len(a) + Len(b)
        /\ \A k \in 1..Len(a) : (a \o b)[k] = a[k]
        /\ \A k \in 1..Len(b) : (a \o b)[Len(a) + k] = b[k]
    BY ONLY <2>0, ConcatAt
  <2>2. Len(a) + Len(b) = n - 1
    BY <1>1, <1>2
  <2> QED
    BY ONLY <1>2, <1>3, <2>1, <2>2
<1>5. ASSUME NEW k \in DOMAIN qs PROVE at(k) \in DOMAIN ps /\ qs[k] = ps[at(k)]
  <2>0. k \in 1..(n - 1)
    BY <1>1, <1>4
  <2>1. CASE k < i
    BY <1>1, <1>2, <1>4, <2>0, <2>1
  <2>2. CASE ~(k < i)
    <3>1. k + 1 - i \in 1..(n - i) /\ i - 1 + (k + 1 - i) = k /\ i + (k + 1 - i) = k + 1
      BY <1>1, <2>0, <2>2
    <3>2. qs[i - 1 + (k + 1 - i)] = ps[i + (k + 1 - i)]
      BY <1>2, <1>4, <3>1
    <3>3. k + 1 \in 1..n
      BY <1>1, <2>0
    <3> QED
      BY <1>1, <2>2, <3>1, <3>2, <3>3
  <2> QED
    BY <2>1, <2>2
<1>6. \A k, m \in DOMAIN qs : at(k) = at(m) => k = m
  <2>1. DOMAIN qs \subseteq Int /\ i \in Int
    BY <1>1, <1>4
  <2> QED
    BY <2>1
<1>7. IsNetMap(qs)
  <2> HIDE DEF at
  <2> QED
    BY <1>4, <1>5, <1>6 DEF IsNetMap
<1> QED
  BY <1>7 DEF qs

\* The inductive invariant: the lists are those of the state they were made from, and
\* exit is the node last listed.
ListsInv ==
  /\ IsNetMap(peers)
  /\ exitNodeID \in Id \cup {0} /\ listedID \in Id \cup {0} /\ exit \in Id \cup {0}
  /\ query \in Query /\ restored \in BOOLEAN /\ ExitsCurrent
  /\ exitStatus = Status(peers, listedID)
  /\ exits = Exits(peers, listedID)
  /\ listedID # 0 => exit = listedID
  /\ uiPeers = View(peers, query)

\* The lists are those of no network map and no choice at first.
LEMMA ListsInitial == ListsInit => ListsInv
<1> SUFFICES ASSUME ListsInit PROVE ListsInv
  OBVIOUS
<1>1. /\ peers = <<>> /\ exitNodeID = 0 /\ listedID = 0 /\ restored = FALSE /\ exitStatus = "none" /\ exit = 0
      /\ exits = <<>> /\ query = Id /\ uiPeers = <<>>
  BY DEF ListsInit
<1>2. IsNetMap(<<>>)
  BY DEF IsNetMap
<1>3. query \in Query
  BY <1>1, InputsAssumption
<1> QED
  BY <1>1, <1>2, <1>3, NothingListed DEF ListsInv, Status, ExitsCurrent

\* A notification with a network map brings both lists up to date.
LEMMA Received ==
  ASSUME ListsInv, NEW ps, IsNetMap(ps), Receive(ps)
  PROVE  ListsInv'
BY DEF ListsInv, Receive, UpdateExitNodes, ExitsCurrent

\* Each step keeps the lists those of the network map, the choice and the query.
LEMMA ListsStep == ListsInv /\ [ListsNext]_listsVars => ListsInv'
<1> SUFFICES ASSUME ListsInv, [ListsNext]_listsVars PROVE ListsInv'
  OBVIOUS
<1>1. CASE FirstNetMap
  BY <1>1, Received, InputsAssumption DEF FirstNetMap
<1>2. CASE NextNetMap
  <2>1. IsNetMap(peers)
    BY DEF ListsInv
  <2>2. PICK i \in DOMAIN peers :
          \/ Receive([peers EXCEPT ![i].routes = ~@])
          \/ Receive(Without(peers, i))
    BY <1>2 DEF NextNetMap
  <2>3. CASE Receive([peers EXCEPT ![i].routes = ~@])
    BY <2>1, <2>3, ToggledIsNetMap, Received
  <2>4. CASE Receive(Without(peers, i))
    BY <2>1, <2>4, WithoutIsNetMap, Received
  <2> QED
    BY <2>2, <2>3, <2>4
<1>3. ASSUME NEW x \in Id \cup {0}, Choose(x) PROVE ListsInv'
  BY <1>3 DEF ListsInv, Choose, UpdateExitNodes, ExitsCurrent
<1>4. ASSUME NEW x \in Id, Restore(x) PROVE ListsInv'
  BY <1>4 DEF ListsInv, Restore, ExitsCurrent
<1>5. ASSUME NEW q \in Query, Search(q) PROVE ListsInv'
  BY <1>5 DEF ListsInv, Search, exitVars, ExitsCurrent
<1>6. CASE UNCHANGED listsVars
  BY <1>6 DEF ListsInv, listsVars, exitVars, ExitsCurrent
<1> QED
  BY <1>1, <1>2, <1>3, <1>4, <1>5, <1>6 DEF ListsNext

\* So they always are.
LEMMA ListsInvariance == ListsSpec => []ListsInv
<1>1. ListsInit => ListsInv
  BY ListsInitial
<1>2. ListsInv /\ [ListsNext]_listsVars => ListsInv'
  BY ListsStep
<1> QED
  BY <1>1, <1>2, PTL DEF ListsSpec

\* The state of the exit nodes and the peer list has its type: network maps keep
\* distinct node IDs, and both lists have entries of their kind.
THEOREM ListsTyped == ListsSpec => []ListsTypeOK
<1>1. ASSUME ListsInv PROVE ListsTypeOK
  <2>1. uiPeers \in Seq(Row)
    BY <1>1, ViewRight DEF ListsInv
  <2>2. exits \in Seq(Entry)
    BY <1>1, ExitsAre DEF ListsInv
  <2>3. exitStatus \in {"none", "offline", "online"}
    BY <1>1 DEF ListsInv, Status
  <2> QED
    BY <1>1, <2>1, <2>2, <2>3 DEF ListsInv, ListsTypeOK
<1> QED
  BY <1>1, ListsInvariance, PTL

\* Both lists are right in every reachable state, for every set of nodes, locations,
\* priorities, users, network maps and queries (main.go, updateExitNodes, and
\* ui.go, updateState), although restoreSettings leaves those of the main loop behind.
THEOREM ListsAreRight == ListsSpec => []ListsRight
<1>1. ASSUME ListsInv PROVE ListsRight
  <2>1. ExitsRight
    BY <1>1, ExitsRightNow DEF ListsInv
  <2>2. PeersRight
    BY <1>1, ViewRight DEF ListsInv
  <2> QED
    BY <1>1, <2>1, <2>2 DEF ListsRight, ListsInv
<1> QED
  BY <1>1, ListsInvariance, PTL
=============================================================================
